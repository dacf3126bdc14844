---------------------------- MODULE MethodLookup -----------------------------
(***************************************************************************)
(* 02-classes.lisp and 03-methods.lisp: classes, their method              *)
(* dictionaries, the lookup of a method with and without the inline cache, *)
(* and the contexts of message sends; and install-method of                *)
(* 06-compiler.lisp.  A receiver is here what get-class makes of it.       *)
(***************************************************************************)
EXTENDS Image

CONSTANTS METHOD_DICT_HASH_SIZE,
          HASH_MULTIPLIER,   \* 2654435761 in the code
          Selectors,         \* IDs
          Methods,           \* addresses of compiled methods
          INLINE_CACHE_SIZE,
          Sites,             \* cache IDs of call sites
          MaxClasses, MaxContexts   \* bounds

ASSUME MethodsAssumption ==
  /\ {METHOD_DICT_HASH_SIZE, HASH_MULTIPLIER, INLINE_CACHE_SIZE} \subseteq Nat \ {0}
  /\ Sites \subseteq 0..INLINE_CACHE_SIZE-1
  /\ Selectors \cup Methods \subseteq Nat \ {NULL}
  /\ {MaxClasses, MaxContexts, MaxCalls, MaxStops} \subseteq Nat

VARIABLES classes,    \* how many were created: their addresses are 1..classes
          contexts,   \* the same of contexts
          possible,   \* history: what a class may have as the method of a selector
          found,      \* history: what lookups that missed the cache answered
          torn        \* history: call sites left with a part of an entry

history == <<possible, found, torn>>
methodVars == <<classes, contexts, history>>

\* An entry of the inline cache has a class, a selector and a method; a context, as
\* far as it is here, a sender, a receiver and a method.
INLINE_CACHE_ENTRY_SIZE == 3
CONTEXT_SIZE == 3

MethodObjects ==
  [object \in {"superclass", "methods", "dictionaries", "inline-cache", "contexts",
                "current-context"} |->
     Words(CASE object \in {"superclass", "methods"} -> MaxClasses + 1
             [] object = "dictionaries" -> (MaxClasses + 1) * METHOD_DICT_HASH_SIZE * HASH_BUCKET_SIZE
             [] object = "inline-cache" -> INLINE_CACHE_SIZE * INLINE_CACHE_ENTRY_SIZE
             [] object = "contexts" -> (MaxContexts + 1) * CONTEXT_SIZE
             [] object = "current-context" -> 1)]

Super(c) == memory["superclass"][c]
Dictionary(c) == memory["methods"][c]   \* NULL, or the dictionary of c
DictionaryTable(c) == <<"dictionaries", c * METHOD_DICT_HASH_SIZE * HASH_BUCKET_SIZE>>

Cached(site, offset) == memory["inline-cache"][site * INLINE_CACHE_ENTRY_SIZE + offset]
PutCached(site, offset, value) ==
  Put("inline-cache", site * INLINE_CACHE_ENTRY_SIZE + offset, value)

CurrentContext == memory["current-context"][0]
PutCurrent(k) == Put("current-context", 0, k)
Context(k, offset) == memory["contexts"][k * CONTEXT_SIZE + offset]
PutContext(k, offset, value) == Put("contexts", k * CONTEXT_SIZE + offset, value)

MethodInit ==
  /\ classes = 0 /\ contexts = 0
  /\ possible = [c \in 1..MaxClasses |-> [sel \in Selectors |-> {NULL}]]
  /\ found = {} /\ torn = {}

-----------------------------------------------------------------------------
\* new-class: nobody knows the class before it is complete.
NewClass(super) ==
  /\ Idle /\ calls < MaxCalls /\ calls' = calls + 1
  /\ classes < MaxClasses /\ classes' = classes + 1
  /\ memory' = [memory EXCEPT !["superclass"][classes + 1] = super]
  /\ UNCHANGED <<call, stops, contexts, history>>

\* method-hash-int
HomeOfSelector(sel) == (sel * HASH_MULTIPLIER) % METHOD_DICT_HASH_SIZE

MethodDictLookup(c, sel) ==
  Find(DictionaryTable(Dictionary(c)), METHOD_DICT_HASH_SIZE, HomeOfSelector(sel), {sel})

\* Fault: a selector that is there already gets another bucket.
AddAgain(c, sel, method) ==
  Add(DictionaryTable(c), METHOD_DICT_HASH_SIZE, HomeOfSelector(sel), {}, sel, method)

MethodDictAdd(c, sel, method) ==
  Add(DictionaryTable(c), METHOD_DICT_HASH_SIZE, HomeOfSelector(sel), {sel}, sel, method)

\* A class without a dictionary gets one first.
InstallStores(c, sel, method) ==
  (IF Dictionary(c) = NULL THEN <<Put("methods", c, c)>> ELSE <<>>)
  \o MethodDictAdd(c, sel, method)

MayHave(c, sel, methods) == possible' = [possible EXCEPT ![c][sel] = methods]

\* install-method, with the method compiled.  When the dictionary is full the method
\* is dropped.
InstallMethod(c, sel, method) ==
  LET taken == MethodDictAdd(c, sel, method) # <<>> IN
  /\ Begin("install", <<c, sel, taken>>, InstallStores(c, sel, method), method)
  /\ MayHave(c, sel, possible[c][sel] \cup {m \in {method} : taken})
  /\ UNCHANGED <<classes, contexts, found, torn>>

Installed ==
  /\ Returns("install")
  /\ LET c == call.subject[1]
         sel == call.subject[2]
         taken == call.subject[3]
     IN MayHave(c, sel, IF taken THEN {call.answer} ELSE possible[c][sel])
  /\ UNCHANGED <<classes, contexts, found, torn>>

-----------------------------------------------------------------------------
\* lookup-method
LookupMethod(receiverClass, sel) ==
  LET own(c) == IF Dictionary(c) # NULL THEN MethodDictLookup(c, sel) ELSE NULL
      search[c \in 0..MaxClasses] ==
        IF c = NULL THEN NULL ELSE IF own(c) # NULL THEN own(c) ELSE search[Super(c)]
  IN search[receiverClass]

\* Fault: the call site knows the class only.
HitsByClass(site, c, sel) == Cached(site, 0) = c

Hits(site, c, sel) == Cached(site, 0) = c /\ Cached(site, 1) = sel

FillCache(site, c, sel, method) ==
  <<PutCached(site, 0, c), PutCached(site, 1, sel), PutCached(site, 2, method)>>

\* lookup-method-cached
LookupMethodCached(site, c, sel) ==
  LET method == LookupMethod(c, sel) IN
  /\ \/ /\ Hits(site, c, sel)
        /\ Begin("lookup", <<site, c, sel>>, <<>>, Cached(site, 2))
        /\ UNCHANGED <<found, torn>>
     \/ /\ ~Hits(site, c, sel)
        /\ Begin("lookup", <<site, c, sel>>,
                 IF method > NULL THEN FillCache(site, c, sel, method) ELSE <<>>, method)
        /\ found' = found \cup {<<c, sel, method>>}
        /\ torn' = IF method > NULL THEN torn \ {site} ELSE torn
  /\ UNCHANGED <<classes, contexts, possible>>

LookedUp == Returns("lookup") /\ UNCHANGED methodVars

IsFilling(site) == ~Idle /\ call.op = "lookup" /\ call.stores # <<>> /\ call.subject[1] = site

\* The limit, of any call.
StopCall ==
  /\ Stop
  /\ torn' = torn \cup {site \in Sites : IsFilling(site)}
  /\ UNCHANGED <<classes, contexts, possible, found>>

-----------------------------------------------------------------------------
\* Fault: the context is current before it has a sender.
SendStoresCurrentFirst(k, c, method) ==
  <<PutCurrent(k), PutContext(k, 0, CurrentContext), PutContext(k, 1, c), PutContext(k, 2, method)>>

SendStores(k, c, method) ==
  <<PutContext(k, 0, CurrentContext), PutContext(k, 1, c), PutContext(k, 2, method), PutCurrent(k)>>

\* message-send.  Without a method it prints, and answers NULL: no step.
MessageSend(c, sel) ==
  LET method == LookupMethod(c, sel) IN
  /\ method # NULL /\ contexts < MaxContexts
  /\ Begin("send", <<c, sel>>, SendStores(contexts + 1, c, method), contexts + 1)
  /\ contexts' = contexts + 1
  /\ UNCHANGED <<classes, history>>

Sent == Returns("send") /\ UNCHANGED methodVars

\* method-return.  Without a context it prints, and answers NULL.
MethodReturn ==
  /\ CurrentContext # NULL
  /\ Begin("return", <<>>, <<PutCurrent(Context(CurrentContext, 0))>>, NULL)
  /\ UNCHANGED methodVars

Returned == Returns("return") /\ UNCHANGED methodVars

-----------------------------------------------------------------------------
\* What the classes from c upwards may answer: the first that surely has a method ends
\* the search.
Nearest(receiverClass, sel) ==
  LET from[c \in 0..MaxClasses] ==
        IF c = NULL THEN {NULL}
        ELSE (possible[c][sel] \ {NULL})
             \cup (IF NULL \in possible[c][sel] THEN from[Super(c)] ELSE {})
  IN from[receiverClass]

\* "Subclass methods take precedence" (docs/METHOD_LOOKUP.md:8): a lookup finds the
\* method that was installed last in the nearest class that has one.  While an
\* installation goes on, and after it was stopped, it is that or the one before.
LookupFindsNearest ==
  \A c \in 1..classes, sel \in Selectors : LookupMethod(c, sel) \in Nearest(c, sel)

\* With the inline cache a lookup answers what a search for the same class and selector
\* answered, now or before, however sites are shared and entries overwritten; unless an
\* execution was stopped between the stores of the entry.
AnswersWereFound ==
  ~Idle /\ call.op = "lookup" /\ call.subject[1] \notin torn =>
    <<call.subject[2], call.subject[3], call.answer>> \in found

\* Contexts are the call stack of CallStack: also when a send is stopped half-way.
ActivationOf(k) == <<Context(k, 1), Context(k, 2)>>

Chain ==
  LET from[k \in 0..MaxContexts] ==
        IF k = NULL THEN <<>> ELSE <<ActivationOf(k)>> \o from[Context(k, 0)]
  IN from[CurrentContext]

Calls == INSTANCE CallStack WITH
  Activations <- (1..MaxClasses) \X Methods, stack <- Chain

ReturnsToSenders == Calls!Spec
=============================================================================
