----------------------- MODULE SmalltalkRuntime_proofs -----------------------
(***************************************************************************)
(* Proofs about the objects of the Smalltalk runtime, for tables of any    *)
(* size, any strings and calls, and executions stopped anywhere.           *)
(***************************************************************************)
EXTENDS SmalltalkRuntime, FiniteSetTheorems, SequenceTheorems, WellFoundedInduction, TLAPS

LEMMA Constants ==
  /\ SYMBOL_TABLE_CAPACITY \in Nat /\ SYMBOL_HASH_SIZE \in Nat /\ SYMBOL_HASH_SIZE > 0
  /\ METHOD_DICT_HASH_SIZE \in Nat /\ METHOD_DICT_HASH_SIZE > 0
  /\ INLINE_CACHE_SIZE \in Nat /\ Sites \subseteq 0..INLINE_CACHE_SIZE-1
  /\ MaxClasses \in Nat /\ MaxContexts \in Nat /\ MaxCalls \in Nat /\ MaxStops \in Nat
  /\ \A s \in Strings : HashString(s.chars) \in 0..SYMBOL_HASH_SIZE-1
  BY SelectorsAssumption, MethodsAssumption

-----------------------------------------------------------------------------
(***************************************************************************)
(* Searching a hash table.                                                 *)
(***************************************************************************)
LEMMA Least ==
  ASSUME NEW S \in SUBSET Nat, S # {}
  PROVE  Min(S) \in S /\ \A y \in S : Min(S) <= y
<1>1. PICK x \in S : \A y \in S : ~(<<y, x>> \in OpToRel(<, Nat))
  BY WFMin, NatLessThanWellFounded, Zenon
<1>2. \A y \in S : ~(y < x)
  BY <1>1, Zenon DEF OpToRel
<1>3. \A y \in S : x <= y
  BY <1>2
<1> QED BY <1>3 DEF Min

\* A search ends at a place where it may end, if there is one.
LEMMA SearchEnds ==
  ASSUME NEW size \in Nat, NEW home \in 0..size-1, NEW ends \in SUBSET (0..size-1), ends # {}
  PROVE  FirstEnd(size, home, ends) \in ends
<1> DEFINE steps == {k \in 0..size-1 : (home + k) % size \in ends}
<1>1. PICK b \in ends : TRUE
  OBVIOUS
<1>2. \E k \in 0..size-1 : (home + k) % size = b
  <2>1. CASE b >= home
    <3>1. b - home \in 0..size-1 /\ home + (b - home) = b /\ b % size = b
      BY <2>1
    <3> QED BY <3>1
  <2>2. CASE b < home
    <3>1. /\ b + size - home \in 0..size-1 /\ home + (b + size - home) = b + size
          /\ (b + size) % size = b
      BY <2>2
    <3> QED BY <3>1
  <2> QED BY <2>1, <2>2
<1>3. steps \in SUBSET Nat /\ steps # {}
  <2>1. \A k \in 0..size-1 : k \in Nat
    OBVIOUS
  <2>2. PICK k \in 0..size-1 : (home + k) % size \in ends
    BY <1>1, <1>2
  <2> QED BY <2>1, <2>2
<1>4. Min(steps) \in steps
  BY <1>3, Least
<1> QED BY <1>4 DEF FirstEnd

\* The first end stays the first as long as it is an end, when ends become fewer.
LEMMA FirstEndStays ==
  ASSUME NEW size \in Nat, NEW home \in 0..size-1, NEW ends \in SUBSET (0..size-1), NEW fewer \in SUBSET ends,
         ends # {}, FirstEnd(size, home, ends) \in fewer
  PROVE  FirstEnd(size, home, fewer) = FirstEnd(size, home, ends)
<1> DEFINE steps == {k \in 0..size-1 : (home + k) % size \in ends}
           rest == {k \in 0..size-1 : (home + k) % size \in fewer}
<1>1. FirstEnd(size, home, ends) = (home + Min(steps)) % size
      /\ FirstEnd(size, home, fewer) = (home + Min(rest)) % size
  BY DEF FirstEnd
<1>2. steps \in SUBSET Nat /\ rest \in SUBSET Nat /\ rest \subseteq steps
  OBVIOUS
<1>3. steps # {}
  <2>1. PICK b \in ends : TRUE
    OBVIOUS
  <2>2. \E k \in 0..size-1 : (home + k) % size = b
    <3>1. CASE b >= home
      <4>1. b - home \in 0..size-1 /\ home + (b - home) = b /\ b % size = b
        BY <3>1
      <4> QED BY <4>1
    <3>2. CASE b < home
      <4>1. /\ b + size - home \in 0..size-1 /\ home + (b + size - home) = b + size
            /\ (b + size) % size = b
        BY <3>2
      <4> QED BY <4>1
    <3> QED BY <3>1, <3>2
  <2>3. PICK k \in 0..size-1 : (home + k) % size = b
    BY <2>2
  <2> QED BY <2>1, <2>3
<1>4. Min(steps) \in steps /\ \A y \in steps : Min(steps) <= y
  <2> HIDE DEF steps
  <2> QED BY <1>2, <1>3, Least
<1>5. Min(steps) \in rest
  BY <1>1, <1>4
<1>6. Min(rest) \in rest /\ \A y \in rest : Min(rest) <= y
  <2> HIDE DEF rest
  <2> QED BY <1>2, <1>5, Least
<1>7. Min(rest) = Min(steps)
  <2>1. Min(steps) <= Min(rest) /\ Min(rest) <= Min(steps) /\ Min(rest) \in Nat /\ Min(steps) \in Nat
    <3> HIDE DEF steps, rest
    <3> QED BY <1>2, <1>4, <1>5, <1>6
  <2> HIDE DEF steps, rest
  <2> QED BY <2>1
<1> HIDE DEF steps, rest
<1> QED BY <1>1, <1>7

-----------------------------------------------------------------------------
(***************************************************************************)
(* Calls and their stores.                                                 *)
(***************************************************************************)
SelectorNames == {"symbol-count", "symbol-table", "symbol-hash"}
MethodNames == {"superclass", "methods", "dictionaries", "inline-cache", "contexts", "current-context"}

\* Objects are never created or resized here.
Shape ==
  /\ DOMAIN memory = SelectorNames \cup MethodNames
  /\ DOMAIN memory["symbol-count"] = 0..0
  /\ DOMAIN memory["symbol-table"] = 0..SYMBOL_TABLE_CAPACITY-1
  /\ DOMAIN memory["symbol-hash"] = 0..SYMBOL_HASH_SIZE * 3 - 1
  /\ DOMAIN memory["superclass"] = 0..(MaxClasses + 1) - 1 /\ DOMAIN memory["methods"] = 0..(MaxClasses + 1) - 1
  /\ DOMAIN memory["dictionaries"] = 0..(MaxClasses + 1) * METHOD_DICT_HASH_SIZE * 3 - 1
  /\ DOMAIN memory["inline-cache"] = 0..INLINE_CACHE_SIZE * 3 - 1
  /\ DOMAIN memory["contexts"] = 0..(MaxContexts + 1) * 3 - 1
  /\ DOMAIN memory["current-context"] = 0..0

\* Which objects a call writes to.
Touched(op) ==
  CASE op = "intern" -> SelectorNames
    [] op = "install" -> {"methods", "dictionaries"}
    [] op = "lookup" -> {"inline-cache"}
    [] op = "send" -> {"contexts", "current-context"}
    [] op = "return" -> {"current-context"}

Operations == {"intern", "install", "lookup", "send", "return"}

\* Stores of some puts into these objects
Into(stores, objects) ==
  \E puts : stores \in Seq(puts) /\ \A put \in puts : put.object \in objects

CallSound ==
  ~Idle =>
    /\ call = [op |-> call.op, subject |-> call.subject, stores |-> call.stores, answer |-> call.answer]
    /\ call.op \in Operations /\ Into(call.stores, Touched(call.op))

LEMMA Touching ==
  /\ Touched("intern") = SelectorNames /\ Touched("install") = {"methods", "dictionaries"}
  /\ Touched("lookup") = {"inline-cache"} /\ Touched("send") = {"contexts", "current-context"}
  /\ Touched("return") = {"current-context"}
  BY DEF Touched

LEMMA Puts ==
  ASSUME NEW object, NEW i, NEW value
  PROVE  /\ Put(object, i, value).object = object /\ Put(object, i, value).place = i
         /\ Put(object, i, value).value = value
  BY DEF Put

LEMMA NoStores == ASSUME NEW objects PROVE Into(<<>>, objects)
<1> DEFINE puts == {}
<1>1. <<>> \in Seq(puts) /\ \A x \in puts : x.object \in objects
  OBVIOUS
<1> HIDE DEF puts
<1> QED BY <1>1 DEF Into

LEMMA OneStore ==
  ASSUME NEW put, NEW objects, put.object \in objects
  PROVE  Into(<<put>>, objects)
<1> DEFINE puts == {put}
<1>1. <<put>> \in Seq(puts) /\ \A x \in puts : x.object \in objects
  OBVIOUS
<1> HIDE DEF puts
<1> QED BY <1>1 DEF Into

LEMMA TwoStores ==
  ASSUME NEW p, NEW q, NEW objects, {p.object, q.object} \subseteq objects
  PROVE  Into(<<p, q>>, objects)
<1> DEFINE puts == {p, q}
<1>1. <<p, q>> \in Seq(puts) /\ \A x \in puts : x.object \in objects
  OBVIOUS
<1> HIDE DEF puts
<1> QED BY <1>1 DEF Into

LEMMA StoreAfterStore ==
  ASSUME NEW first, NEW second, NEW objects, Into(first, objects), Into(second, objects)
  PROVE  Into(first \o second, objects)
<1>1. PICK puts : first \in Seq(puts) /\ \A put \in puts : put.object \in objects
  BY DEF Into
<1>2. PICK others : second \in Seq(others) /\ \A put \in others : put.object \in objects
  BY DEF Into
<1>3. first \in Seq(puts \cup others) /\ second \in Seq(puts \cup others)
  BY <1>1, <1>2
<1>4. first \o second \in Seq(puts \cup others)
  BY <1>3
<1> QED BY <1>1, <1>2, <1>4 DEF Into

LEMMA ThreeStores ==
  ASSUME NEW p, NEW q, NEW r, NEW objects, {p.object, q.object, r.object} \subseteq objects
  PROVE  Into(<<p, q, r>>, objects)
<1> DEFINE puts == {p, q, r}
<1>1. <<p, q, r>> \in Seq(puts) /\ \A x \in puts : x.object \in objects
  OBVIOUS
<1> HIDE DEF puts
<1> QED BY <1>1 DEF Into

\* What a store does to a word.
LEMMA Storing ==
  ASSUME Shape, CallSound, Store
  PROVE  /\ Shape' /\ CallSound'
         /\ call.op \in Operations /\ call.stores # <<>>
         /\ Head(call.stores).object \in Touched(call.op)
         /\ call' = [op |-> call.op, subject |-> call.subject, stores |-> Tail(call.stores),
                     answer |-> call.answer]
         /\ ~Idle /\ ~Idle' /\ UNCHANGED <<calls, stops>>
         /\ \A o \in DOMAIN memory : \A i \in DOMAIN memory[o] :
              memory'[o][i] = IF Head(call.stores).object = o /\ Head(call.stores).place = i
                              THEN Head(call.stores).value ELSE memory[o][i]
         /\ \A o \in DOMAIN memory : o # Head(call.stores).object => memory'[o] = memory[o]
<1>1. /\ ~Idle /\ call.stores # <<>>
      /\ call = [op |-> call.op, subject |-> call.subject, stores |-> call.stores, answer |-> call.answer]
      /\ call.op \in Operations /\ Into(call.stores, Touched(call.op))
      /\ UNCHANGED <<calls, stops>>
  BY DEF Store, CallSound
<1>2. PICK puts : call.stores \in Seq(puts) /\ \A put \in puts : put.object \in Touched(call.op)
  BY <1>1 DEF Into
<1>3. PICK put \in puts : put = Head(call.stores)
  BY <1>1, <1>2
<1>4. Tail(call.stores) \in Seq(puts)
  BY <1>1, <1>2
<1>5. call' = [op |-> call.op, subject |-> call.subject, stores |-> Tail(call.stores), answer |-> call.answer]
  BY <1>1 DEF Store
<1>6. memory' = [memory EXCEPT ![put.object][put.place] = put.value]
  BY <1>1, <1>3 DEF Store
<1>7. \A o \in DOMAIN memory : o # put.object => memory'[o] = memory[o]
  BY <1>6
<1>8. \A o \in DOMAIN memory : \A i \in DOMAIN memory[o] :
        memory'[o][i] = IF put.object = o /\ put.place = i THEN put.value ELSE memory[o][i]
  BY <1>6
<1>9. DOMAIN memory' = DOMAIN memory /\ \A o \in DOMAIN memory : DOMAIN memory'[o] = DOMAIN memory[o]
  BY <1>6
<1>10. Shape'
  BY <1>9 DEF Shape, SelectorNames, MethodNames
<1>11. call'.op = call.op /\ call'.stores = Tail(call.stores) /\ call'.subject = call.subject
       /\ call'.answer = call.answer
  BY <1>5
<1>12. Into(Tail(call.stores), Touched(call.op))
  BY <1>2, <1>4 DEF Into
<1>13. CallSound'
  BY <1>1, <1>5, <1>11, <1>12 DEF CallSound, Touched
<1>14. ~Idle'
  BY <1>1, <1>5 DEF Idle, NoCall, Operations
<1> QED BY <1>1, <1>2, <1>3, <1>5, <1>7, <1>8, <1>10, <1>13, <1>14

\* What an insertion stores.
LEMMA AddInto ==
  ASSUME NEW table, NEW size, NEW home, NEW keys, NEW key, NEW value, NEW objects, table[1] \in objects
  PROVE  Into(Add(table, size, home, keys, key, value), objects)
<1> DEFINE b == FirstEnd(size, home, Ends(table, size, keys))
           p(offset, word) == PutBucket(table, b, offset, word)
<1>1. \A offset, word : p(offset, word).object \in objects
  BY Puts DEF PutBucket
<1>2. \/ Add(table, size, home, keys, key, value) = <<>>
      \/ Add(table, size, home, keys, key, value) = <<p(HASH_VALUE_OFFSET, value)>>
      \/ Add(table, size, home, keys, key, value) =
           <<p(HASH_KEY_OFFSET, key), p(HASH_VALUE_OFFSET, value), p(HASH_OCCUPIED_OFFSET, HASH_OCCUPIED)>>
  BY DEF Add
<1> HIDE DEF p
<1>3. Into(<<p(HASH_VALUE_OFFSET, value)>>, objects)
  BY <1>1, OneStore
<1>4. Into(<<p(HASH_KEY_OFFSET, key), p(HASH_VALUE_OFFSET, value), p(HASH_OCCUPIED_OFFSET, HASH_OCCUPIED)>>, objects)
  BY <1>1, ThreeStores
<1>5. Into(<<>>, objects)
  BY NoStores
<1> QED BY <1>2, <1>3, <1>4, <1>5

\* A call that is entered
LEMMA Entering ==
  ASSUME NEW op \in Operations, NEW subject, NEW stores, NEW answer, Shape,
         Enter(op, subject, stores, answer), Into(stores, Touched(op))
  PROVE  /\ Shape' /\ CallSound' /\ ~Idle' /\ Idle /\ memory' = memory
         /\ call'.op = op /\ call'.subject = subject /\ call'.stores = stores /\ call'.answer = answer
<1>1. /\ call' = [op |-> op, subject |-> subject, stores |-> stores, answer |-> answer]
      /\ Idle /\ memory' = memory
  BY DEF Enter
<1>2. call'.op = op /\ call'.subject = subject /\ call'.stores = stores /\ call'.answer = answer
  BY <1>1
<1>3. CallSound'
  BY <1>1, <1>2 DEF CallSound, Touched
<1>4. ~Idle'
  BY <1>1 DEF Idle, NoCall, Operations
<1> QED BY <1>1, <1>2, <1>3, <1>4 DEF Shape

-----------------------------------------------------------------------------
(***************************************************************************)
(* The calls of the runtime, and how each of them begins.                  *)
(***************************************************************************)
LEMMA InterningBegins ==
  ASSUME NEW s, Shape, Interning(s)
  PROVE  /\ Shape' /\ CallSound' /\ Idle /\ ~Idle' /\ memory' = memory /\ call'.op = "intern"
         /\ UNCHANGED interned
<1>1. Into(NewSymbol(s, SymbolCount + 1), SelectorNames)
  <2> DEFINE id == SymbolCount + 1
  <2>1. PutName(id, s).object \in SelectorNames /\ PutCount(id).object \in SelectorNames
    BY Puts DEF PutName, PutCount, SelectorNames
  <2>2. Into(SymbolHashInsert(s, id), SelectorNames)
    BY AddInto DEF SymbolHashInsert, symbolHash, SelectorNames
  <2>3. Into(<<PutName(id, s), PutCount(id)>>, SelectorNames)
    BY <2>1, TwoStores
  <2> QED BY <2>2, <2>3, StoreAfterStore DEF NewSymbol
<1>2. "intern" \in Operations /\ Into(<<>>, Touched("intern"))
      /\ Into(NewSymbol(s, SymbolCount + 1), Touched("intern"))
  BY <1>1, NoStores, Touching DEF Operations
<1>3. PICK stores, answer : Enter("intern", s, stores, answer) /\ Into(stores, Touched("intern"))
  BY <1>2 DEF Interning
<1> QED BY <1>2, <1>3, Entering DEF Interning

LEMMA InstallBegins ==
  ASSUME NEW c, NEW sel, NEW method, Shape, InstallMethod(c, sel, method)
  PROVE  /\ Shape' /\ CallSound' /\ Idle /\ ~Idle' /\ memory' = memory /\ call'.op = "install"
         /\ UNCHANGED <<classes, contexts, found, torn>>
<1> DEFINE objects == {"methods", "dictionaries"}
           stores == InstallStores(c, sel, method)
<1>1. Into(MethodDictAdd(c, sel, method), objects)
  BY AddInto DEF MethodDictAdd, DictionaryTable
<1>2. Into(IF Dictionary(c) = NULL THEN <<Put("methods", c, c)>> ELSE <<>>, objects)
  BY Puts, OneStore, NoStores
<1>3. Into(stores, objects)
  BY <1>1, <1>2, StoreAfterStore DEF InstallStores
<1>4. "install" \in Operations /\ Into(stores, Touched("install"))
  BY <1>3, Touching DEF Operations
<1>5. PICK subject, answer : Enter("install", subject, stores, answer)
  BY DEF InstallMethod, Begin
<1> QED BY <1>4, <1>5, Entering DEF InstallMethod

LEMMA LookupBegins ==
  ASSUME NEW site, NEW c, NEW sel, Shape, LookupMethodCached(site, c, sel)
  PROVE  /\ Shape' /\ CallSound' /\ Idle /\ ~Idle' /\ memory' = memory /\ call'.op = "lookup"
         /\ call'.subject = <<site, c, sel>> /\ UNCHANGED <<classes, contexts, possible>>
         /\ \/ /\ Hits(site, c, sel) /\ call'.stores = <<>> /\ call'.answer = Cached(site, 2)
               /\ UNCHANGED <<found, torn>>
            \/ /\ call'.stores = <<>> /\ found' = found \cup {<<c, sel, call'.answer>>} /\ torn' = torn
            \/ /\ call'.stores = FillCache(site, c, sel, call'.answer)
               /\ found' = found \cup {<<c, sel, call'.answer>>} /\ torn' = torn \ {site}
<1> DEFINE method == LookupMethod(c, sel)
<1>1. Into(FillCache(site, c, sel, method), {"inline-cache"})
  BY Puts, ThreeStores DEF FillCache, PutCached
<1>2. /\ "lookup" \in Operations /\ Into(<<>>, Touched("lookup"))
      /\ Into(FillCache(site, c, sel, method), Touched("lookup"))
  BY <1>1, NoStores, Touching DEF Operations
<1> HIDE DEF method
<1>3. UNCHANGED <<classes, contexts, possible>>
  BY DEF LookupMethodCached
<1>4. CASE Hits(site, c, sel)
  <2>1. Enter("lookup", <<site, c, sel>>, <<>>, Cached(site, 2)) /\ UNCHANGED <<found, torn>>
    BY <1>4 DEF LookupMethodCached, Begin
  <2> QED BY <1>2, <1>3, <1>4, <2>1, Entering
<1>5. CASE ~Hits(site, c, sel) /\ method > NULL
  <2>1. /\ Enter("lookup", <<site, c, sel>>, FillCache(site, c, sel, method), method)
        /\ found' = found \cup {<<c, sel, method>>} /\ torn' = torn \ {site}
    BY <1>5 DEF LookupMethodCached, Begin, method
  <2> QED BY <1>2, <1>3, <2>1, Entering
<1>6. CASE ~Hits(site, c, sel) /\ ~(method > NULL)
  <2>1. /\ Enter("lookup", <<site, c, sel>>, <<>>, method)
        /\ found' = found \cup {<<c, sel, method>>} /\ torn' = torn
    BY <1>6 DEF LookupMethodCached, Begin, method
  <2> QED BY <1>2, <1>3, <2>1, Entering
<1> QED BY <1>4, <1>5, <1>6

LEMMA SendBegins ==
  ASSUME NEW c, NEW sel, Shape, MessageSend(c, sel)
  PROVE  /\ Shape' /\ CallSound' /\ Idle /\ ~Idle' /\ memory' = memory /\ call'.op = "send"
         /\ UNCHANGED <<classes, history>>
<1> DEFINE objects == {"contexts", "current-context"}
           stores == SendStores(contexts + 1, c, LookupMethod(c, sel))
<1>1. Into(stores, objects)
  <2> DEFINE p(offset, value) == PutContext(contexts + 1, offset, value)
             last == PutCurrent(contexts + 1)
             m == LookupMethod(c, sel)
  <2>1. \A offset, value : p(offset, value).object \in objects
    BY Puts DEF PutContext
  <2>2. last.object \in objects
    BY Puts DEF PutCurrent
  <2> HIDE DEF m
  <2>3. stores = <<p(0, CurrentContext), p(1, c), p(2, m)>> \o <<last>>
    BY DEF SendStores, m
  <2> HIDE DEF p, last, stores
  <2>4. Into(<<p(0, CurrentContext), p(1, c), p(2, m)>>, objects)
    BY <2>1, ThreeStores
  <2>5. Into(<<last>>, objects)
    BY <2>2, OneStore
  <2> QED BY <2>3, <2>4, <2>5, StoreAfterStore
<1>2. "send" \in Operations /\ Into(stores, Touched("send"))
  BY <1>1, Touching DEF Operations
<1>3. PICK subject, answer : Enter("send", subject, stores, answer)
  BY DEF MessageSend, Begin
<1> QED BY <1>2, <1>3, Entering DEF MessageSend

LEMMA ReturnBegins ==
  ASSUME Shape, MethodReturn
  PROVE  /\ Shape' /\ CallSound' /\ Idle /\ ~Idle' /\ memory' = memory /\ call'.op = "return"
         /\ UNCHANGED methodVars
<1> DEFINE stores == <<PutCurrent(Context(CurrentContext, 0))>>
<1>1. Into(stores, {"current-context"})
  BY Puts, OneStore DEF PutCurrent
<1>2. "return" \in Operations /\ Into(stores, Touched("return"))
  BY <1>1, Touching DEF Operations
<1>3. PICK subject, answer : Enter("return", subject, stores, answer)
  BY DEF MethodReturn, Begin
<1> QED BY <1>2, <1>3, Entering DEF MethodReturn

\* Whatever else happens, words change by stores only, or in a class that is new.
LEMMA OtherSteps ==
  ASSUME Shape, CallSound,
         \/ Interned \/ MethodEnd \/ StopCall
  PROVE  Shape' /\ CallSound' /\ Idle' /\ memory' = memory /\ ~Idle
<1>1. memory' = memory /\ Idle' /\ ~Idle
  BY DEF Interned, MethodEnd, Installed, LookedUp, Sent, Returned, StopCall, Stop, Returns, Idle
<1> QED BY <1>1 DEF Shape, CallSound

LEMMA ClassBegins ==
  ASSUME Shape, CallSound, NEW super, NewClass(super)
  PROVE  /\ Shape' /\ CallSound' /\ Idle /\ Idle' /\ classes' = classes + 1
         /\ \A o \in DOMAIN memory : o # "superclass" => memory'[o] = memory[o]
         /\ UNCHANGED <<contexts, history>>
<1>1. memory' = [memory EXCEPT !["superclass"][classes + 1] = super]
  BY DEF NewClass
<1>2. Idle /\ Idle' /\ classes' = classes + 1 /\ UNCHANGED <<contexts, history>>
  BY DEF NewClass, Idle
<1>3. /\ DOMAIN memory' = DOMAIN memory
      /\ \A o \in DOMAIN memory : DOMAIN memory'[o] = DOMAIN memory[o]
      /\ \A o \in DOMAIN memory : o # "superclass" => memory'[o] = memory[o]
  BY <1>1
<1>4. Shape'
  BY <1>3 DEF Shape, SelectorNames, MethodNames
<1> QED BY <1>2, <1>3, <1>4 DEF CallSound

-----------------------------------------------------------------------------
(***************************************************************************)
(* The inline cache.                                                       *)
(***************************************************************************)
CacheEntry(site) == <<Cached(site, 0), Cached(site, 1), Cached(site, 2)>>

\* An entry is blank, or one that a search answered.
EntryFound(site) == Cached(site, 0) = NULL \/ CacheEntry(site) \in found

\* How far a lookup has filled its entry.
Filling(site, c, sel, method) ==
  \/ call.stores = <<>>
  \/ call.stores = FillCache(site, c, sel, method)
  \/ call.stores = <<PutCached(site, 1, sel), PutCached(site, 2, method)>> /\ Cached(site, 0) = c
  \/ /\ call.stores = <<PutCached(site, 2, method)>>
     /\ Cached(site, 0) = c /\ Cached(site, 1) = sel

LooksUp(site, c, sel, method) ==
  /\ site \in Sites /\ (site \notin torn => <<c, sel, method>> \in found)
  /\ Filling(site, c, sel, method)

LookingUp == ~Idle /\ call.op = "lookup"
LookupSound == LookingUp => LooksUp(call.subject[1], call.subject[2], call.subject[3], call.answer)
EntriesFound == \A site \in Sites \ torn : ~IsFilling(site) => EntryFound(site)

CacheInv == Shape /\ CallSound /\ classes \in Nat /\ LookupSound /\ EntriesFound

LEMMA CacheWords ==
  ASSUME Shape
  PROVE  /\ "inline-cache" \in DOMAIN memory
         /\ \A site \in Sites : \A k \in 0..2 : site * 3 + k \in DOMAIN memory["inline-cache"]
         /\ \A site, other \in Sites : \A k, j \in 0..2 :
              site * 3 + k = other * 3 + j => site = other /\ k = j
<1>1. INLINE_CACHE_SIZE \in Nat /\ Sites \subseteq 0..INLINE_CACHE_SIZE-1
  BY Constants
<1>2. "inline-cache" \in DOMAIN memory /\ DOMAIN memory["inline-cache"] = 0..INLINE_CACHE_SIZE * 3 - 1
  BY DEF Shape, MethodNames
<1> QED BY <1>1, <1>2

LEMMA CacheSame ==
  ASSUME memory'["inline-cache"] = memory["inline-cache"], found \subseteq found'
  PROVE  \A site : EntryFound(site) => EntryFound(site)'
  BY DEF EntryFound, CacheEntry, Cached

LEMMA CacheInit == ASSUME RuntimeInit PROVE CacheInv
<1>1. Shape
  <2>1. DOMAIN Blank = SelectorNames \cup MethodNames
    BY DEF Blank, SelectorObjects, MethodObjects, SelectorNames, MethodNames
  <2> QED BY <2>1 DEF RuntimeInit, Shape, Blank, SelectorObjects, MethodObjects, Words, SelectorNames, MethodNames,
             HASH_BUCKET_SIZE, INLINE_CACHE_ENTRY_SIZE, CONTEXT_SIZE
<1>2. Idle /\ classes \in Nat
  BY DEF RuntimeInit, MethodInit, Idle
<1>3. memory["inline-cache"] = Words(INLINE_CACHE_SIZE * 3)
  BY DEF RuntimeInit, Blank, SelectorObjects, MethodObjects, INLINE_CACHE_ENTRY_SIZE
<1>4. \A site \in Sites : Cached(site, 0) = NULL
  <2>1. TAKE site \in Sites
  <2>2. site * 3 + 0 \in 0..INLINE_CACHE_SIZE * 3 - 1
    BY Constants
  <2> QED BY <1>3, <2>2 DEF Cached, Words, INLINE_CACHE_ENTRY_SIZE
<1> QED BY <1>1, <1>2, <1>4 DEF CacheInv, CallSound, LookupSound, LookingUp, EntriesFound, EntryFound

LEMMA CacheStore ==
  ASSUME CacheInv, Store, UNCHANGED <<interned, methodVars>>
  PROVE  CacheInv'
<1> USE DEF CacheInv
<1> DEFINE put == Head(call.stores)
<1>1. /\ Shape' /\ CallSound' /\ ~Idle /\ ~Idle' /\ call.stores # <<>>
      /\ put.object \in Touched(call.op) /\ call.op \in Operations
      /\ call' = [op |-> call.op, subject |-> call.subject, stores |-> Tail(call.stores), answer |-> call.answer]
      /\ \A o \in DOMAIN memory : \A i \in DOMAIN memory[o] :
           memory'[o][i] = IF put.object = o /\ put.place = i THEN put.value ELSE memory[o][i]
      /\ \A o \in DOMAIN memory : o # put.object => memory'[o] = memory[o]
  BY Storing
<1> HIDE DEF put
<1>2. call'.op = call.op /\ call'.subject = call.subject /\ call'.answer = call.answer
      /\ call'.stores = Tail(call.stores)
  BY <1>1
<1>3. UNCHANGED <<classes, found, torn>>
  BY DEF methodVars, history
<1>4. CASE call.op # "lookup"
  <2>1. put.object # "inline-cache"
    BY <1>1, <1>4, Touching DEF Operations, SelectorNames
  <2>2. memory'["inline-cache"] = memory["inline-cache"]
    BY <1>1, <2>1, CacheWords
  <2>3. EntriesFound'
    BY <1>1, <1>2, <1>3, <1>4, <2>2, CacheSame DEF EntriesFound, IsFilling
  <2> QED BY <1>1, <1>2, <1>3, <1>4, <2>3 DEF LookupSound, LookingUp
<1>5. CASE call.op = "lookup"
  <2>0. PICK site, c, sel, m :
          site = call.subject[1] /\ c = call.subject[2] /\ sel = call.subject[3] /\ m = call.answer
    OBVIOUS
  <2>1. LooksUp(site, c, sel, m)
    BY <1>1, <1>5, <2>0 DEF LookupSound, LookingUp
  <2>2. site \in Sites /\ (site \notin torn => <<c, sel, m>> \in found) /\ Filling(site, c, sel, m)
    BY <2>1 DEF LooksUp
  <2>3. \A other \in Sites, k \in 0..2 :
          Cached(other, k)' = IF put.object = "inline-cache" /\ put.place = other * 3 + k
                              THEN put.value ELSE Cached(other, k)
    BY <1>1, CacheWords DEF Cached, INLINE_CACHE_ENTRY_SIZE
  <2>4. \A k, value : /\ PutCached(site, k, value).object = "inline-cache"
                      /\ PutCached(site, k, value).place = site * 3 + k
                      /\ PutCached(site, k, value).value = value
    BY Puts DEF PutCached, INLINE_CACHE_ENTRY_SIZE
  <2> DEFINE first == PutCached(site, 0, c)
             second == PutCached(site, 1, sel)
             third == PutCached(site, 2, m)
  <2>5. \/ call.stores = <<first, second, third>>
        \/ call.stores = <<second, third>> /\ Cached(site, 0) = c
        \/ call.stores = <<third>> /\ Cached(site, 0) = c /\ Cached(site, 1) = sel
    BY <1>1, <2>2 DEF Filling, FillCache
  <2>6. \A other \in Sites : other # site =>
          Cached(other, 0)' = Cached(other, 0) /\ Cached(other, 1)' = Cached(other, 1)
          /\ Cached(other, 2)' = Cached(other, 2)
    <3>1. \E k \in 0..2 : put.object = "inline-cache" /\ put.place = site * 3 + k
      <4>1. put \in {first, second, third}
        <5> HIDE DEF first, second, third
        <5> QED BY <2>5 DEF put
      <4> QED BY <2>4, <4>1
    <3>2. TAKE other \in Sites
    <3>3. HAVE other # site
    <3>4. \A k \in 0..2 : put.place # other * 3 + k
      BY <2>2, <3>1, <3>3, CacheWords
    <3>5. \A k \in 0..2 : Cached(other, k)' = Cached(other, k)
      BY <2>3, <3>4
    <3>6. 0 \in 0..2 /\ 1 \in 0..2 /\ 2 \in 0..2
      OBVIOUS
    <3> QED BY <3>5, <3>6, Zenon
  <2>7. \A other \in Sites : other # site => (EntryFound(other) => EntryFound(other)')
    BY <1>3, <2>6 DEF EntryFound, CacheEntry
  <2>8. Filling(site, c, sel, m)' /\ (call'.stores = <<>> =>
          Cached(site, 0)' = c /\ Cached(site, 1)' = sel /\ Cached(site, 2)' = m)
    <3>1. site * 3 + 0 # site * 3 + 1 /\ site * 3 + 0 # site * 3 + 2 /\ site * 3 + 1 # site * 3 + 2
      BY <2>2, CacheWords
    <3> DEFINE word(k) == IF put.object = "inline-cache" /\ put.place = site * 3 + k
                          THEN put.value ELSE Cached(site, k)
    <3>2a. Cached(site, 0)' = word(0) /\ Cached(site, 1)' = word(1) /\ Cached(site, 2)' = word(2)
      <4>1. 0 \in 0..2 /\ 1 \in 0..2 /\ 2 \in 0..2
        OBVIOUS
      <4> QED BY <2>2, <2>3, <4>1, Zenon
    <3>2. CASE call.stores = <<first, second, third>>
      <4>1. put = first /\ Tail(call.stores) = <<second, third>>
        <5> HIDE DEF first, second, third
        <5> QED BY <3>2 DEF put
      <4>2. Cached(site, 0)' = c
        BY <2>4, <3>2a, <4>1
      <4>3. call'.stores = <<second, third>> /\ call'.stores # <<>>
        BY <1>2, <4>1
      <4> QED BY <4>2, <4>3 DEF Filling, PutCached, Put
    <3>3. CASE call.stores = <<second, third>> /\ Cached(site, 0) = c
      <4>1. put = second /\ Tail(call.stores) = <<third>>
        <5> HIDE DEF first, second, third
        <5> QED BY <3>3 DEF put
      <4>2. Cached(site, 0)' = c /\ Cached(site, 1)' = sel
        BY <2>4, <3>1, <3>2a, <3>3, <4>1
      <4>3. call'.stores = <<third>> /\ call'.stores # <<>>
        BY <1>2, <4>1
      <4> QED BY <4>2, <4>3 DEF Filling, PutCached, Put
    <3>4. CASE call.stores = <<third>> /\ Cached(site, 0) = c /\ Cached(site, 1) = sel
      <4>1. put = third /\ Tail(call.stores) = <<>>
        <5> HIDE DEF first, second, third
        <5> QED BY <3>4 DEF put
      <4>2. Cached(site, 0)' = c /\ Cached(site, 1)' = sel /\ Cached(site, 2)' = m
        BY <2>4, <3>1, <3>2a, <3>4, <4>1
      <4> QED BY <1>2, <4>1, <4>2 DEF Filling, PutCached, Put
    <3> QED BY <2>5, <3>2, <3>3, <3>4
  <2>9. call'.subject[1] = site /\ call'.subject[2] = c /\ call'.subject[3] = sel /\ call'.answer = m
    BY <1>2, <2>0
  <2>10. LookupSound'
    BY <1>3, <2>2, <2>8, <2>9 DEF LookupSound, LookingUp, LooksUp
  <2>11. EntriesFound'
    <3> SUFFICES ASSUME NEW other \in Sites, other \notin torn, ~IsFilling(other)'
                 PROVE  EntryFound(other)'
      BY <1>3 DEF EntriesFound
    <3>1. CASE other # site
      <4>1. ~IsFilling(other)
        BY <2>0, <3>1 DEF IsFilling
      <4> QED BY <2>7, <3>1, <4>1 DEF EntriesFound
    <3>2. CASE other = site
      <4>1. call'.stores = <<>>
        BY <1>1, <1>2, <1>5, <2>9, <3>2 DEF IsFilling
      <4> QED BY <1>3, <2>2, <2>8, <3>2, <4>1 DEF EntryFound, CacheEntry
    <3> QED BY <3>1, <3>2
  <2> QED BY <1>1, <1>3, <2>10, <2>11
<1> QED BY <1>4, <1>5

\* A step that leaves the cache alone, and no call that could fill it behind it.
LEMMA CacheAside ==
  ASSUME CacheInv, Shape', CallSound', classes' \in Nat, UNCHANGED <<found, torn>>,
         memory'["inline-cache"] = memory["inline-cache"], ~LookingUp',
         Idle \/ call.stores = <<>> \/ call.op # "lookup"
  PROVE  CacheInv'
<1>1. EntriesFound'
  <2> SUFFICES ASSUME NEW site \in Sites, site \notin torn PROVE EntryFound(site)'
    BY DEF EntriesFound
  <2>1. ~IsFilling(site)
    BY DEF IsFilling
  <2> QED BY <2>1, CacheSame DEF CacheInv, EntriesFound
<1> QED BY <1>1 DEF CacheInv, LookupSound

LEMMA CacheLookup ==
  ASSUME CacheInv, NEW site \in Sites, NEW c \in Classes, NEW sel, LookupMethodCached(site, c, sel)
  PROVE  CacheInv'
<1>1. /\ Shape' /\ CallSound' /\ Idle /\ ~Idle' /\ memory' = memory /\ call'.op = "lookup"
      /\ call'.subject = <<site, c, sel>> /\ classes' = classes
      /\ \/ /\ Hits(site, c, sel) /\ call'.stores = <<>> /\ call'.answer = Cached(site, 2)
            /\ UNCHANGED <<found, torn>>
         \/ /\ call'.stores = <<>> /\ found' = found \cup {<<c, sel, call'.answer>>} /\ torn' = torn
         \/ /\ call'.stores = FillCache(site, c, sel, call'.answer)
            /\ found' = found \cup {<<c, sel, call'.answer>>} /\ torn' = torn \ {site}
  BY LookupBegins DEF CacheInv
<1>2. \A other \in Sites \ torn : EntryFound(other)
  BY <1>1 DEF CacheInv, EntriesFound, IsFilling
<1>3. c # NULL
  BY DEF CacheInv, Classes, NULL
<1>4. \A other : EntryFound(other) => EntryFound(other)'
  <2>1. found \subseteq found' /\ memory'["inline-cache"] = memory["inline-cache"]
    BY <1>1
  <2> QED BY <2>1, CacheSame
<1>5. PICK m : m = call'.answer
  OBVIOUS
<1>6. LooksUp(site, c, sel, m)'
  <2>1. CASE /\ Hits(site, c, sel) /\ call'.stores = <<>> /\ m = Cached(site, 2)
             /\ UNCHANGED <<found, torn>>
    <3>1. site \notin torn => <<c, sel, m>> \in found
      BY <1>2, <1>3, <2>1 DEF EntryFound, CacheEntry, Hits
    <3> QED BY <2>1, <3>1 DEF LooksUp, Filling
  <2>2. CASE call'.stores = <<>> /\ <<c, sel, m>> \in found'
    BY <2>2 DEF LooksUp, Filling
  <2>3. CASE call'.stores = FillCache(site, c, sel, m) /\ <<c, sel, m>> \in found'
    BY <2>3 DEF LooksUp, Filling, FillCache, PutCached, Put
  <2> QED BY <1>1, <1>5, <2>1, <2>2, <2>3
<1>7. LookupSound'
  BY <1>1, <1>5, <1>6 DEF LookupSound
<1>8. EntriesFound'
  <2> SUFFICES ASSUME NEW other \in Sites, other \notin torn', ~IsFilling(other)' PROVE EntryFound(other)'
    BY DEF EntriesFound
  <2>1. CASE other \notin torn
    BY <1>2, <1>4, <2>1
  <2>2. CASE other \in torn
    <3>1. other = site /\ call'.stores = FillCache(site, c, sel, m)
      BY <1>1, <1>5, <2>2
    <3>2. call'.stores # <<>>
      BY <3>1 DEF FillCache
    <3>3. IsFilling(other)'
      BY <1>1, <3>1, <3>2 DEF IsFilling
    <3> QED BY <3>3
  <2> QED BY <2>1, <2>2
<1> QED BY <1>1, <1>7, <1>8 DEF CacheInv

(***************************************************************************)
(* A step of the image, whoever makes it: an expression, or the compiler.  *)
(* How calls and stops are counted is nobody's business here.              *)
(***************************************************************************)
Abandon == Idle' /\ (Idle \/ call.op = "intern") /\ UNCHANGED <<memory, interned, methodVars>>

ImageStep ==
  \/ Store /\ UNCHANGED <<interned, methodVars>>
  \/ (\E s \in Strings : Interning(s)) /\ UNCHANGED methodVars
  \/ Interned /\ UNCHANGED methodVars
  \/ MethodCall /\ UNCHANGED interned
  \/ MethodEnd /\ UNCHANGED interned
  \/ StopCall /\ UNCHANGED interned
  \/ Abandon
  \/ UNCHANGED <<memory, call, interned, methodVars>>

LEMMA RuntimeSteps == ASSUME [RuntimeNext]_runtimeVars PROVE ImageStep
<1>1. ASSUME NEW s \in Literals, InternSelector(s), UNCHANGED methodVars PROVE ImageStep
  BY <1>1, SelectorsAssumption DEF InternSelector, ImageStep
<1>2. CASE UNCHANGED runtimeVars
  BY <1>2 DEF ImageStep, runtimeVars, imageVars
<1> QED BY <1>1, <1>2 DEF RuntimeNext, ImageStep

LEMMA Abandoning == ASSUME Shape, Abandon PROVE Shape' /\ CallSound' /\ Idle' /\ memory' = memory
BY DEF Abandon, Shape, CallSound

LEMMA CacheNext == ASSUME CacheInv, ImageStep PROVE CacheInv'
<1> USE DEF CacheInv
<1>0. \A o : o \in SelectorNames \cup MethodNames => o \in DOMAIN memory
  BY DEF Shape
<1>1. CASE Store /\ UNCHANGED <<interned, methodVars>>
  BY <1>1, CacheStore
<1>2. ASSUME NEW s \in Strings, Interning(s), UNCHANGED methodVars PROVE CacheInv'
  <2>1. Shape' /\ CallSound' /\ Idle /\ memory' = memory /\ call'.op = "intern"
    BY <1>2, InterningBegins
  <2>2. UNCHANGED <<classes, found, torn>>
    BY <1>2 DEF methodVars, history
  <2> QED BY <2>1, <2>2, CacheAside DEF LookingUp
<1>3. CASE Interned /\ UNCHANGED methodVars
  <2>1. Shape' /\ CallSound' /\ Idle' /\ memory' = memory /\ call.stores = <<>>
    BY <1>3, OtherSteps DEF Interned, Returns
  <2>2. UNCHANGED <<classes, found, torn>>
    BY <1>3 DEF methodVars, history
  <2> QED BY <2>1, <2>2, CacheAside DEF LookingUp
<1>4. ASSUME NEW super, NewClass(super) PROVE CacheInv'
  <2>1. /\ Shape' /\ CallSound' /\ Idle /\ Idle' /\ classes' = classes + 1
        /\ \A o \in DOMAIN memory : o # "superclass" => memory'[o] = memory[o]
        /\ UNCHANGED <<found, torn>>
    BY <1>4, ClassBegins DEF history
  <2>2. memory'["inline-cache"] = memory["inline-cache"]
    BY <1>0, <2>1 DEF MethodNames
  <2> QED BY <2>1, <2>2, CacheAside DEF LookingUp
<1>5. ASSUME NEW c, NEW sel, NEW method, InstallMethod(c, sel, method) PROVE CacheInv'
  <2>1. /\ Shape' /\ CallSound' /\ Idle /\ memory' = memory /\ call'.op = "install"
        /\ UNCHANGED <<classes, found, torn>>
    BY <1>5, InstallBegins
  <2> QED BY <2>1, CacheAside DEF LookingUp
<1>6. ASSUME NEW c, NEW sel, MessageSend(c, sel) PROVE CacheInv'
  <2>1. /\ Shape' /\ CallSound' /\ Idle /\ memory' = memory /\ call'.op = "send"
        /\ UNCHANGED <<classes, found, torn>>
    BY <1>6, SendBegins DEF history
  <2> QED BY <2>1, CacheAside DEF LookingUp
<1>7. CASE MethodReturn
  <2>1. /\ Shape' /\ CallSound' /\ Idle /\ memory' = memory /\ call'.op = "return"
        /\ UNCHANGED <<classes, found, torn>>
    BY <1>7, ReturnBegins DEF methodVars, history
  <2> QED BY <2>1, CacheAside DEF LookingUp
<1>8. CASE MethodEnd
  <2>1. Shape' /\ CallSound' /\ Idle' /\ memory' = memory
    BY <1>8, OtherSteps
  <2>2. call.stores = <<>> /\ UNCHANGED <<classes, found, torn>>
    BY <1>8 DEF MethodEnd, Installed, LookedUp, Sent, Returned, Returns, methodVars, history
  <2> QED BY <2>1, <2>2, CacheAside DEF LookingUp
<1>9. CASE StopCall
  <2>1. Shape' /\ CallSound' /\ Idle' /\ memory' = memory
    BY <1>9, OtherSteps
  <2>2. torn' = torn \cup {site \in Sites : IsFilling(site)} /\ UNCHANGED <<classes, found>>
    BY <1>9 DEF StopCall
  <2>3. EntriesFound'
    <3>1. \A site : EntryFound(site) => EntryFound(site)'
      BY <2>1, <2>2, CacheSame
    <3> QED BY <2>2, <3>1 DEF EntriesFound
  <2> QED BY <2>1, <2>2, <2>3 DEF LookupSound, LookingUp
<1>11. CASE Abandon
  <2>1. Shape' /\ CallSound' /\ Idle' /\ memory' = memory
    BY <1>11, Abandoning
  <2>2. (Idle \/ call.op = "intern") /\ UNCHANGED <<classes, found, torn>>
    BY <1>11 DEF Abandon, methodVars, history
  <2> QED BY <2>1, <2>2, CacheAside DEF LookingUp
<1>10. CASE UNCHANGED <<memory, call, interned, methodVars>>
  <2>1. UNCHANGED <<memory, call, classes, found, torn>>
    BY <1>10 DEF methodVars, history
  <2> QED BY <2>1 DEF Shape, CallSound, Idle, LookupSound, LookingUp, LooksUp, Filling, EntriesFound, EntryFound,
                      CacheEntry, Cached, IsFilling
<1> QED BY <1>1, <1>2, <1>3, <1>4, <1>5, <1>6, <1>7, <1>8, <1>9, <1>10, <1>11, CacheLookup DEF ImageStep, MethodCall

LEMMA CacheFound == ASSUME CacheInv PROVE AnswersWereFound
BY DEF CacheInv, AnswersWereFound, LookupSound, LookingUp, LooksUp

\* The answers of lookup-method-cached are answers of searches, for any classes, selectors
\* and call sites and whatever executions are stopped (03-methods.lisp): the entry of a
\* site that is not torn is blank, or one that a search filled, or is being filled.
THEOREM CacheServesSearches == RuntimeSpec => []AnswersWereFound
BY CacheFound, CacheInit, RuntimeSteps, CacheNext, PTL DEF RuntimeSpec

-----------------------------------------------------------------------------
(***************************************************************************)
(* Names of selectors.                                                     *)
(***************************************************************************)
Buckets == 0..SYMBOL_HASH_SIZE-1
Key(b) == Bucket(symbolHash, b, HASH_KEY_OFFSET)
Value(b) == Bucket(symbolHash, b, HASH_VALUE_OFFSET)
Occupation(b) == Bucket(symbolHash, b, HASH_OCCUPIED_OFFSET)

PutKey(b, s) == PutBucket(symbolHash, b, HASH_KEY_OFFSET, s)
PutValue(b, id) == PutBucket(symbolHash, b, HASH_VALUE_OFFSET, id)
PutOccupied(b) == PutBucket(symbolHash, b, HASH_OCCUPIED_OFFSET, HASH_OCCUPIED)

Named(id, s) == id \in 1..SymbolCount /\ SymbolName(id).chars = s.chars

HashSound ==
  \A b \in Buckets : Occupation(b) \in {HASH_EMPTY, HASH_OCCUPIED}
                    /\ (Occupation(b) = HASH_OCCUPIED => Named(Value(b), Key(b)))

Free(b) == b \in Buckets /\ Occupation(b) = HASH_EMPTY

\* How far an interning is: the name is written and counted before the hash table
\* leads to it, in a bucket that is free until the last store.
Counting(s, id) ==
  /\ id = SymbolCount + 1 /\ id <= SYMBOL_TABLE_CAPACITY
  /\ \/ call.stores = <<PutName(id, s), PutCount(id)>>
     \/ call.stores = <<PutCount(id)>> /\ SymbolName(id) = s
     \/ \E b \in Buckets :
          /\ Free(b)
          /\ \/ call.stores = <<PutName(id, s), PutCount(id), PutKey(b, s), PutValue(b, id), PutOccupied(b)>>
             \/ /\ call.stores = <<PutCount(id), PutKey(b, s), PutValue(b, id), PutOccupied(b)>>
                /\ SymbolName(id) = s

Hashing(s, id) ==
  /\ Named(id, s)
  /\ \/ call.stores = <<>>
     \/ \E b \in Buckets :
          /\ Free(b)
          /\ \/ call.stores = <<PutKey(b, s), PutValue(b, id), PutOccupied(b)>>
             \/ call.stores = <<PutValue(b, id), PutOccupied(b)>> /\ Key(b) = s
             \/ call.stores = <<PutOccupied(b)>> /\ Key(b) = s /\ Value(b) = id

InternSound ==
  ~Idle /\ call.op = "intern" =>
    Counting(call.subject, call.answer) \/ Hashing(call.subject, call.answer)

AllNamed == \A pair \in interned : Named(pair[2], pair[1])

NamesInv ==
  /\ Shape /\ CallSound /\ SymbolCount \in 0..SYMBOL_TABLE_CAPACITY
  /\ HashSound /\ InternSound /\ AllNamed

LEMMA HashWords ==
  ASSUME Shape
  PROVE  /\ {"symbol-count", "symbol-table", "symbol-hash"} \subseteq DOMAIN memory
         /\ \A b \in Buckets : \A k \in 0..2 : b * 3 + k \in DOMAIN memory["symbol-hash"]
         /\ \A b, c \in Buckets : \A k, j \in 0..2 : b * 3 + k = c * 3 + j => b = c /\ k = j
<1>1. SYMBOL_HASH_SIZE \in Nat
  BY Constants
<1>2. /\ {"symbol-count", "symbol-table", "symbol-hash"} \subseteq DOMAIN memory
      /\ DOMAIN memory["symbol-hash"] = 0..SYMBOL_HASH_SIZE * 3 - 1
  BY DEF Shape, SelectorNames
<1> QED BY <1>1, <1>2 DEF Buckets

LEMMA BucketWords ==
  ASSUME NEW b \in Buckets
  PROVE  /\ Key(b) = memory["symbol-hash"][b * 3] /\ Value(b) = memory["symbol-hash"][b * 3 + 1]
         /\ Occupation(b) = memory["symbol-hash"][b * 3 + 2]
<1>1. b \in Nat
  BY Constants DEF Buckets
<1> QED BY <1>1 DEF Key, Value, Occupation, Bucket, Place, symbolHash, HASH_BUCKET_SIZE, HASH_KEY_OFFSET,
           HASH_VALUE_OFFSET, HASH_OCCUPIED_OFFSET

LEMMA SelectorPuts ==
  ASSUME NEW b \in Buckets, NEW s, NEW id
  PROVE  /\ PutName(id, s).object = "symbol-table" /\ PutName(id, s).place = id - 1 /\ PutName(id, s).value = s
         /\ PutCount(id).object = "symbol-count" /\ PutCount(id).place = 0 /\ PutCount(id).value = id
         /\ PutKey(b, s).object = "symbol-hash" /\ PutKey(b, s).place = b * 3 /\ PutKey(b, s).value = s
         /\ PutValue(b, id).object = "symbol-hash" /\ PutValue(b, id).place = b * 3 + 1
         /\ PutValue(b, id).value = id
         /\ PutOccupied(b).object = "symbol-hash" /\ PutOccupied(b).place = b * 3 + 2
         /\ PutOccupied(b).value = HASH_OCCUPIED
<1>1. b \in Nat
  BY Constants DEF Buckets
<1> QED BY <1>1 DEF PutName, PutCount, PutKey, PutValue, PutOccupied, PutBucket, Put, Place, symbolHash,
           HASH_BUCKET_SIZE, HASH_KEY_OFFSET, HASH_VALUE_OFFSET, HASH_OCCUPIED_OFFSET

\* Names, IDs and buckets are words of these objects only.
LEMMA NamesSame ==
  ASSUME \A o \in SelectorNames : memory'[o] = memory[o]
  PROVE  /\ SymbolCount' = SymbolCount
         /\ \A id : SymbolName(id)' = SymbolName(id)
         /\ \A id, s : Named(id, s)' <=> Named(id, s)
         /\ \A b : Key(b)' = Key(b) /\ Value(b)' = Value(b) /\ Occupation(b)' = Occupation(b)
<1>1. /\ memory'["symbol-count"] = memory["symbol-count"] /\ memory'["symbol-table"] = memory["symbol-table"]
      /\ memory'["symbol-hash"] = memory["symbol-hash"]
  BY DEF SelectorNames
<1> QED BY <1>1 DEF SymbolCount, SymbolName, Named, Key, Value, Occupation, Bucket, symbolHash

LEMMA NamesInit == ASSUME RuntimeInit PROVE NamesInv
<1>1. Shape
  BY CacheInit DEF CacheInv
<1>2. Idle /\ interned = {}
  BY DEF RuntimeInit, Idle
<1>3. /\ memory["symbol-hash"] = Words(SYMBOL_HASH_SIZE * 3) /\ memory["symbol-count"] = Words(1)
  BY DEF RuntimeInit, Blank, SelectorObjects, HASH_BUCKET_SIZE
<1>4. \A b \in Buckets : Occupation(b) = HASH_EMPTY
  <2>1. TAKE b \in Buckets
  <2>2. b * 3 + 2 \in 0..SYMBOL_HASH_SIZE * 3 - 1
    BY Constants DEF Buckets
  <2> QED BY <1>3, <2>2, BucketWords DEF Words, NULL, HASH_EMPTY
<1>5. SymbolCount = 0 /\ SymbolCount \in 0..SYMBOL_TABLE_CAPACITY
  BY <1>3, Constants DEF SymbolCount, Words, NULL
<1> QED BY <1>1, <1>2, <1>4, <1>5 DEF NamesInv, CallSound, HashSound, InternSound, AllNamed, HASH_EMPTY,
           HASH_OCCUPIED

\* A search of the table finds the ID of a name of the same characters, or nothing.
LEMMA FoundIsNamed ==
  ASSUME NamesInv, NEW s \in Strings, SymbolHashLookup(s) > 0
  PROVE  Named(SymbolHashLookup(s), s)
<1> DEFINE ends == Ends(symbolHash, SYMBOL_HASH_SIZE, EqualTo(s))
           b == FirstEnd(SYMBOL_HASH_SIZE, HomeOf(s), ends)
<1>1. ~(0 > 0)
  OBVIOUS
<1>2. SymbolHashLookup(s) =
        IF ends = {} \/ Bucket(symbolHash, b, HASH_OCCUPIED_OFFSET) = HASH_EMPTY THEN NULL
        ELSE Bucket(symbolHash, b, HASH_VALUE_OFFSET)
  BY DEF SymbolHashLookup, Find
<1>3. ends # {} /\ Occupation(b) # HASH_EMPTY /\ SymbolHashLookup(s) = Value(b)
  <2> HIDE DEF b, ends
  <2> QED BY <1>1, <1>2 DEF NULL, Occupation, Value
<1>4. /\ SYMBOL_HASH_SIZE \in Nat /\ HomeOf(s) \in 0..SYMBOL_HASH_SIZE-1
      /\ ends \in SUBSET (0..SYMBOL_HASH_SIZE-1)
  BY Constants DEF HomeOf, Ends
<1>5. b \in ends
  <2> HIDE DEF ends
  <2> QED BY <1>3, <1>4, SearchEnds
<1> HIDE DEF b
<1>6. b \in Buckets /\ (Occupation(b) = HASH_OCCUPIED => Key(b) \in EqualTo(s))
  BY <1>5 DEF Ends, Buckets, Occupation, Key
<1>7. Occupation(b) = HASH_OCCUPIED /\ Named(Value(b), Key(b))
  BY <1>3, <1>6 DEF NamesInv, HashSound
<1>8. Key(b).chars = s.chars
  BY <1>6, <1>7 DEF EqualTo, StringEqual
<1> QED BY <1>3, <1>7, <1>8 DEF Named

LEMMA Joined ==
  ASSUME NEW p, NEW q, NEW k, NEW v, NEW o
  PROVE  <<p, q>> \o <<k, v, o>> = <<p, q, k, v, o>>
<1> DEFINE r == <<p, q>> \o <<k, v, o>>
           S == {p, q, k, v, o}
<1>1. <<p, q>> \in Seq(S) /\ <<k, v, o>> \in Seq(S)
  OBVIOUS
<1>2. /\ r \in Seq(S) /\ Len(r) = 5
      /\ \A i \in 1..5 : r[i] = IF i <= 2 THEN <<p, q>>[i] ELSE <<k, v, o>>[i - 2]
  BY <1>1
<1>3. r[1] = p /\ r[2] = q /\ r[3] = k /\ r[4] = v /\ r[5] = o
  BY <1>2
<1>4. <<p, q, k, v, o>> \in Seq(S) /\ Len(<<p, q, k, v, o>>) = 5
  OBVIOUS
<1>5. \A i \in 1..5 : r[i] = <<p, q, k, v, o>>[i]
  BY <1>3
<1> HIDE DEF r, S
<1> QED BY <1>2, <1>4, <1>5, SeqEqual DEF r

Empty == Ends(symbolHash, SYMBOL_HASH_SIZE, {})

\* A name that is new goes to the first free bucket, if there is one.
LEMMA NewSymbolStores ==
  ASSUME NamesInv, NEW s \in Strings, NEW id
  PROVE  \/ Empty = {} /\ NewSymbol(s, id) = <<PutName(id, s), PutCount(id)>>
         \/ \E b \in Buckets :
              /\ Free(b) /\ b = FirstEnd(SYMBOL_HASH_SIZE, HomeOf(s), Empty)
              /\ NewSymbol(s, id) =
                   <<PutName(id, s), PutCount(id), PutKey(b, s), PutValue(b, id), PutOccupied(b)>>
<1> DEFINE ends == Ends(symbolHash, SYMBOL_HASH_SIZE, {})
           b == FirstEnd(SYMBOL_HASH_SIZE, HomeOf(s), ends)
           name == PutName(id, s)
           count == PutCount(id)
<1>1. SymbolHashInsert(s, id) =
        IF ends = {} THEN <<>>
        ELSE IF Occupation(b) = HASH_OCCUPIED THEN <<PutValue(b, id)>>
        ELSE <<PutKey(b, s), PutValue(b, id), PutOccupied(b)>>
  BY DEF SymbolHashInsert, Add, Occupation, PutKey, PutValue, PutOccupied
<1>2. CASE ends = {}
  <2>1. SymbolHashInsert(s, id) = <<>>
    BY <1>1, <1>2
  <2> HIDE DEF name, count
  <2>2. <<name, count>> \o <<>> = <<name, count>>
    OBVIOUS
  <2> QED BY <1>2, <2>1, <2>2 DEF NewSymbol, name, count, Empty
<1>3. CASE ends # {}
  <2>1. /\ SYMBOL_HASH_SIZE \in Nat /\ HomeOf(s) \in 0..SYMBOL_HASH_SIZE-1
        /\ ends \in SUBSET (0..SYMBOL_HASH_SIZE-1)
    BY Constants DEF HomeOf, Ends
  <2>2. b \in ends
    <3> HIDE DEF ends
    <3> QED BY <1>3, <2>1, SearchEnds
  <2>3. b \in Buckets /\ Occupation(b) # HASH_OCCUPIED
    <3> HIDE DEF b
    <3> QED BY <2>2 DEF Ends, Buckets, Occupation
  <2>3a. b = FirstEnd(SYMBOL_HASH_SIZE, HomeOf(s), Empty)
    BY DEF Empty
  <2> HIDE DEF b, ends
  <2>4. Free(b)
    BY <2>3 DEF NamesInv, HashSound, Free
  <2>5. SymbolHashInsert(s, id) = <<PutKey(b, s), PutValue(b, id), PutOccupied(b)>>
    BY <1>1, <1>3, <2>3
  <2> DEFINE k == PutKey(b, s)
             v == PutValue(b, id)
             o == PutOccupied(b)
  <2>6. <<name, count>> \o <<k, v, o>> = <<name, count, k, v, o>>
    BY Joined
  <2> QED BY <2>3, <2>3a, <2>4, <2>5, <2>6 DEF NewSymbol
<1> QED BY <1>2, <1>3

LEMMA NamesBegin ==
  ASSUME NamesInv, NEW s \in Strings, Interning(s)
  PROVE  NamesInv'
<1> USE DEF NamesInv
<1>1. /\ Shape' /\ CallSound' /\ memory' = memory /\ UNCHANGED interned
  BY InterningBegins
<1>2. /\ SymbolCount' = SymbolCount /\ \A id : SymbolName(id)' = SymbolName(id)
      /\ \A id, t : Named(id, t)' <=> Named(id, t)
      /\ \A b : Key(b)' = Key(b) /\ Value(b)' = Value(b) /\ Occupation(b)' = Occupation(b)
  BY <1>1, NamesSame
<1>3. SymbolCount' \in 0..SYMBOL_TABLE_CAPACITY /\ HashSound' /\ AllNamed'
  BY <1>1, <1>2 DEF HashSound, AllNamed
<1>4. CASE SymbolHashLookup(s) > 0 /\ Enter("intern", s, <<>>, SymbolHashLookup(s))
  <2>1. call'.subject = s /\ call'.stores = <<>> /\ call'.answer = SymbolHashLookup(s)
    BY <1>4 DEF Enter
  <2>2. PICK id : id = SymbolHashLookup(s)
    OBVIOUS
  <2>3. Named(id, s)'
    BY <1>2, <1>4, <2>2, FoundIsNamed
  <2>4. Hashing(s, id)'
    BY <2>1, <2>3 DEF Hashing
  <2> QED BY <1>1, <1>3, <2>1, <2>2, <2>4 DEF InternSound
<1>5. CASE HasRoom /\ Enter("intern", s, NewSymbol(s, SymbolCount + 1), SymbolCount + 1)
  <2>1. call'.subject = s /\ call'.stores = NewSymbol(s, SymbolCount + 1) /\ call'.answer = SymbolCount + 1
    BY <1>5 DEF Enter
  <2>2. PICK id : id = SymbolCount + 1
    OBVIOUS
  <2>3. id = SymbolCount' + 1 /\ id <= SYMBOL_TABLE_CAPACITY
    BY <1>2, <1>5, <2>2, Constants DEF HasRoom
  <2>4. \/ call'.stores = <<PutName(id, s), PutCount(id)>>
        \/ \E b \in Buckets : Free(b) /\ call'.stores =
             <<PutName(id, s), PutCount(id), PutKey(b, s), PutValue(b, id), PutOccupied(b)>>
    BY <2>1, <2>2, NewSymbolStores
  <2>5. \A b : Free(b)' <=> Free(b)
    BY <1>2 DEF Free, Buckets
  <2>6. Counting(s, id)'
    BY <2>3, <2>4, <2>5 DEF Counting, Buckets, PutName, PutCount, PutKey, PutValue, PutOccupied, PutBucket, Put,
       Place, symbolHash
  <2> QED BY <1>1, <1>3, <2>1, <2>2, <2>6 DEF InternSound
<1> QED BY <1>4, <1>5 DEF Interning

\* The effects of the stores of an interning
LEMMA TableEffect ==
  ASSUME NamesInv, Store, NEW s, NEW id, id = SymbolCount + 1, id <= SYMBOL_TABLE_CAPACITY,
         Head(call.stores) = PutName(id, s)
  PROVE  /\ SymbolCount' = SymbolCount /\ SymbolName(id)' = s
         /\ \A j \in 1..SymbolCount : SymbolName(j)' = SymbolName(j)
         /\ \A b : Key(b)' = Key(b) /\ Value(b)' = Value(b) /\ Occupation(b)' = Occupation(b)
<1> DEFINE put == Head(call.stores)
<1>1. /\ \A o \in DOMAIN memory : \A i \in DOMAIN memory[o] :
           memory'[o][i] = IF put.object = o /\ put.place = i THEN put.value ELSE memory[o][i]
      /\ \A o \in DOMAIN memory : o # put.object => memory'[o] = memory[o]
  BY Storing DEF NamesInv
<1>2. put.object = "symbol-table" /\ put.place = id - 1 /\ put.value = s
  BY Puts DEF PutName
<1> HIDE DEF put
<1>3. memory'["symbol-count"] = memory["symbol-count"] /\ memory'["symbol-hash"] = memory["symbol-hash"]
  BY <1>1, <1>2, HashWords DEF NamesInv
<1>4. /\ "symbol-table" \in DOMAIN memory /\ DOMAIN memory["symbol-table"] = 0..SYMBOL_TABLE_CAPACITY-1
      /\ SymbolCount \in 0..SYMBOL_TABLE_CAPACITY /\ SYMBOL_TABLE_CAPACITY \in Nat
  BY Constants, HashWords DEF NamesInv, Shape
<1>5. SymbolName(id)' = s
  <2>1. id - 1 \in 0..SYMBOL_TABLE_CAPACITY-1
    BY <1>4
  <2>2. memory'["symbol-table"][id - 1] = s
    BY <1>1, <1>2, <1>4, <2>1
  <2> QED BY <2>2 DEF SymbolName
<1>6. \A j \in 1..SymbolCount : SymbolName(j)' = SymbolName(j)
  <2>1. TAKE j \in 1..SymbolCount
  <2>2. j - 1 \in 0..SYMBOL_TABLE_CAPACITY-1 /\ j - 1 # id - 1
    BY <1>4
  <2> QED BY <1>1, <1>2, <1>4, <2>2 DEF SymbolName
<1> QED BY <1>3, <1>5, <1>6 DEF SymbolCount, Key, Value, Occupation, Bucket, symbolHash

LEMMA CountEffect ==
  ASSUME NamesInv, Store, NEW id, Head(call.stores) = PutCount(id)
  PROVE  /\ SymbolCount' = id /\ \A j : SymbolName(j)' = SymbolName(j)
         /\ \A b : Key(b)' = Key(b) /\ Value(b)' = Value(b) /\ Occupation(b)' = Occupation(b)
<1> DEFINE put == Head(call.stores)
<1>1. /\ \A o \in DOMAIN memory : \A i \in DOMAIN memory[o] :
           memory'[o][i] = IF put.object = o /\ put.place = i THEN put.value ELSE memory[o][i]
      /\ \A o \in DOMAIN memory : o # put.object => memory'[o] = memory[o]
  BY Storing DEF NamesInv
<1>2. put.object = "symbol-count" /\ put.place = 0 /\ put.value = id
  BY Puts DEF PutCount
<1> HIDE DEF put
<1>3. memory'["symbol-table"] = memory["symbol-table"] /\ memory'["symbol-hash"] = memory["symbol-hash"]
  BY <1>1, <1>2, HashWords DEF NamesInv
<1>4. "symbol-count" \in DOMAIN memory /\ 0 \in DOMAIN memory["symbol-count"]
  BY HashWords DEF NamesInv, Shape
<1>5. memory'["symbol-count"][0] = id
  BY <1>1, <1>2, <1>4
<1> QED BY <1>3, <1>5 DEF SymbolCount, SymbolName, Key, Value, Occupation, Bucket, symbolHash

LEMMA HashEffect ==
  ASSUME NamesInv, Store, NEW b \in Buckets, NEW k \in 0..2,
         Head(call.stores).object = "symbol-hash", Head(call.stores).place = b * 3 + k
  PROVE  /\ SymbolCount' = SymbolCount /\ \A j : SymbolName(j)' = SymbolName(j)
         /\ \A id, s : Named(id, s)' <=> Named(id, s)
         /\ \A c \in Buckets \ {b} :
              Key(c)' = Key(c) /\ Value(c)' = Value(c) /\ Occupation(c)' = Occupation(c)
         /\ Key(b)' = IF k = 0 THEN Head(call.stores).value ELSE Key(b)
         /\ Value(b)' = IF k = 1 THEN Head(call.stores).value ELSE Value(b)
         /\ Occupation(b)' = IF k = 2 THEN Head(call.stores).value ELSE Occupation(b)
<1> DEFINE put == Head(call.stores)
<1>1. /\ \A o \in DOMAIN memory : \A i \in DOMAIN memory[o] :
           memory'[o][i] = IF put.object = o /\ put.place = i THEN put.value ELSE memory[o][i]
      /\ \A o \in DOMAIN memory : o # put.object => memory'[o] = memory[o]
  BY Storing DEF NamesInv
<1>2. put.object = "symbol-hash" /\ put.place = b * 3 + k
  OBVIOUS
<1> HIDE DEF put
<1>3. memory'["symbol-table"] = memory["symbol-table"] /\ memory'["symbol-count"] = memory["symbol-count"]
  BY <1>1, <1>2, HashWords DEF NamesInv
<1>4. \A c \in Buckets, j \in 0..2 :
        memory'["symbol-hash"][c * 3 + j] =
          IF c = b /\ j = k THEN put.value ELSE memory["symbol-hash"][c * 3 + j]
  <2>1. TAKE c \in Buckets, j \in 0..2
  <2>2. "symbol-hash" \in DOMAIN memory /\ c * 3 + j \in DOMAIN memory["symbol-hash"]
        /\ (b * 3 + k = c * 3 + j <=> c = b /\ j = k)
    BY HashWords DEF NamesInv
  <2> QED BY <1>1, <1>2, <2>2
<1>5. \A c \in Buckets :
        /\ Key(c)' = IF c = b /\ 0 = k THEN put.value ELSE Key(c)
        /\ Value(c)' = IF c = b /\ 1 = k THEN put.value ELSE Value(c)
        /\ Occupation(c)' = IF c = b /\ 2 = k THEN put.value ELSE Occupation(c)
  <2>1. TAKE c \in Buckets
  <2>2. /\ Place(symbolHash, c, HASH_KEY_OFFSET) = c * 3 + 0
        /\ Place(symbolHash, c, HASH_VALUE_OFFSET) = c * 3 + 1
        /\ Place(symbolHash, c, HASH_OCCUPIED_OFFSET) = c * 3 + 2
    BY Constants DEF Buckets, Place, symbolHash, HASH_BUCKET_SIZE, HASH_KEY_OFFSET, HASH_VALUE_OFFSET,
       HASH_OCCUPIED_OFFSET
  <2>3. /\ Key(c)' = memory'["symbol-hash"][c * 3 + 0] /\ Key(c) = memory["symbol-hash"][c * 3 + 0]
        /\ Value(c)' = memory'["symbol-hash"][c * 3 + 1] /\ Value(c) = memory["symbol-hash"][c * 3 + 1]
        /\ Occupation(c)' = memory'["symbol-hash"][c * 3 + 2]
        /\ Occupation(c) = memory["symbol-hash"][c * 3 + 2]
    <3> USE <2>2 DEF Bucket, symbolHash
    <3>1. Key(c)' = memory'["symbol-hash"][c * 3 + 0] /\ Key(c) = memory["symbol-hash"][c * 3 + 0]
      BY DEF Key, HASH_KEY_OFFSET, Place
    <3>2. Value(c)' = memory'["symbol-hash"][c * 3 + 1] /\ Value(c) = memory["symbol-hash"][c * 3 + 1]
      BY DEF Value, HASH_VALUE_OFFSET, Place
    <3>3. /\ Occupation(c)' = memory'["symbol-hash"][c * 3 + 2]
          /\ Occupation(c) = memory["symbol-hash"][c * 3 + 2]
      BY DEF Occupation, HASH_OCCUPIED_OFFSET, Place
    <3> QED BY <3>1, <3>2, <3>3
  <2>4. 0 \in 0..2 /\ 1 \in 0..2 /\ 2 \in 0..2
    OBVIOUS
  <2> QED BY <1>4, <2>3, <2>4
<1>6. SymbolCount' = SymbolCount /\ \A j : SymbolName(j)' = SymbolName(j)
  BY <1>3 DEF SymbolCount, SymbolName
<1>7. \A id, s : Named(id, s)' <=> Named(id, s)
  BY <1>6 DEF Named
<1>8. \A c \in Buckets \ {b} : Key(c)' = Key(c) /\ Value(c)' = Value(c) /\ Occupation(c)' = Occupation(c)
  BY <1>5
<1>9. /\ Key(b)' = IF k = 0 THEN put.value ELSE Key(b)
      /\ Value(b)' = IF k = 1 THEN put.value ELSE Value(b)
      /\ Occupation(b)' = IF k = 2 THEN put.value ELSE Occupation(b)
  BY <1>5
<1> QED BY <1>6, <1>7, <1>8, <1>9 DEF put

\* What has a name keeps it.
LEMMA NamesStay ==
  ASSUME NamesInv, UNCHANGED interned, \A j, t : Named(j, t) => Named(j, t)',
         \A b \in Buckets : Occupation(b)' = Occupation(b),
         \A b \in Buckets : Occupation(b) = HASH_OCCUPIED => Key(b)' = Key(b) /\ Value(b)' = Value(b)
  PROVE  HashSound' /\ AllNamed' /\ \A b : Free(b)' <=> Free(b)
<1>1. HashSound'
  <2> SUFFICES ASSUME NEW b \in Buckets
               PROVE  /\ Occupation(b)' \in {HASH_EMPTY, HASH_OCCUPIED}
                      /\ Occupation(b)' = HASH_OCCUPIED => Named(Value(b), Key(b))'
    BY DEF HashSound, Buckets, HASH_EMPTY, HASH_OCCUPIED
  <2>1. PICK i, k : i = Value(b) /\ k = Key(b)
    OBVIOUS
  <2>2. Occupation(b) = HASH_OCCUPIED => Named(i, k)'
    BY <2>1 DEF NamesInv, HashSound
  <2>3. Occupation(b) = HASH_OCCUPIED => Value(b)' = i /\ Key(b)' = k
    BY <2>1
  <2>4. Occupation(b) = HASH_OCCUPIED => (Named(Value(b), Key(b))' <=> Named(i, k)')
    BY <2>3 DEF Named
  <2> QED BY <2>2, <2>4 DEF NamesInv, HashSound
<1>2. AllNamed'
  BY DEF NamesInv, AllNamed
<1>3. \A b : Free(b)' <=> Free(b)
  BY DEF Free, Buckets, HASH_EMPTY
<1> QED BY <1>1, <1>2, <1>3

LEMMA Tails ==
  ASSUME NEW p, NEW q, NEW k, NEW v, NEW o
  PROVE  /\ Head(<<p>>) = p /\ Tail(<<p>>) = <<>>
         /\ Head(<<p, q>>) = p /\ Tail(<<p, q>>) = <<q>>
         /\ Head(<<p, q, k>>) = p /\ Tail(<<p, q, k>>) = <<q, k>>
         /\ Head(<<p, q, k, v>>) = p /\ Tail(<<p, q, k, v>>) = <<q, k, v>>
         /\ Head(<<p, q, k, v, o>>) = p /\ Tail(<<p, q, k, v, o>>) = <<q, k, v, o>>
  OBVIOUS

LEMMA NamesStore ==
  ASSUME NamesInv, Store, UNCHANGED <<interned, methodVars>>
  PROVE  NamesInv'
<1> DEFINE put == Head(call.stores)
<1>1. /\ Shape' /\ CallSound' /\ ~Idle /\ ~Idle' /\ call.stores # <<>>
      /\ put.object \in Touched(call.op) /\ call.op \in Operations
      /\ call' = [op |-> call.op, subject |-> call.subject, stores |-> Tail(call.stores), answer |-> call.answer]
      /\ \A o \in DOMAIN memory : o # put.object => memory'[o] = memory[o]
  BY Storing DEF NamesInv
<1>2. /\ call'.op = call.op /\ call'.subject = call.subject /\ call'.answer = call.answer
      /\ call'.stores = Tail(call.stores)
  BY <1>1
<1>3. CASE call.op # "intern"
  <2>1. put.object \notin SelectorNames
    BY <1>1, <1>3, Touching DEF Operations, SelectorNames
  <2>2. \A o \in SelectorNames : memory'[o] = memory[o]
    BY <1>1, <2>1, HashWords DEF SelectorNames, NamesInv
  <2>3. /\ SymbolCount' = SymbolCount /\ \A j, t : Named(j, t)' <=> Named(j, t)
        /\ \A b : Key(b)' = Key(b) /\ Value(b)' = Value(b) /\ Occupation(b)' = Occupation(b)
    BY <2>2, NamesSame
  <2>4. HashSound' /\ AllNamed'
    BY <2>3, NamesStay
  <2> QED BY <1>1, <1>2, <1>3, <2>3, <2>4 DEF NamesInv, InternSound
<1>4. CASE call.op = "intern"
  <2>1. PICK s, id : s = call.subject /\ id = call.answer
    OBVIOUS
  <2>2. Counting(s, id) \/ Hashing(s, id)
    BY <1>1, <1>4, <2>1 DEF NamesInv, InternSound
  <2>3. SUFFICES SymbolCount' \in 0..SYMBOL_TABLE_CAPACITY /\ HashSound' /\ AllNamed'
                 /\ (Counting(s, id)' \/ Hashing(s, id)')
    BY <1>1, <1>2, <2>1 DEF NamesInv, InternSound
  <2> USE DEF PutName, PutCount, PutKey, PutValue, PutOccupied, PutBucket, Put, Place, symbolHash
  <2>4. ASSUME Counting(s, id), put = PutName(id, s),
               \/ call'.stores = <<PutCount(id)>>
               \/ \E b \in Buckets : /\ Free(b)
                                     /\ call'.stores = <<PutCount(id), PutKey(b, s), PutValue(b, id), PutOccupied(b)>>
        PROVE  SymbolCount' \in 0..SYMBOL_TABLE_CAPACITY /\ HashSound' /\ AllNamed' /\ Counting(s, id)'
    <3>1. id = SymbolCount + 1 /\ id <= SYMBOL_TABLE_CAPACITY
      BY <2>4 DEF Counting
    <3>2. /\ SymbolCount' = SymbolCount /\ SymbolName(id)' = s
          /\ \A j \in 1..SymbolCount : SymbolName(j)' = SymbolName(j)
          /\ \A b : Key(b)' = Key(b) /\ Value(b)' = Value(b) /\ Occupation(b)' = Occupation(b)
      BY <2>4, <3>1, TableEffect
    <3>3. \A j, t : Named(j, t) => Named(j, t)'
      BY <3>2 DEF Named
    <3>4. HashSound' /\ AllNamed' /\ \A b : Free(b)' <=> Free(b)
      BY <3>2, <3>3, NamesStay
    <3>5. Counting(s, id)'
      BY <2>4, <3>1, <3>2, <3>4 DEF Counting, Buckets
    <3> QED BY <3>2, <3>4, <3>5 DEF NamesInv
  <2>5. ASSUME Counting(s, id), put = PutCount(id), SymbolName(id) = s,
               \/ call'.stores = <<>>
               \/ \E b \in Buckets : Free(b) /\ call'.stores = <<PutKey(b, s), PutValue(b, id), PutOccupied(b)>>
        PROVE  SymbolCount' \in 0..SYMBOL_TABLE_CAPACITY /\ HashSound' /\ AllNamed' /\ Hashing(s, id)'
    <3>1. id = SymbolCount + 1 /\ id <= SYMBOL_TABLE_CAPACITY /\ SymbolCount \in 0..SYMBOL_TABLE_CAPACITY
      BY <2>5 DEF Counting, NamesInv
    <3>2. /\ SymbolCount' = id /\ \A j : SymbolName(j)' = SymbolName(j)
          /\ \A b : Key(b)' = Key(b) /\ Value(b)' = Value(b) /\ Occupation(b)' = Occupation(b)
      BY <2>5, CountEffect
    <3>3. id \in 1..id /\ \A j \in 1..SymbolCount : j \in 1..id
      BY <3>1, Constants
    <3>4. Named(id, s)' /\ \A j, t : Named(j, t) => Named(j, t)'
      BY <2>5, <3>2, <3>3 DEF Named
    <3>5. HashSound' /\ AllNamed' /\ \A b : Free(b)' <=> Free(b)
      BY <3>2, <3>4, NamesStay
    <3>6. Hashing(s, id)'
      BY <2>5, <3>4, <3>5 DEF Hashing, Buckets
    <3> QED BY <3>1, <3>2, <3>3, <3>5, <3>6, Constants
  <2>6. ASSUME NEW b \in Buckets, Free(b), Named(id, s), NEW k \in 0..1,
               put.object = "symbol-hash", put.place = b * 3 + k
        PROVE  /\ SymbolCount' \in 0..SYMBOL_TABLE_CAPACITY /\ HashSound' /\ AllNamed' /\ Named(id, s)'
               /\ Free(b)' /\ Key(b)' = (IF k = 0 THEN put.value ELSE Key(b))
               /\ Value(b)' = (IF k = 1 THEN put.value ELSE Value(b))
    <3>1. k \in 0..2 /\ k # 2
      OBVIOUS
    <3>2. /\ SymbolCount' = SymbolCount /\ \A j, t : Named(j, t)' <=> Named(j, t)
          /\ \A c \in Buckets \ {b} :
               Key(c)' = Key(c) /\ Value(c)' = Value(c) /\ Occupation(c)' = Occupation(c)
          /\ Key(b)' = (IF k = 0 THEN put.value ELSE Key(b))
          /\ Value(b)' = (IF k = 1 THEN put.value ELSE Value(b))
          /\ Occupation(b)' = (IF k = 2 THEN put.value ELSE Occupation(b))
      BY <2>6, <3>1, HashEffect
    <3>3. Occupation(b)' = Occupation(b) /\ Occupation(b) # HASH_OCCUPIED
      BY <2>6, <3>1, <3>2 DEF Free, HASH_EMPTY, HASH_OCCUPIED
    <3>4. HashSound' /\ AllNamed' /\ (Free(b)' <=> Free(b))
      BY <3>2, <3>3, NamesStay
    <3> QED BY <2>6, <3>2, <3>4 DEF NamesInv
  <2>7. ASSUME NEW b \in Buckets, Free(b), Named(id, s), Key(b) = s, Value(b) = id, put = PutOccupied(b)
        PROVE  SymbolCount' \in 0..SYMBOL_TABLE_CAPACITY /\ HashSound' /\ AllNamed' /\ Named(id, s)'
    <3>1. put.object = "symbol-hash" /\ put.place = b * 3 + 2 /\ put.value = HASH_OCCUPIED /\ 2 \in 0..2
      BY <2>7, SelectorPuts
    <3>2. /\ SymbolCount' = SymbolCount /\ \A j, t : Named(j, t)' <=> Named(j, t)
          /\ \A c \in Buckets \ {b} :
               Key(c)' = Key(c) /\ Value(c)' = Value(c) /\ Occupation(c)' = Occupation(c)
          /\ Key(b)' = (IF 2 = 0 THEN put.value ELSE Key(b))
          /\ Value(b)' = (IF 2 = 1 THEN put.value ELSE Value(b))
          /\ Occupation(b)' = (IF 2 = 2 THEN put.value ELSE Occupation(b))
      BY <3>1, HashEffect
    <3>3. HashSound'
      <4> SUFFICES ASSUME NEW c \in Buckets
                   PROVE  /\ Occupation(c)' \in {HASH_EMPTY, HASH_OCCUPIED}
                          /\ Occupation(c)' = HASH_OCCUPIED => Named(Value(c), Key(c))'
        BY DEF HashSound, Buckets, HASH_EMPTY, HASH_OCCUPIED
      <4>1. PICK i, key : i = Value(c) /\ key = Key(c)
        OBVIOUS
      <4>2. Value(c)' = i /\ Key(c)' = key
        BY <3>2, <4>1
      <4>3. Named(Value(c), Key(c))' <=> Named(i, key)'
        BY <4>2 DEF Named
      <4>4. CASE c = b
        BY <2>7, <3>1, <3>2, <4>1, <4>3, <4>4
      <4>5. CASE c # b
        BY <3>2, <4>1, <4>3, <4>5 DEF NamesInv, HashSound
      <4> QED BY <4>4, <4>5
    <3>4. AllNamed'
      BY <3>2 DEF NamesInv, AllNamed
    <3> QED BY <2>7, <3>2, <3>3, <3>4 DEF NamesInv
  <2>8. CASE Counting(s, id)
    <3> DEFINE name == PutName(id, s)
               count == PutCount(id)
    <3>1. CASE call.stores = <<name, count>>
      <4>1. put = name /\ call'.stores = <<count>>
        BY <1>2, <3>1, Tails
      <4> QED BY <2>4, <2>8, <4>1
    <3>2. CASE call.stores = <<count>> /\ SymbolName(id) = s
      <4>1. put = count /\ call'.stores = <<>>
        BY <1>2, <3>2, Tails
      <4> QED BY <2>5, <2>8, <3>2, <4>1
    <3>3. ASSUME NEW b \in Buckets, Free(b),
                 call.stores = <<name, count, PutKey(b, s), PutValue(b, id), PutOccupied(b)>>
          PROVE  SymbolCount' \in 0..SYMBOL_TABLE_CAPACITY /\ HashSound' /\ AllNamed' /\ Counting(s, id)'
      <4>1. put = name /\ call'.stores = <<count, PutKey(b, s), PutValue(b, id), PutOccupied(b)>>
        BY <1>2, <3>3, Tails
      <4> QED BY <2>4, <2>8, <3>3, <4>1
    <3>4. ASSUME NEW b \in Buckets, Free(b), SymbolName(id) = s,
                 call.stores = <<count, PutKey(b, s), PutValue(b, id), PutOccupied(b)>>
          PROVE  SymbolCount' \in 0..SYMBOL_TABLE_CAPACITY /\ HashSound' /\ AllNamed' /\ Hashing(s, id)'
      <4>1. put = count /\ call'.stores = <<PutKey(b, s), PutValue(b, id), PutOccupied(b)>>
        BY <1>2, <3>4, Tails
      <4> QED BY <2>5, <2>8, <3>4, <4>1
    <3> QED BY <2>8, <3>1, <3>2, <3>3, <3>4 DEF Counting
  <2>9. CASE Hashing(s, id)
    <3>1. Named(id, s)
      BY <2>9 DEF Hashing
    <3>2. ASSUME NEW b \in Buckets, Free(b), call.stores = <<PutKey(b, s), PutValue(b, id), PutOccupied(b)>>
          PROVE  SymbolCount' \in 0..SYMBOL_TABLE_CAPACITY /\ HashSound' /\ AllNamed' /\ Hashing(s, id)'
      <4>1. put = PutKey(b, s) /\ call'.stores = <<PutValue(b, id), PutOccupied(b)>>
        BY <1>2, <3>2, Tails
      <4>2. put.object = "symbol-hash" /\ put.place = b * 3 + 0 /\ put.value = s /\ 0 \in 0..1
        <5>1. b * 3 + 0 = b * 3
          BY Constants DEF Buckets
        <5> QED BY <4>1, <5>1, SelectorPuts
      <4>3. /\ SymbolCount' \in 0..SYMBOL_TABLE_CAPACITY /\ HashSound' /\ AllNamed' /\ Named(id, s)'
            /\ Free(b)' /\ Key(b)' = s
        BY <2>6, <3>1, <3>2, <4>2
      <4> QED BY <4>1, <4>3 DEF Hashing, Buckets
    <3>3. ASSUME NEW b \in Buckets, Free(b), call.stores = <<PutValue(b, id), PutOccupied(b)>>, Key(b) = s
          PROVE  SymbolCount' \in 0..SYMBOL_TABLE_CAPACITY /\ HashSound' /\ AllNamed' /\ Hashing(s, id)'
      <4>1. put = PutValue(b, id) /\ call'.stores = <<PutOccupied(b)>>
        BY <1>2, <3>3, Tails
      <4>2. put.object = "symbol-hash" /\ put.place = b * 3 + 1 /\ put.value = id
        BY <4>1, SelectorPuts
      <4>3. /\ SymbolCount' \in 0..SYMBOL_TABLE_CAPACITY /\ HashSound' /\ AllNamed' /\ Named(id, s)'
            /\ Free(b)' /\ Key(b)' = s /\ Value(b)' = id
        BY <2>6, <3>1, <3>3, <4>2
      <4> QED BY <4>1, <4>3 DEF Hashing, Buckets
    <3>4. ASSUME NEW b \in Buckets, Free(b), call.stores = <<PutOccupied(b)>>, Key(b) = s, Value(b) = id
          PROVE  SymbolCount' \in 0..SYMBOL_TABLE_CAPACITY /\ HashSound' /\ AllNamed' /\ Hashing(s, id)'
      <4>1. put = PutOccupied(b) /\ call'.stores = <<>>
        BY <1>2, <3>4, Tails
      <4>2. SymbolCount' \in 0..SYMBOL_TABLE_CAPACITY /\ HashSound' /\ AllNamed' /\ Named(id, s)'
        BY <2>7, <3>1, <3>4, <4>1
      <4> QED BY <4>1, <4>2 DEF Hashing
    <3> QED BY <1>1, <2>9, <3>2, <3>3, <3>4 DEF Hashing
  <2> QED BY <2>2, <2>8, <2>9
<1> QED BY <1>3, <1>4

\* A step of something else than an interning
LEMMA NamesAside ==
  ASSUME NamesInv, Shape', CallSound', UNCHANGED interned, \A o \in SelectorNames : memory'[o] = memory[o],
         ~(~Idle' /\ call'.op = "intern")
  PROVE  NamesInv'
<1>1. /\ SymbolCount' = SymbolCount /\ \A j, t : Named(j, t)' <=> Named(j, t)
      /\ \A b : Key(b)' = Key(b) /\ Value(b)' = Value(b) /\ Occupation(b)' = Occupation(b)
  BY NamesSame
<1>2. HashSound' /\ AllNamed'
  BY <1>1, NamesStay
<1> QED BY <1>1, <1>2 DEF NamesInv, InternSound

\* The ID that a finished interning answers is that of the name.
LEMMA NamesEnd ==
  ASSUME NamesInv, Interned
  PROVE  NamesInv'
<1>1. /\ Shape' /\ CallSound' /\ Idle' /\ memory' = memory /\ ~Idle /\ call.op = "intern"
      /\ call.stores = <<>> /\ interned' = interned \cup {<<call.subject, call.answer>>}
  BY OtherSteps DEF NamesInv, Interned, Returns
<1>2. ~Counting(call.subject, call.answer)
  <2> SUFFICES ASSUME NEW s, NEW id, Counting(s, id) PROVE FALSE
    OBVIOUS
  <2> QED BY <1>1 DEF Counting
<1>3. Named(call.answer, call.subject)
  BY <1>1, <1>2 DEF NamesInv, InternSound, Hashing
<1>4. /\ SymbolCount' = SymbolCount /\ \A j, t : Named(j, t)' <=> Named(j, t)
      /\ \A b : Key(b)' = Key(b) /\ Value(b)' = Value(b) /\ Occupation(b)' = Occupation(b)
  BY <1>1, NamesSame
<1>5. AllNamed'
  <2> SUFFICES ASSUME NEW pair \in interned' PROVE Named(pair[2], pair[1])'
    BY DEF AllNamed
  <2>1. Named(pair[2], pair[1])
    BY <1>1, <1>3 DEF NamesInv, AllNamed
  <2> QED BY <1>4, <2>1
<1>6. HashSound'
  <2> SUFFICES ASSUME NEW b \in Buckets
               PROVE  /\ Occupation(b)' \in {HASH_EMPTY, HASH_OCCUPIED}
                      /\ Occupation(b)' = HASH_OCCUPIED => Named(Value(b), Key(b))'
    BY DEF HashSound, Buckets, HASH_EMPTY, HASH_OCCUPIED
  <2>1. PICK i, key : i = Value(b) /\ key = Key(b)
    OBVIOUS
  <2>2. Named(Value(b), Key(b))' <=> Named(i, key)'
    BY <1>4, <2>1 DEF Named
  <2> QED BY <1>4, <2>1, <2>2 DEF NamesInv, HashSound
<1> QED BY <1>1, <1>4, <1>5, <1>6 DEF NamesInv, InternSound

LEMMA NamesNext == ASSUME NamesInv, ImageStep PROVE NamesInv'
<1>0. Shape /\ CallSound /\ \A o : o \in SelectorNames \cup MethodNames => o \in DOMAIN memory
  BY DEF NamesInv, Shape
<1>1. CASE Store /\ UNCHANGED <<interned, methodVars>>
  BY <1>1, NamesStore
<1>2. ASSUME NEW super, NewClass(super), UNCHANGED interned PROVE NamesInv'
  <2>1. /\ Shape' /\ CallSound' /\ Idle'
        /\ \A o \in DOMAIN memory : o # "superclass" => memory'[o] = memory[o]
    BY <1>0, <1>2, ClassBegins
  <2>2. \A o \in SelectorNames : memory'[o] = memory[o]
    BY <1>0, <2>1 DEF SelectorNames
  <2> QED BY <1>2, <2>1, <2>2, NamesAside
<1>3. ASSUME NEW c, NEW sel, NEW method, InstallMethod(c, sel, method), UNCHANGED interned PROVE NamesInv'
  <2>1. Shape' /\ CallSound' /\ memory' = memory /\ call'.op = "install"
    BY <1>0, <1>3, InstallBegins
  <2> QED BY <1>3, <2>1, NamesAside
<1>4. ASSUME NEW site, NEW c, NEW sel, LookupMethodCached(site, c, sel), UNCHANGED interned PROVE NamesInv'
  <2>1. Shape' /\ CallSound' /\ memory' = memory /\ call'.op = "lookup"
    BY <1>0, <1>4, LookupBegins
  <2> QED BY <1>4, <2>1, NamesAside
<1>5. ASSUME NEW c, NEW sel, MessageSend(c, sel), UNCHANGED interned PROVE NamesInv'
  <2>1. Shape' /\ CallSound' /\ memory' = memory /\ call'.op = "send"
    BY <1>0, <1>5, SendBegins
  <2> QED BY <1>5, <2>1, NamesAside
<1>6. CASE MethodReturn /\ UNCHANGED interned
  <2>1. Shape' /\ CallSound' /\ memory' = memory /\ call'.op = "return"
    BY <1>0, <1>6, ReturnBegins
  <2> QED BY <1>6, <2>1, NamesAside
<1>7. CASE (MethodEnd \/ StopCall) /\ UNCHANGED interned
  <2>1. Shape' /\ CallSound' /\ Idle' /\ memory' = memory
    BY <1>0, <1>7, OtherSteps
  <2> QED BY <1>7, <2>1, NamesAside
<1>9. CASE Abandon
  BY <1>0, <1>9, Abandoning, NamesAside DEF Abandon
<1>8. CASE UNCHANGED <<memory, call, interned, methodVars>>
  <2>1. UNCHANGED <<memory, call, interned>>
    BY <1>8
  <2> QED BY <2>1 DEF NamesInv, Shape, CallSound, Idle, SymbolCount, SymbolName, HashSound, InternSound, AllNamed,
                      Counting, Hashing, Named, Free, Key, Value, Occupation, Bucket
<1> QED BY <1>1, <1>2, <1>3, <1>4, <1>5, <1>6, <1>7, <1>8, <1>9, NamesBegin, NamesEnd DEF ImageStep, MethodCall

LEMMA NamesAre == ASSUME NamesInv PROVE SelectorsNamed
<1> SUFFICES ASSUME NamesInv, NEW pair \in interned, NEW other \in interned
             PROVE  /\ pair[2] <= SymbolCount /\ SymbolName(pair[2]).chars = pair[1].chars
                    /\ pair[2] = other[2] => pair[1].chars = other[1].chars
  BY DEF SelectorsNamed
<1>1. Named(pair[2], pair[1]) /\ Named(other[2], other[1])
  BY DEF NamesInv, AllNamed
<1>2. SymbolCount \in Nat
  BY Constants DEF NamesInv
<1> QED BY <1>1, <1>2 DEF Named

\* The ID that intern-selector answered leads to the characters of the name for ever, and
\* is the ID of no other name, for any strings and any capacity, when the hash table is
\* full, and whatever executions are stopped (01-symbol-table.lisp).
THEOREM IDsKeepTheirNames == RuntimeSpec => []SelectorsNamed
BY NamesAre, NamesInit, RuntimeSteps, NamesNext, PTL DEF RuntimeSpec

-----------------------------------------------------------------------------
(***************************************************************************)
(* The room of the hash table of names.                                    *)
(***************************************************************************)
Short(s) == ~WholeWords(s.chars)

\* Where names of these characters are, and where a search for them ends.
Held(s) == {b \in Buckets : Occupation(b) = HASH_OCCUPIED /\ Key(b).chars = s.chars}
EndsOf(s) == {b \in Buckets : Occupation(b) = HASH_OCCUPIED => Key(b).chars = s.chars}
EndOf(s) == FirstEnd(SYMBOL_HASH_SIZE, HomeOf(s), EndsOf(s))

\* A search for a name that does not fill its last word ends where the name is, so at
\* one bucket.
Reaching == \A s \in Strings : Short(s) => \A b \in Held(s) : EndOf(s) = b

\* Every occupied bucket has an ID of its own: no more buckets are occupied than there
\* are IDs.
IDsApart ==
  \A b, c \in Buckets :
    Occupation(b) = HASH_OCCUPIED /\ Occupation(c) = HASH_OCCUPIED /\ Value(b) = Value(c) => b = c

Served(s, id) == SymbolCount <= SYMBOL_HASH_SIZE /\ Short(s) => \E b \in Held(s) : Value(b) = id
AllServed == \A pair \in interned : pair[1] \in Strings /\ Served(pair[1], pair[2])

\* The bucket that an interning will occupy: searches for the name end there, and its ID
\* is in no other.
Vacant(s, id, b) ==
  /\ Free(b)
  /\ Short(s) => EndOf(s) = b /\ Held(s) = {}
  /\ \A c \in Buckets : Occupation(c) = HASH_OCCUPIED => Value(c) # id

Uncounted(id) == id = SymbolCount + 1 /\ id <= SYMBOL_TABLE_CAPACITY

\* How far an interning is, in a table that has a free bucket, and in a full one.
Placing(s, id, b) ==
  \/ /\ Uncounted(id)
     /\ \/ call.stores = <<PutName(id, s), PutCount(id), PutKey(b, s), PutValue(b, id), PutOccupied(b)>>
        \/ call.stores = <<PutCount(id), PutKey(b, s), PutValue(b, id), PutOccupied(b)>>
  \/ call.stores = <<PutKey(b, s), PutValue(b, id), PutOccupied(b)>>
  \/ call.stores = <<PutValue(b, id), PutOccupied(b)>> /\ Key(b) = s
  \/ call.stores = <<PutOccupied(b)>> /\ Key(b) = s /\ Value(b) = id

Dropping(s, id) ==
  /\ Uncounted(id) /\ id > SYMBOL_HASH_SIZE
  /\ call.stores = <<PutName(id, s), PutCount(id)>> \/ call.stores = <<PutCount(id)>>

Finding(s, id) ==
  /\ s \in Strings
  /\ \/ call.stores = <<>> /\ Served(s, id)
     \/ Dropping(s, id)
     \/ \E b \in Buckets : Vacant(s, id, b) /\ Placing(s, id, b)

FindingSound == ~Idle /\ call.op = "intern" => Finding(call.subject, call.answer)

TableInv == Reaching /\ IDsApart /\ AllServed
RoomInv == NamesInv /\ TableInv /\ FindingSound

LEMMA HomeIs == ASSUME NEW s \in Strings PROVE HomeOf(s) \in 0..SYMBOL_HASH_SIZE-1 /\ SYMBOL_HASH_SIZE \in Nat
  BY Constants DEF HomeOf

\* A search for a short name compares characters only.
LEMMA ShortSearch ==
  ASSUME NEW s, Short(s)
  PROVE  Ends(symbolHash, SYMBOL_HASH_SIZE, EqualTo(s)) = EndsOf(s)
<1>1. \A b \in Buckets : Occupation(b) = HASH_OCCUPIED => (Key(b) \in EqualTo(s) <=> Key(b).chars = s.chars)
  <2>1. TAKE b \in Buckets
  <2>2. HAVE Occupation(b) = HASH_OCCUPIED
  <2>3. b \in Occupied(symbolHash, SYMBOL_HASH_SIZE)
    BY <2>2 DEF Occupied, Buckets, Occupation
  <2>4. \A t : StringEqual(s, t) <=> s.chars = t.chars
    BY DEF Short, StringEqual
  <2> QED BY <2>3, <2>4 DEF EqualTo, Key
<1> QED BY <1>1 DEF Ends, EndsOf, Buckets, Occupation, Key

LEMMA HeldIsEnd == ASSUME NEW s PROVE Held(s) \subseteq EndsOf(s) /\ EndsOf(s) \in SUBSET Buckets
  BY DEF Held, EndsOf

\* What a search finds of a short name that is in the table, and of one that is not.
LEMMA FoundIsHeld ==
  ASSUME NamesInv, Reaching, NEW s \in Strings, Short(s)
  PROVE  /\ SymbolHashLookup(s) > 0 => \E b \in Held(s) : Value(b) = SymbolHashLookup(s)
         /\ SymbolHashLookup(s) = 0 => Held(s) = {}
<1> DEFINE ends == EndsOf(s)
           b == EndOf(s)
<1>1. SymbolHashLookup(s) = IF ends = {} \/ Occupation(b) = HASH_EMPTY THEN NULL ELSE Value(b)
  BY ShortSearch DEF SymbolHashLookup, Find, EndOf, Occupation, Value
<1>2. ends # {} => b \in ends
  BY HomeIs, HeldIsEnd, SearchEnds DEF EndOf, Buckets
<1>3. b \in ends => b \in Buckets /\ (Occupation(b) = HASH_OCCUPIED => b \in Held(s))
  BY DEF EndsOf, Held
<1>4. \A c \in Held(s) : b = c /\ c \in ends /\ Occupation(c) = HASH_OCCUPIED /\ Value(c) > 0
  <2>1. TAKE c \in Held(s)
  <2>2. c \in Buckets /\ Occupation(c) = HASH_OCCUPIED
    BY DEF Held
  <2>3. Named(Value(c), Key(c))
    BY <2>2 DEF NamesInv, HashSound
  <2>4. SymbolCount \in Nat
    BY Constants DEF NamesInv
  <2>5. Value(c) > 0
    BY <2>3, <2>4 DEF Named
  <2> QED BY <2>2, <2>5, HeldIsEnd DEF Reaching
<1> HIDE DEF b, ends
<1>5. ASSUME SymbolHashLookup(s) > 0 PROVE \E c \in Held(s) : Value(c) = SymbolHashLookup(s)
  <2>0. ~(0 > 0)
    OBVIOUS
  <2>1. ends # {} /\ Occupation(b) # HASH_EMPTY /\ SymbolHashLookup(s) = Value(b)
    BY <1>1, <1>5, <2>0 DEF NULL
  <2>2. b \in Held(s)
    BY <1>2, <1>3, <2>1 DEF NamesInv, HashSound
  <2> QED BY <2>1, <2>2
<1>6. ASSUME SymbolHashLookup(s) = 0, NEW c \in Held(s) PROVE FALSE
  <2>0. ~(0 > 0)
    OBVIOUS
  <2>1. b = c /\ ends # {} /\ Occupation(b) # HASH_EMPTY /\ Value(b) > 0
    BY <1>4 DEF HASH_EMPTY, HASH_OCCUPIED
  <2> QED BY <1>1, <1>6, <2>0, <2>1
<1> QED BY <1>5, <1>6

\* A full table has as many IDs as buckets.
LEMMA FullTable ==
  ASSUME NamesInv, IDsApart, Empty = {}
  PROVE  SYMBOL_HASH_SIZE <= SymbolCount
<1>1. SYMBOL_HASH_SIZE \in Nat /\ SYMBOL_HASH_SIZE > 0 /\ SymbolCount \in Nat
  BY Constants DEF NamesInv
<1>2. \A b \in Buckets : Occupation(b) = HASH_OCCUPIED
  BY DEF Empty, Ends, Buckets, Occupation
<1>3. \A b \in Buckets : Value(b) \in 1..SymbolCount
  BY <1>2 DEF NamesInv, HashSound, Named
<1>4. PICK f : f \in [Buckets -> 1..SymbolCount] /\ \A b \in Buckets : f[b] = Value(b)
  <2> DEFINE g == [b \in Buckets |-> Value(b)]
  <2>1. g \in [Buckets -> 1..SymbolCount] /\ \A b \in Buckets : g[b] = Value(b)
    BY <1>3
  <2> QED BY <2>1
<1>5. /\ IsFiniteSet(Buckets) /\ Cardinality(Buckets) = SYMBOL_HASH_SIZE
      /\ IsFiniteSet(1..SymbolCount) /\ Cardinality(1..SymbolCount) = SymbolCount
  <2>1. 0 \in Int /\ 1 \in Int /\ SYMBOL_HASH_SIZE - 1 \in Int /\ SymbolCount \in Int
    BY <1>1
  <2>2. /\ IsFiniteSet(0..SYMBOL_HASH_SIZE-1)
        /\ Cardinality(0..SYMBOL_HASH_SIZE-1) =
             IF 0 > SYMBOL_HASH_SIZE - 1 THEN 0 ELSE SYMBOL_HASH_SIZE - 1 - 0 + 1
    BY <2>1, FS_Interval
  <2>3. /\ IsFiniteSet(1..SymbolCount)
        /\ Cardinality(1..SymbolCount) = IF 1 > SymbolCount THEN 0 ELSE SymbolCount - 1 + 1
    BY <2>1, FS_Interval
  <2> QED BY <1>1, <2>2, <2>3 DEF Buckets
<1>6. ~(SymbolCount < SYMBOL_HASH_SIZE)
  <2> SUFFICES ASSUME SymbolCount < SYMBOL_HASH_SIZE PROVE FALSE
    OBVIOUS
  <2>1. \E b, c \in Buckets : b # c /\ f[b] = f[c]
    <3>1. Cardinality(1..SymbolCount) < Cardinality(Buckets)
      BY <1>5
    <3>2. f \in [Buckets -> 1..SymbolCount] /\ IsFiniteSet(Buckets) /\ IsFiniteSet(1..SymbolCount)
      BY <1>4, <1>5
    <3> QED BY <3>1, <3>2, FS_PigeonHole, Zenon
  <2> QED BY <1>2, <1>4, <2>1 DEF IDsApart
<1> QED BY <1>1, <1>6

\* As long as no bucket is newly occupied and occupied ones keep what they have, searches
\* end where they did.
LEMMA TableStays ==
  ASSUME TableInv, SymbolCount \in Nat, SymbolCount' \in Nat, SymbolCount' >= SymbolCount, UNCHANGED interned,
         \A b \in Buckets : Occupation(b)' = Occupation(b),
         \A b \in Buckets : Occupation(b) = HASH_OCCUPIED => Key(b)' = Key(b) /\ Value(b)' = Value(b)
  PROVE  /\ TableInv'
         /\ \A s, id : Served(s, id) => Served(s, id)'
         /\ \A s, id, b : Vacant(s, id, b) => Vacant(s, id, b)'
<1>1. \A s : Held(s)' = Held(s) /\ EndsOf(s)' = EndsOf(s)
  BY DEF Held, EndsOf, Buckets, HASH_OCCUPIED
<1>2. \A s : EndOf(s)' = EndOf(s)
  BY <1>1 DEF EndOf, HomeOf, FirstEnd, Min
<1>3. \A s, id : Served(s, id) => Served(s, id)'
  <2> SUFFICES ASSUME NEW s, NEW id, Served(s, id), SymbolCount' <= SYMBOL_HASH_SIZE, Short(s)
               PROVE  \E b \in Held(s)' : Value(b)' = id
    BY DEF Served, Short
  <2>1. SymbolCount <= SYMBOL_HASH_SIZE
    BY Constants
  <2>2. PICK b \in Held(s) : Value(b) = id
    BY <2>1 DEF Served
  <2>3. b \in Held(s)' /\ Value(b)' = id
    BY <1>1, <2>2 DEF Held
  <2> QED BY <2>3
<1>4. \A s, id, b : Vacant(s, id, b) => Vacant(s, id, b)'
  BY <1>1, <1>2 DEF Vacant, Free, Buckets, Short, HASH_EMPTY, HASH_OCCUPIED
<1>5. Reaching' /\ IDsApart'
  BY <1>1, <1>2 DEF TableInv, Reaching, IDsApart, Buckets, Short, HASH_OCCUPIED
<1>6. AllServed'
  BY <1>3 DEF TableInv, AllServed
<1> QED BY <1>3, <1>4, <1>5, <1>6 DEF TableInv

LEMMA RoomInit == ASSUME RuntimeInit PROVE RoomInv
<1>1. NamesInv
  BY NamesInit
<1>2. Idle /\ interned = {}
  BY DEF RuntimeInit, Idle
<1>3. memory["symbol-hash"] = Words(SYMBOL_HASH_SIZE * 3)
  BY DEF RuntimeInit, Blank, SelectorObjects, HASH_BUCKET_SIZE
<1>4. \A b \in Buckets : Occupation(b) # HASH_OCCUPIED
  <2>1. TAKE b \in Buckets
  <2>2. b * 3 + 2 \in 0..SYMBOL_HASH_SIZE * 3 - 1
    BY Constants DEF Buckets
  <2> QED BY <1>3, <2>2, BucketWords DEF Words, NULL, HASH_OCCUPIED
<1>5. Reaching /\ IDsApart
  BY <1>4 DEF Reaching, IDsApart, Held
<1> QED BY <1>1, <1>2, <1>5 DEF RoomInv, TableInv, AllServed, FindingSound

LEMMA RoomBegin ==
  ASSUME RoomInv, NEW s \in Strings, Interning(s)
  PROVE  RoomInv'
<1> USE DEF RoomInv
<1>1. NamesInv' /\ memory' = memory /\ UNCHANGED interned
  BY NamesBegin, InterningBegins DEF NamesInv
<1>2. /\ SymbolCount' = SymbolCount /\ SymbolCount \in Nat
      /\ \A b : Key(b)' = Key(b) /\ Value(b)' = Value(b) /\ Occupation(b)' = Occupation(b)
  BY <1>1, Constants DEF SymbolCount, Key, Value, Occupation, Bucket, NamesInv
<1>3. /\ TableInv' /\ \A t, id : Served(t, id) => Served(t, id)'
      /\ \A t, id, b : Vacant(t, id, b) => Vacant(t, id, b)'
  BY <1>1, <1>2, TableStays
<1>4. CASE SymbolHashLookup(s) > 0 /\ Enter("intern", s, <<>>, SymbolHashLookup(s))
  <2>1. call'.subject = s /\ call'.stores = <<>> /\ call'.answer = SymbolHashLookup(s)
    BY <1>4 DEF Enter
  <2>2. PICK id : id = SymbolHashLookup(s)
    OBVIOUS
  <2>3. Served(s, id)
    BY <1>4, <2>2, FoundIsHeld DEF Served, TableInv
  <2>4. Finding(s, id)'
    BY <1>3, <2>1, <2>3 DEF Finding
  <2> QED BY <1>1, <1>3, <2>1, <2>2, <2>4 DEF FindingSound
<1>5. CASE /\ SymbolHashLookup(s) = 0 /\ HasRoom
           /\ Enter("intern", s, NewSymbol(s, SymbolCount + 1), SymbolCount + 1)
  <2>1. call'.subject = s /\ call'.stores = NewSymbol(s, SymbolCount + 1) /\ call'.answer = SymbolCount + 1
    BY <1>5 DEF Enter
  <2>2. PICK id : id = SymbolCount + 1
    OBVIOUS
  <2>3. Uncounted(id)'
    BY <1>2, <1>5, <2>2, Constants DEF HasRoom, Uncounted
  <2>4. CASE Empty = {} /\ NewSymbol(s, id) = <<PutName(id, s), PutCount(id)>>
    <3>1. SYMBOL_HASH_SIZE <= SymbolCount
      BY <2>4, FullTable DEF TableInv
    <3>2. id > SYMBOL_HASH_SIZE
      BY <1>2, <2>2, <3>1, Constants
    <3>3. Dropping(s, id)'
      BY <2>1, <2>2, <2>3, <2>4, <3>2 DEF Dropping, PutName, PutCount, Put
    <3>4. Finding(s, id)'
      BY <3>3 DEF Finding
    <3> QED BY <1>1, <1>3, <2>1, <2>2, <3>4 DEF FindingSound
  <2>5. ASSUME NEW b \in Buckets, Free(b), b = FirstEnd(SYMBOL_HASH_SIZE, HomeOf(s), Empty),
               NewSymbol(s, id) =
                 <<PutName(id, s), PutCount(id), PutKey(b, s), PutValue(b, id), PutOccupied(b)>>
        PROVE  RoomInv'
    <3>1. ASSUME Short(s) PROVE EndOf(s) = b /\ Held(s) = {}
      <4>1. Held(s) = {}
        BY <1>5, <3>1, FoundIsHeld DEF TableInv
      <4>2. EndsOf(s) = Empty
        BY <4>1 DEF EndsOf, Held, Empty, Ends, Buckets, Occupation, Key
      <4> QED BY <2>5, <4>1, <4>2 DEF EndOf
    <3>2. \A c \in Buckets : Occupation(c) = HASH_OCCUPIED => Value(c) # id
      BY <1>2, <2>2 DEF NamesInv, HashSound, Named
    <3>3. Vacant(s, id, b)
      BY <2>5, <3>1, <3>2 DEF Vacant
    <3>4. Placing(s, id, b)'
      BY <2>1, <2>2, <2>3, <2>5 DEF Placing, PutName, PutCount, PutKey, PutValue, PutOccupied, PutBucket, Put,
         Place, symbolHash
    <3>5. Finding(s, id)'
      BY <1>3, <3>3, <3>4 DEF Finding, Buckets
    <3> QED BY <1>1, <1>3, <2>1, <2>2, <3>5 DEF FindingSound
  <2> QED BY <2>2, <2>4, <2>5, NewSymbolStores
<1> QED BY <1>4, <1>5 DEF Interning

\* The last store of an interning puts the name where searches for it end.
LEMMA RoomFilled ==
  ASSUME NamesInv, TableInv, NEW s \in Strings, NEW id, NEW b \in Buckets, Vacant(s, id, b),
         Key(b) = s, Value(b) = id, UNCHANGED <<interned, SymbolCount>>,
         \A c \in Buckets : Key(c)' = Key(c) /\ Value(c)' = Value(c),
         \A c \in Buckets \ {b} : Occupation(c)' = Occupation(c), Occupation(b)' = HASH_OCCUPIED
  PROVE  TableInv' /\ Served(s, id)'
<1>0. Occupation(b) # HASH_OCCUPIED
  BY DEF Vacant, Free, HASH_EMPTY, HASH_OCCUPIED
<1>1. \A t : Held(t)' = Held(t) \cup {c \in {b} : s.chars = t.chars}
  BY <1>0 DEF Held, Buckets, HASH_OCCUPIED
<1>2. \A t : EndsOf(t)' = {c \in EndsOf(t) : c = b => s.chars = t.chars}
  BY <1>0 DEF EndsOf, Buckets, HASH_OCCUPIED
<1>3. \A t : EndOf(t)' = FirstEnd(SYMBOL_HASH_SIZE, HomeOf(t), EndsOf(t)')
  BY DEF EndOf, HomeOf, FirstEnd, Min
<1>4. Reaching'
  <2> SUFFICES ASSUME NEW t \in Strings, Short(t), NEW c \in Held(t)' PROVE EndOf(t)' = c
    BY DEF Reaching, Short
  <2>1. CASE t.chars = s.chars
    <3>1. Short(s) /\ EndOf(t) = EndOf(s) /\ Held(t) = Held(s)
      BY <2>1 DEF Short, EndOf, EndsOf, Held, HomeOf
    <3>2. c = b /\ EndOf(t) = b
      BY <1>1, <3>1 DEF Vacant
    <3>3. EndsOf(t)' = EndsOf(t)
      BY <1>2, <2>1
    <3> QED BY <1>3, <3>2, <3>3 DEF EndOf
  <2>2. CASE t.chars # s.chars
    <3>1. c \in Held(t) /\ c # b
      BY <1>0, <1>1, <2>2 DEF Held
    <3>2. EndOf(t) = c /\ c \in EndsOf(t)
      BY <3>1, HeldIsEnd DEF TableInv, Reaching
    <3>3. c \in EndsOf(t)' /\ EndsOf(t)' \in SUBSET EndsOf(t) /\ EndsOf(t) # {}
      BY <1>2, <3>1, <3>2
    <3>4. EndsOf(t) \in SUBSET (0..SYMBOL_HASH_SIZE-1)
      BY DEF EndsOf, Buckets
    <3>5. FirstEnd(SYMBOL_HASH_SIZE, HomeOf(t), EndsOf(t)') = EndOf(t)
      BY <3>2, <3>3, <3>4, HomeIs, FirstEndStays DEF EndOf
    <3> QED BY <1>3, <3>2, <3>5
  <2> QED BY <2>1, <2>2
<1>5. IDsApart'
  BY <1>0 DEF TableInv, IDsApart, Vacant, Buckets, HASH_OCCUPIED
<1>6. Served(s, id)'
  <2>1. b \in Held(s)' /\ Value(b)' = id
    BY <1>1
  <2> QED BY <2>1 DEF Served
<1>7. AllServed'
  <2> SUFFICES ASSUME NEW pair \in interned, SymbolCount <= SYMBOL_HASH_SIZE, Short(pair[1])
               PROVE  \E c \in Held(pair[1])' : Value(c)' = pair[2]
    BY DEF TableInv, AllServed, Served, Short
  <2>1. PICK c \in Held(pair[1]) : Value(c) = pair[2]
    BY DEF TableInv, AllServed, Served
  <2>2. c \in Held(pair[1])' /\ Value(c)' = pair[2]
    BY <1>1, <2>1 DEF Held
  <2> QED BY <2>2
<1> QED BY <1>4, <1>5, <1>6, <1>7 DEF TableInv

LEMMA RoomStore ==
  ASSUME RoomInv, Store, UNCHANGED <<interned, methodVars>>
  PROVE  RoomInv'
<1> DEFINE put == Head(call.stores)
<1>0. NamesInv' /\ SymbolCount \in Nat /\ SymbolCount' \in Nat
  BY NamesStore, Constants DEF RoomInv, NamesInv
<1>1. /\ ~Idle /\ ~Idle' /\ call.stores # <<>>
      /\ put.object \in Touched(call.op) /\ call.op \in Operations
      /\ call' = [op |-> call.op, subject |-> call.subject, stores |-> Tail(call.stores), answer |-> call.answer]
      /\ \A o \in DOMAIN memory : o # put.object => memory'[o] = memory[o]
  BY Storing DEF RoomInv, NamesInv
<1>2. call'.op = call.op /\ call'.subject = call.subject /\ call'.answer = call.answer
      /\ call'.stores = Tail(call.stores)
  BY <1>1
<1>3. CASE call.op # "intern"
  <2>1. put.object \notin SelectorNames
    BY <1>1, <1>3, Touching DEF Operations, SelectorNames
  <2>2. \A o \in SelectorNames : memory'[o] = memory[o]
    BY <1>1, <2>1, HashWords DEF SelectorNames, RoomInv, NamesInv
  <2>3. SymbolCount' = SymbolCount
        /\ \A b : Key(b)' = Key(b) /\ Value(b)' = Value(b) /\ Occupation(b)' = Occupation(b)
    BY <2>2, NamesSame
  <2>4. TableInv'
    BY <1>0, <2>3, TableStays DEF RoomInv
  <2> QED BY <1>0, <1>2, <1>3, <2>4 DEF RoomInv, FindingSound
<1>4. CASE call.op = "intern"
  <2>1. PICK s, id : s = call.subject /\ id = call.answer
    OBVIOUS
  <2>2. Finding(s, id)
    BY <1>1, <1>4, <2>1 DEF RoomInv, FindingSound
  <2>3. s \in Strings
    BY <2>2 DEF Finding
  <2>4. SUFFICES TableInv' /\ Finding(s, id)'
    BY <1>0, <1>2, <2>1 DEF RoomInv, FindingSound
  <2> USE DEF PutName, PutCount, PutKey, PutValue, PutOccupied, PutBucket, Put, Place, symbolHash
  <2> DEFINE name == PutName(id, s)
             count == PutCount(id)
  <2>5. ASSUME Uncounted(id), put = name
        PROVE  /\ TableInv' /\ Uncounted(id)'
               /\ \A b : Vacant(s, id, b) => Vacant(s, id, b)'
    <3>1. /\ SymbolCount' = SymbolCount
          /\ \A b : Key(b)' = Key(b) /\ Value(b)' = Value(b) /\ Occupation(b)' = Occupation(b)
      BY <2>5, TableEffect DEF Uncounted, RoomInv
    <3>2. TableInv' /\ \A b : Vacant(s, id, b) => Vacant(s, id, b)'
      BY <1>0, <3>1, TableStays DEF RoomInv
    <3> QED BY <2>5, <3>1, <3>2 DEF Uncounted
  <2>6. ASSUME Uncounted(id), put = count
        PROVE  /\ TableInv' /\ SymbolCount' = id
               /\ \A b : Vacant(s, id, b) => Vacant(s, id, b)'
    <3>1. /\ SymbolCount' = id
          /\ \A b : Key(b)' = Key(b) /\ Value(b)' = Value(b) /\ Occupation(b)' = Occupation(b)
      BY <2>6, CountEffect DEF RoomInv
    <3>2. SymbolCount' >= SymbolCount
      BY <1>0, <2>6, <3>1 DEF Uncounted
    <3>3. TableInv' /\ \A b : Vacant(s, id, b) => Vacant(s, id, b)'
      BY <1>0, <3>1, <3>2, TableStays DEF RoomInv
    <3> QED BY <3>1, <3>3
  <2>7. CASE Dropping(s, id)
    <3>1. CASE call.stores = <<name, count>>
      <4>1. put = name /\ call'.stores = <<count>>
        BY <1>2, <3>1, Tails
      <4>2. TableInv' /\ Uncounted(id)'
        BY <2>5, <2>7, <4>1 DEF Dropping
      <4>3. Dropping(s, id)'
        BY <2>7, <4>1, <4>2 DEF Dropping
      <4> QED BY <2>3, <4>2, <4>3 DEF Finding
    <3>2. CASE call.stores = <<count>>
      <4>1. put = count /\ call'.stores = <<>>
        BY <1>2, <3>2, Tails
      <4>2. TableInv' /\ SymbolCount' = id
        BY <2>6, <2>7, <4>1 DEF Dropping
      <4>3. Served(s, id)'
        BY <1>0, <2>7, <4>2, Constants DEF Dropping, Served
      <4> QED BY <2>3, <4>1, <4>2, <4>3 DEF Finding
    <3> QED BY <2>7, <3>1, <3>2 DEF Dropping
  <2>8. ASSUME NEW b \in Buckets, Vacant(s, id, b), Placing(s, id, b)
        PROVE  TableInv' /\ Finding(s, id)'
    <3> DEFINE key == PutKey(b, s)
               value == PutValue(b, id)
               occupied == PutOccupied(b)
    <3>0. b \in Nat /\ b * 3 + 0 = b * 3 /\ Free(b)
      BY <2>8, Constants DEF Buckets, Vacant
    <3>1. SUFFICES TableInv' /\ ((Vacant(s, id, b)' /\ Placing(s, id, b)') \/ (call'.stores = <<>> /\ Served(s, id)'))
      BY <2>3 DEF Finding, Buckets
    <3>2. CASE Uncounted(id) /\ call.stores = <<name, count, key, value, occupied>>
      <4>1. put = name /\ call'.stores = <<count, key, value, occupied>>
        BY <1>2, <3>2, Tails
      <4>2. TableInv' /\ Uncounted(id)' /\ Vacant(s, id, b)'
        BY <2>5, <2>8, <3>2, <4>1
      <4> QED BY <4>1, <4>2 DEF Placing
    <3>3. CASE Uncounted(id) /\ call.stores = <<count, key, value, occupied>>
      <4>1. put = count /\ call'.stores = <<key, value, occupied>>
        BY <1>2, <3>3, Tails
      <4>2. TableInv' /\ Vacant(s, id, b)'
        BY <2>6, <2>8, <3>3, <4>1
      <4> QED BY <4>1, <4>2 DEF Placing
    <3>4. ASSUME NEW k \in 0..1, put.object = "symbol-hash", put.place = b * 3 + k
          PROVE  /\ TableInv' /\ Vacant(s, id, b)'
                 /\ Key(b)' = (IF k = 0 THEN put.value ELSE Key(b))
                 /\ Value(b)' = (IF k = 1 THEN put.value ELSE Value(b))
      <4>1. k \in 0..2 /\ k # 2
        OBVIOUS
      <4>2. /\ SymbolCount' = SymbolCount
            /\ \A c \in Buckets \ {b} :
                 Key(c)' = Key(c) /\ Value(c)' = Value(c) /\ Occupation(c)' = Occupation(c)
            /\ Key(b)' = (IF k = 0 THEN put.value ELSE Key(b))
            /\ Value(b)' = (IF k = 1 THEN put.value ELSE Value(b))
            /\ Occupation(b)' = (IF k = 2 THEN put.value ELSE Occupation(b))
        BY <3>4, <4>1, HashEffect DEF RoomInv
      <4>3. Occupation(b)' = Occupation(b) /\ Occupation(b) # HASH_OCCUPIED
        BY <3>0, <4>1, <4>2 DEF Free, HASH_EMPTY, HASH_OCCUPIED
      <4>4. TableInv' /\ Vacant(s, id, b)'
        BY <1>0, <2>8, <4>2, <4>3, TableStays DEF RoomInv
      <4> QED BY <4>2, <4>4
    <3>5. CASE call.stores = <<key, value, occupied>>
      <4>1. put = key /\ call'.stores = <<value, occupied>>
        BY <1>2, <3>5, Tails
      <4>2. put.object = "symbol-hash" /\ put.place = b * 3 + 0 /\ put.value = s /\ 0 \in 0..1
        BY <3>0, <4>1, SelectorPuts
      <4>3. TableInv' /\ Vacant(s, id, b)' /\ Key(b)' = s
        BY <3>4, <4>2
      <4> QED BY <4>1, <4>3 DEF Placing
    <3>6. CASE call.stores = <<value, occupied>> /\ Key(b) = s
      <4>1. put = value /\ call'.stores = <<occupied>>
        BY <1>2, <3>6, Tails
      <4>2. put.object = "symbol-hash" /\ put.place = b * 3 + 1 /\ put.value = id /\ 1 \in 0..1
        BY <4>1, SelectorPuts
      <4>3. TableInv' /\ Vacant(s, id, b)' /\ Key(b)' = s /\ Value(b)' = id
        BY <3>4, <3>6, <4>2
      <4> QED BY <4>1, <4>3 DEF Placing
    <3>7. CASE call.stores = <<occupied>> /\ Key(b) = s /\ Value(b) = id
      <4>1. put = occupied /\ call'.stores = <<>>
        BY <1>2, <3>7, Tails
      <4>2. put.object = "symbol-hash" /\ put.place = b * 3 + 2 /\ put.value = HASH_OCCUPIED /\ 2 \in 0..2
        BY <4>1, SelectorPuts
      <4>3. /\ SymbolCount' = SymbolCount
            /\ \A c \in Buckets \ {b} :
                 Key(c)' = Key(c) /\ Value(c)' = Value(c) /\ Occupation(c)' = Occupation(c)
            /\ Key(b)' = (IF 2 = 0 THEN put.value ELSE Key(b))
            /\ Value(b)' = (IF 2 = 1 THEN put.value ELSE Value(b))
            /\ Occupation(b)' = (IF 2 = 2 THEN put.value ELSE Occupation(b))
        BY <4>2, HashEffect DEF RoomInv
      <4>4. TableInv' /\ Served(s, id)'
        BY <2>3, <2>8, <3>7, <4>2, <4>3, RoomFilled DEF RoomInv
      <4> QED BY <4>1, <4>4
    <3> QED BY <2>8, <3>2, <3>3, <3>5, <3>6, <3>7 DEF Placing
  <2> QED BY <1>1, <2>2, <2>7, <2>8 DEF Finding
<1> QED BY <1>3, <1>4

\* A step that leaves the table of names alone, and what of interning there is.
LEMMA RoomAside ==
  ASSUME RoomInv, NamesInv', UNCHANGED interned, \A o \in SelectorNames : memory'[o] = memory[o],
         ~(~Idle' /\ call'.op = "intern")
  PROVE  RoomInv'
<1>1. /\ SymbolCount' = SymbolCount /\ SymbolCount \in Nat
      /\ \A b : Key(b)' = Key(b) /\ Value(b)' = Value(b) /\ Occupation(b)' = Occupation(b)
  BY NamesSame, Constants DEF RoomInv, NamesInv
<1>2. TableInv'
  BY <1>1, TableStays DEF RoomInv
<1> QED BY <1>2 DEF RoomInv, FindingSound

LEMMA RoomEnd ==
  ASSUME RoomInv, NamesInv', Interned
  PROVE  RoomInv'
<1>1. /\ Idle' /\ memory' = memory /\ ~Idle /\ call.op = "intern" /\ call.stores = <<>>
      /\ interned' = interned \cup {<<call.subject, call.answer>>}
  BY OtherSteps DEF RoomInv, NamesInv, Interned, Returns
<1>2. PICK s, id : s = call.subject /\ id = call.answer
  OBVIOUS
<1>3. s \in Strings /\ Served(s, id)
  <2>1. Finding(s, id)
    BY <1>1, <1>2 DEF RoomInv, FindingSound
  <2>2. ~Dropping(s, id)
    BY <1>1 DEF Dropping
  <2>3. \A b : ~Placing(s, id, b)
    BY <1>1 DEF Placing
  <2> QED BY <2>1, <2>2, <2>3 DEF Finding
<1>4. /\ SymbolCount' = SymbolCount
      /\ \A b : Key(b)' = Key(b) /\ Value(b)' = Value(b) /\ Occupation(b)' = Occupation(b)
  BY <1>1, NamesSame
<1>5. \A t : Held(t)' = Held(t) /\ EndsOf(t)' = EndsOf(t)
  BY <1>4 DEF Held, EndsOf, Buckets, HASH_OCCUPIED
<1>6. \A t : EndOf(t)' = EndOf(t)
  BY <1>5 DEF EndOf, HomeOf, FirstEnd, Min
<1>7. Reaching' /\ IDsApart'
  BY <1>4, <1>5, <1>6 DEF RoomInv, TableInv, Reaching, IDsApart, Buckets, Short, HASH_OCCUPIED
<1>8. \A t, j : Served(t, j) => Served(t, j)'
  BY <1>4, <1>5 DEF Served, Short
<1>9. AllServed'
  <2>1. \A pair \in interned' : pair[1] \in Strings /\ Served(pair[1], pair[2])
    BY <1>1, <1>2, <1>3 DEF RoomInv, TableInv, AllServed
  <2> QED BY <1>8, <2>1 DEF AllServed
<1> QED BY <1>1, <1>7, <1>9 DEF RoomInv, TableInv, FindingSound

LEMMA RoomNext == ASSUME RoomInv, ImageStep PROVE RoomInv'
<1>0. /\ NamesInv' /\ Shape /\ CallSound
      /\ \A o : o \in SelectorNames \cup MethodNames => o \in DOMAIN memory
  BY NamesNext DEF RoomInv, NamesInv, Shape
<1>1. CASE Store /\ UNCHANGED <<interned, methodVars>>
  BY <1>1, RoomStore
<1>2. ASSUME NEW super, NewClass(super), UNCHANGED interned PROVE RoomInv'
  <2>1. Idle' /\ \A o \in DOMAIN memory : o # "superclass" => memory'[o] = memory[o]
    BY <1>0, <1>2, ClassBegins
  <2>2. \A o \in SelectorNames : memory'[o] = memory[o]
    BY <1>0, <2>1 DEF SelectorNames
  <2> QED BY <1>0, <1>2, <2>1, <2>2, RoomAside
<1>3. ASSUME NEW c, NEW sel, NEW method, InstallMethod(c, sel, method), UNCHANGED interned PROVE RoomInv'
  <2>1. memory' = memory /\ call'.op = "install"
    BY <1>0, <1>3, InstallBegins
  <2> QED BY <1>0, <1>3, <2>1, RoomAside
<1>4. ASSUME NEW site, NEW c, NEW sel, LookupMethodCached(site, c, sel), UNCHANGED interned PROVE RoomInv'
  <2>1. memory' = memory /\ call'.op = "lookup"
    BY <1>0, <1>4, LookupBegins
  <2> QED BY <1>0, <1>4, <2>1, RoomAside
<1>5. ASSUME NEW c, NEW sel, MessageSend(c, sel), UNCHANGED interned PROVE RoomInv'
  <2>1. memory' = memory /\ call'.op = "send"
    BY <1>0, <1>5, SendBegins
  <2> QED BY <1>0, <1>5, <2>1, RoomAside
<1>6. CASE MethodReturn /\ UNCHANGED interned
  <2>1. memory' = memory /\ call'.op = "return"
    BY <1>0, <1>6, ReturnBegins
  <2> QED BY <1>0, <1>6, <2>1, RoomAside
<1>7. CASE (MethodEnd \/ StopCall) /\ UNCHANGED interned
  <2>1. Idle' /\ memory' = memory
    BY <1>0, <1>7, OtherSteps
  <2> QED BY <1>0, <1>7, <2>1, RoomAside
<1>11. CASE Abandon
  BY <1>0, <1>11, Abandoning, RoomAside DEF Abandon
<1>8. CASE UNCHANGED <<memory, call, interned, methodVars>>
  <2>1. UNCHANGED <<memory, call, interned>>
    BY <1>8
  <2>2. /\ SymbolCount' = SymbolCount /\ SymbolCount \in Nat
        /\ \A b : Key(b)' = Key(b) /\ Value(b)' = Value(b) /\ Occupation(b)' = Occupation(b)
    BY <2>1, NamesSame, Constants DEF RoomInv, NamesInv
  <2>3. /\ TableInv' /\ \A s, id : Served(s, id) => Served(s, id)'
        /\ \A s, id, b : Vacant(s, id, b) => Vacant(s, id, b)'
    BY <2>1, <2>2, TableStays DEF RoomInv
  <2>4. \A s, id, b : Placing(s, id, b) => Placing(s, id, b)'
    BY <2>1, <2>2 DEF Placing, Uncounted, PutName, PutCount, PutKey, PutValue, PutOccupied, PutBucket, Put, Place,
       symbolHash
  <2>5. \A s, id : Dropping(s, id) => Dropping(s, id)'
    BY <2>1, <2>2 DEF Dropping, Uncounted, PutName, PutCount, Put
  <2>6. \A s, id : Finding(s, id) => Finding(s, id)'
    BY <2>1, <2>3, <2>4, <2>5 DEF Finding, Buckets
  <2> QED BY <1>0, <2>1, <2>3, <2>6 DEF RoomInv, FindingSound, Idle
<1>9. ASSUME NEW s \in Strings, Interning(s) PROVE RoomInv'
  BY <1>9, RoomBegin
<1>10. CASE Interned
  BY <1>0, <1>10, RoomEnd
<1> QED BY <1>1, <1>2, <1>3, <1>4, <1>5, <1>6, <1>7, <1>8, <1>9, <1>10, <1>11 DEF ImageStep, MethodCall

LEMMA IDsAreKept == ASSUME RoomInv PROVE UniqueWhileRoom
<1> SUFFICES ASSUME RoomInv, SymbolCount <= SYMBOL_HASH_SIZE, NEW pair \in interned, NEW other \in interned,
                    pair[1].chars = other[1].chars, ~WholeWords(pair[1].chars)
             PROVE  pair[2] = other[2]
  BY DEF UniqueWhileRoom
<1>1. Short(pair[1]) /\ Short(other[1]) /\ pair[1] \in Strings /\ other[1] \in Strings
  BY DEF Short, RoomInv, TableInv, AllServed
<1>2. PICK b \in Held(pair[1]) : Value(b) = pair[2]
  BY <1>1 DEF RoomInv, TableInv, AllServed, Served
<1>3. PICK c \in Held(other[1]) : Value(c) = other[2]
  BY <1>1 DEF RoomInv, TableInv, AllServed, Served
<1>4. c \in Held(pair[1])
  BY <1>3 DEF Held
<1>5. EndOf(pair[1]) = b /\ EndOf(pair[1]) = c
  BY <1>1, <1>2, <1>4 DEF RoomInv, TableInv, Reaching
<1> QED BY <1>2, <1>3, <1>5

\* A name that does not fill its last word gets one ID, for any strings and capacities and
\* whatever executions are stopped, while there are no more IDs than buckets
\* (01-symbol-table.lisp): until then an insertion finds a free bucket, and a search
\* reaches it.
THEOREM NamesKeepTheirIDs == RuntimeSpec => []UniqueWhileRoom
BY IDsAreKept, RoomInit, RuntimeSteps, RoomNext, PTL DEF RuntimeSpec

-----------------------------------------------------------------------------
(***************************************************************************)
(* Lookups: classes, selectors and dictionaries of any size.               *)
(***************************************************************************)
\* Functions whose value at a place comes from the value at the place above it.
Upward(N, V, step, up) == step \in [1..N -> [V -> V]] /\ \A c \in 1..N : up[c] \in 0..c-1
Follows(N, V, base, step, up, f) ==
  f \in [0..N -> V] /\ f[0] = base /\ \A c \in 1..N : f[c] = step[c][f[up[c]]]

LEMMA Recursion ==
  ASSUME NEW N \in Nat, NEW V, NEW base \in V, NEW step, NEW up, Upward(N, V, step, up)
  PROVE  \E f : Follows(N, V, base, step, up, f)
<1> USE DEF Upward, Follows
<1> DEFINE P(n, f) == f \in [0..n -> V] /\ f[0] = base /\ \A c \in 1..n : f[c] = step[c][f[up[c]]]
           missing == {n \in 0..N : ~\E f : P(n, f)}
<1>1. missing \in SUBSET Nat /\ N \in 0..N
  OBVIOUS
<1>2. SUFFICES ASSUME missing # {} PROVE FALSE
  BY <1>1
<1>3. PICK n \in missing : \A m \in missing : n <= m
  <2>1. Min(missing) \in missing /\ \A m \in missing : Min(missing) <= m
    <3> HIDE DEF missing
    <3> QED BY <1>1, <1>2, Least
  <2> HIDE DEF missing
  <2> QED BY <2>1
<1>4. n \in 0..N /\ ~\E f : P(n, f)
  OBVIOUS
<1>5. CASE n = 0
  <2> DEFINE f == [i \in 0..0 |-> base]
  <2>1. f \in [0..0 -> V] /\ f[0] = base
    OBVIOUS
  <2> HIDE DEF f
  <2>2. P(0, f)
    BY <2>1
  <2> QED BY <1>4, <1>5, <2>2
<1>6. CASE n # 0
  <2>0. n \in 1..N /\ n \in Nat /\ n - 1 \in 0..N
    BY <1>4, <1>6
  <2>1. n \in 1..N /\ n \in Nat /\ n - 1 \in 0..N /\ n - 1 \notin missing /\ up[n] \in 0..n-1
    <3>1. n - 1 \notin missing
      <4> HIDE DEF missing
      <4> QED BY <1>3, <2>0
    <3>2. up[n] \in 0..n-1
      BY <2>0
    <3> HIDE DEF missing
    <3> QED BY <2>0, <3>1, <3>2
  <2>2. PICK f : P(n - 1, f)
    BY <2>1
  <2> DEFINE g == [i \in 0..n |-> IF i = n THEN step[n][f[up[n]]] ELSE f[i]]
  <2>3. f[up[n]] \in V /\ step[n][f[up[n]]] \in V
    BY <2>1, <2>2
  <2>4. g \in [0..n -> V] /\ g[0] = base /\ g[n] = step[n][f[up[n]]] /\ \A i \in 0..n-1 : g[i] = f[i]
    BY <2>1, <2>2, <2>3
  <2> HIDE DEF g
  <2>5. \A c \in 1..n : g[c] = step[c][g[up[c]]]
    <3>1. TAKE c \in 1..n
    <3>2. CASE c = n
      BY <2>1, <2>4, <3>2
    <3>3. CASE c # n
      <4>1. c \in 1..n-1 /\ c \in 0..n-1 /\ c \in 1..N
        BY <2>1, <3>3
      <4>2. up[c] \in 0..c-1
        BY <4>1
      <4>3. up[c] \in 0..n-1
        BY <2>1, <4>1, <4>2
      <4> QED BY <2>2, <2>4, <4>1, <4>3
    <3> QED BY <3>2, <3>3
  <2>6. P(n, g)
    BY <2>4, <2>5
  <2> QED BY <1>4, <2>6
<1> QED BY <1>5, <1>6

-----------------------------------------------------------------------------
(***************************************************************************)
(* The dictionaries of classes.                                            *)
(***************************************************************************)
Places == 0..METHOD_DICT_HASH_SIZE-1
KeyOf(c, b) == Bucket(DictionaryTable(c), b, HASH_KEY_OFFSET)
MethodAt(c, b) == Bucket(DictionaryTable(c), b, HASH_VALUE_OFFSET)
InUse(c, b) == Bucket(DictionaryTable(c), b, HASH_OCCUPIED_OFFSET)

PutSelector(c, b, sel) == PutBucket(DictionaryTable(c), b, HASH_KEY_OFFSET, sel)
PutMethod(c, b, method) == PutBucket(DictionaryTable(c), b, HASH_VALUE_OFFSET, method)
PutInUse(c, b) == PutBucket(DictionaryTable(c), b, HASH_OCCUPIED_OFFSET, HASH_OCCUPIED)
PutDictionary(c) == Put("methods", c, c)

\* Where a search for the selector may end, where it ends, and where the selector is.
EndsFor(c, sel) == Ends(DictionaryTable(c), METHOD_DICT_HASH_SIZE, {sel})
EndFor(c, sel) == FirstEnd(METHOD_DICT_HASH_SIZE, HomeOfSelector(sel), EndsFor(c, sel))
Has(c, sel) == {b \in Places : InUse(c, b) = HASH_OCCUPIED /\ KeyOf(c, b) = sel}

AllClasses == 1..MaxClasses

ClassTypes ==
  /\ classes \in 0..MaxClasses
  /\ \A c \in AllClasses : Super(c) \in 0..c-1 /\ Dictionary(c) \in {NULL, c}
  /\ DOMAIN possible = AllClasses /\ \A c \in AllClasses : DOMAIN possible[c] = Selectors

\* A search for a selector that is in a dictionary ends there, wherever searches begin
\* and other selectors are.
Probing ==
  \A c \in AllClasses :
    /\ \A b \in Places : InUse(c, b) \in {HASH_EMPTY, HASH_OCCUPIED}
    /\ Dictionary(c) = NULL => \A b \in Places : InUse(c, b) = HASH_EMPTY
    /\ \A sel \in Nat : \A b \in Has(c, sel) : EndFor(c, sel) = b

\* What a dictionary has is what its class may have.
Offered ==
  \A c \in AllClasses, sel \in Selectors :
    /\ \A b \in Has(c, sel) : MethodAt(c, b) \in possible[c][sel]
    /\ Has(c, sel) = {} => NULL \in possible[c][sel]

\* How far an installation is: a new selector is found from the last store on.
Adding(c, sel, method) ==
  \/ /\ call.stores = <<>> /\ Has(c, sel) # {}
     /\ \A b \in Has(c, sel) : MethodAt(c, b) = method
  \/ \E b \in Has(c, sel) :
       \/ call.stores = <<PutDictionary(c), PutMethod(c, b, method)>>
       \/ call.stores = <<PutMethod(c, b, method)>> /\ Dictionary(c) = c
  \/ \E b \in Places :
       /\ InUse(c, b) = HASH_EMPTY /\ EndFor(c, sel) = b
       /\ \/ call.stores = <<PutDictionary(c), PutSelector(c, b, sel), PutMethod(c, b, method), PutInUse(c, b)>>
          \/ /\ Dictionary(c) = c
             /\ \/ call.stores = <<PutSelector(c, b, sel), PutMethod(c, b, method), PutInUse(c, b)>>
                \/ call.stores = <<PutMethod(c, b, method), PutInUse(c, b)>> /\ KeyOf(c, b) = sel
                \/ /\ call.stores = <<PutInUse(c, b)>>
                   /\ KeyOf(c, b) = sel /\ MethodAt(c, b) = method

Installs(c, sel, taken, method) ==
  /\ c \in AllClasses /\ sel \in Nat
  /\ taken => Adding(c, sel, method) /\ (sel \in Selectors => method \in possible[c][sel])
  /\ ~taken => call.stores \in {<<>>, <<PutDictionary(c)>>}

InstallSound ==
  ~Idle /\ call.op = "install" =>
    /\ call.subject = <<call.subject[1], call.subject[2], call.subject[3]>>
    /\ call.subject[3] \in BOOLEAN
    /\ Installs(call.subject[1], call.subject[2], call.subject[3], call.answer)

DictInv == NamesInv /\ ClassTypes /\ Probing /\ Offered /\ InstallSound

-----------------------------------------------------------------------------
LEMMA Sizes ==
  /\ METHOD_DICT_HASH_SIZE \in Nat /\ METHOD_DICT_HASH_SIZE > 0 /\ MaxClasses \in Nat
  /\ Selectors \subseteq Nat
  /\ \A sel \in Nat : HomeOfSelector(sel) \in 0..METHOD_DICT_HASH_SIZE-1
<1>1. HASH_MULTIPLIER \in Nat
  BY MethodsAssumption
<1>2. METHOD_DICT_HASH_SIZE \in Nat /\ METHOD_DICT_HASH_SIZE > 0 /\ MaxClasses \in Nat /\ Selectors \subseteq Nat
  BY MethodsAssumption
<1>3. \A sel \in Nat : HomeOfSelector(sel) \in 0..METHOD_DICT_HASH_SIZE-1
  <2>1. TAKE sel \in Nat
  <2>2. PICK product : product = sel * HASH_MULTIPLIER
    OBVIOUS
  <2>3. product \in Nat
    BY <1>1, <2>2
  <2> QED BY <1>2, <2>2, <2>3 DEF HomeOfSelector
<1> QED BY <1>2, <1>3

LEMMA DictWords ==
  ASSUME Shape
  PROVE  /\ "dictionaries" \in DOMAIN memory /\ "methods" \in DOMAIN memory /\ "superclass" \in DOMAIN memory
         /\ \A c \in AllClasses : c \in DOMAIN memory["methods"] /\ c \in DOMAIN memory["superclass"]
         /\ \A c \in AllClasses, b \in Places, k \in 0..2 :
              c * METHOD_DICT_HASH_SIZE * 3 + b * 3 + k \in DOMAIN memory["dictionaries"]
         /\ \A c, d \in AllClasses, b, e \in Places, k, j \in 0..2 :
              c * METHOD_DICT_HASH_SIZE * 3 + b * 3 + k = d * METHOD_DICT_HASH_SIZE * 3 + e * 3 + j =>
                c = d /\ b = e /\ k = j
<1>1. METHOD_DICT_HASH_SIZE \in Nat /\ METHOD_DICT_HASH_SIZE > 0 /\ MaxClasses \in Nat
  BY Sizes
<1>2. /\ "dictionaries" \in DOMAIN memory /\ "methods" \in DOMAIN memory /\ "superclass" \in DOMAIN memory
      /\ DOMAIN memory["dictionaries"] = 0..(MaxClasses + 1) * METHOD_DICT_HASH_SIZE * 3 - 1
      /\ \A c \in AllClasses : c \in DOMAIN memory["methods"] /\ c \in DOMAIN memory["superclass"]
  BY <1>1 DEF Shape, MethodNames, AllClasses
<1> DEFINE rows(n) == n * METHOD_DICT_HASH_SIZE
<1>3. \A c, d \in Nat : rows(c) \in Nat /\ (c < d => rows(c) + METHOD_DICT_HASH_SIZE <= rows(d))
  <2>1. TAKE c, d \in Nat
  <2>2. rows(c) \in Nat /\ rows(d) \in Nat
    BY <1>1
  <2>3. ASSUME c < d PROVE rows(c) + METHOD_DICT_HASH_SIZE <= rows(d)
    <3>1. PICK n \in Nat : d = c + 1 + n
      <4>1. d - c - 1 \in Nat /\ d = c + 1 + (d - c - 1)
        BY <2>3
      <4> QED BY <4>1
    <3>2. rows(d) = rows(c) + METHOD_DICT_HASH_SIZE + n * METHOD_DICT_HASH_SIZE
      BY <1>1, <3>1
    <3>3. n * METHOD_DICT_HASH_SIZE \in Nat
      BY <1>1
    <3> HIDE DEF rows
    <3> QED BY <1>1, <2>2, <3>2, <3>3
  <2> QED BY <2>2, <2>3
<1>4. AllClasses \subseteq Nat /\ \A c \in AllClasses : c < MaxClasses + 1
  BY <1>1 DEF AllClasses
<1>5. MaxClasses + 1 \in Nat /\ DOMAIN memory["dictionaries"] = 0..rows(MaxClasses + 1) * 3 - 1
  BY <1>1, <1>2
<1>6. \A c \in AllClasses, b \in Places, k \in 0..2 : rows(c) * 3 + b * 3 + k \in DOMAIN memory["dictionaries"]
  <2>1. TAKE c \in AllClasses, b \in Places, k \in 0..2
  <2>2. rows(c) \in Nat /\ rows(MaxClasses + 1) \in Nat /\ rows(c) + METHOD_DICT_HASH_SIZE <= rows(MaxClasses + 1)
    BY <1>3, <1>4, <1>5
  <2> HIDE DEF rows
  <2> QED BY <1>1, <1>5, <2>2 DEF Places
<1>7. \A c, d \in AllClasses, b, e \in Places, k, j \in 0..2 :
        rows(c) * 3 + b * 3 + k = rows(d) * 3 + e * 3 + j => c = d /\ b = e /\ k = j
  <2>1. TAKE c, d \in AllClasses, b, e \in Places, k, j \in 0..2
  <2>2. HAVE rows(c) * 3 + b * 3 + k = rows(d) * 3 + e * 3 + j
  <2>3. /\ rows(c) \in Nat /\ rows(d) \in Nat /\ c \in Nat /\ d \in Nat
        /\ c < d => rows(c) + METHOD_DICT_HASH_SIZE <= rows(d)
        /\ d < c => rows(d) + METHOD_DICT_HASH_SIZE <= rows(c)
    BY <1>3, <1>4
  <2> HIDE DEF rows
  <2>4. ~(c < d) /\ ~(d < c)
    BY <1>1, <2>2, <2>3 DEF Places
  <2>5. c = d
    BY <2>3, <2>4
  <2> QED BY <1>1, <2>2, <2>3, <2>5 DEF Places
<1> QED BY <1>2, <1>6, <1>7

LEMMA DictBuckets ==
  ASSUME NEW c \in AllClasses, NEW b \in Places
  PROVE  /\ Place(DictionaryTable(c), b, HASH_KEY_OFFSET) = c * METHOD_DICT_HASH_SIZE * 3 + b * 3 + 0
         /\ Place(DictionaryTable(c), b, HASH_VALUE_OFFSET) = c * METHOD_DICT_HASH_SIZE * 3 + b * 3 + 1
         /\ Place(DictionaryTable(c), b, HASH_OCCUPIED_OFFSET) = c * METHOD_DICT_HASH_SIZE * 3 + b * 3 + 2
         /\ DictionaryTable(c)[1] = "dictionaries"
  BY DEF Place, DictionaryTable, HASH_BUCKET_SIZE, HASH_KEY_OFFSET, HASH_VALUE_OFFSET, HASH_OCCUPIED_OFFSET

LEMMA DictPuts ==
  ASSUME NEW c \in AllClasses, NEW b \in Places, NEW value
  PROVE  /\ PutSelector(c, b, value).object = "dictionaries"
         /\ PutSelector(c, b, value).place = c * METHOD_DICT_HASH_SIZE * 3 + b * 3 + 0
         /\ PutSelector(c, b, value).value = value
         /\ PutMethod(c, b, value).object = "dictionaries"
         /\ PutMethod(c, b, value).place = c * METHOD_DICT_HASH_SIZE * 3 + b * 3 + 1
         /\ PutMethod(c, b, value).value = value
         /\ PutInUse(c, b).object = "dictionaries"
         /\ PutInUse(c, b).place = c * METHOD_DICT_HASH_SIZE * 3 + b * 3 + 2
         /\ PutInUse(c, b).value = HASH_OCCUPIED
  BY DictBuckets, Puts DEF PutSelector, PutMethod, PutInUse, PutBucket

LEMMA HasIsEnd ==
  ASSUME NEW c, NEW sel
  PROVE  Has(c, sel) \subseteq EndsFor(c, sel) /\ EndsFor(c, sel) \in SUBSET Places
         /\ \A b \in EndsFor(c, sel) : InUse(c, b) # HASH_OCCUPIED \/ b \in Has(c, sel)
  BY DEF Has, EndsFor, Ends, Places, InUse, KeyOf

LEMMA EndIsEnd ==
  ASSUME NEW c, NEW sel \in Nat, EndsFor(c, sel) # {}
  PROVE  EndFor(c, sel) \in EndsFor(c, sel)
  BY HasIsEnd, Sizes, SearchEnds DEF EndFor, Places

\* A search that ends at a free bucket shows that the selector is nowhere.
LEMMA FreeEnd ==
  ASSUME Probing, NEW c \in AllClasses, NEW sel \in Nat, InUse(c, EndFor(c, sel)) # HASH_OCCUPIED
  PROVE  Has(c, sel) = {}
  BY DEF Probing, Has

LEMMA DictSame ==
  ASSUME memory'["dictionaries"] = memory["dictionaries"]
  PROVE  /\ \A c, b : InUse(c, b)' = InUse(c, b) /\ KeyOf(c, b)' = KeyOf(c, b)
                     /\ MethodAt(c, b)' = MethodAt(c, b)
         /\ \A c, sel : Has(c, sel)' = Has(c, sel) /\ EndFor(c, sel)' = EndFor(c, sel)
<1>1. \A c, b, k : Bucket(DictionaryTable(c), b, k)' = Bucket(DictionaryTable(c), b, k)
  BY DEF Bucket, DictionaryTable
<1>2. \A c, b : InUse(c, b)' = InUse(c, b) /\ KeyOf(c, b)' = KeyOf(c, b) /\ MethodAt(c, b)' = MethodAt(c, b)
  BY <1>1 DEF InUse, KeyOf, MethodAt, HASH_KEY_OFFSET, HASH_VALUE_OFFSET, HASH_OCCUPIED_OFFSET
<1>3. \A c, sel : Has(c, sel)' = Has(c, sel)
  BY <1>2 DEF Has, Places, HASH_OCCUPIED
<1>4. \A c, sel : EndsFor(c, sel)' = EndsFor(c, sel)
  BY <1>1 DEF EndsFor, Ends, HASH_KEY_OFFSET, HASH_OCCUPIED_OFFSET, HASH_OCCUPIED, DictionaryTable
<1>5. \A c, sel : EndFor(c, sel)' = EndFor(c, sel)
  BY <1>4 DEF EndFor, HomeOfSelector, FirstEnd, Min
<1> QED BY <1>2, <1>3, <1>5

LEMMA DictInit == ASSUME RuntimeInit PROVE DictInv
<1>1. NamesInv
  BY NamesInit
<1>2. Shape
  BY <1>1 DEF NamesInv
<1>3. /\ memory["superclass"] = Words(MaxClasses + 1) /\ memory["methods"] = Words(MaxClasses + 1)
      /\ memory["dictionaries"] = Words((MaxClasses + 1) * METHOD_DICT_HASH_SIZE * 3)
  <2>1. \A o \in {"superclass", "methods", "dictionaries"} :
          o \in DOMAIN MethodObjects /\ o \notin DOMAIN SelectorObjects
    BY DEF MethodObjects, SelectorObjects
  <2>2. \A o \in {"superclass", "methods", "dictionaries"} : memory[o] = MethodObjects[o]
    BY <2>1 DEF RuntimeInit, Blank
  <2>3. MethodObjects["superclass"] = Words(MaxClasses + 1) /\ MethodObjects["methods"] = Words(MaxClasses + 1)
    BY DEF MethodObjects
  <2>4. MethodObjects["dictionaries"] = Words((MaxClasses + 1) * METHOD_DICT_HASH_SIZE * 3)
    BY DEF MethodObjects, HASH_BUCKET_SIZE
  <2> HIDE DEF Words
  <2> QED BY <2>2, <2>3, <2>4
<1>4. \A o \in {"superclass", "methods", "dictionaries"} : \A i \in DOMAIN memory[o] : memory[o][i] = NULL
  <2>1. \A n : \A i \in DOMAIN Words(n) : Words(n)[i] = NULL
    BY DEF Words
  <2>2. \A o \in {"superclass", "methods", "dictionaries"} : \E n : memory[o] = Words(n)
    BY <1>3
  <2> HIDE DEF Words
  <2> QED BY <2>1, <2>2, Zenon
<1>5. ClassTypes
  <2>1. \A c \in AllClasses : Super(c) = NULL /\ Dictionary(c) = NULL
    BY <1>2, <1>4, DictWords DEF Super, Dictionary
  <2>2. \A c \in AllClasses : 0 \in 0..c-1
    BY Sizes DEF AllClasses
  <2>3. classes \in 0..MaxClasses
    BY Sizes DEF RuntimeInit, MethodInit
  <2>4. DOMAIN possible = AllClasses /\ \A c \in AllClasses : DOMAIN possible[c] = Selectors
    BY DEF RuntimeInit, MethodInit, AllClasses
  <2> QED BY <2>1, <2>2, <2>3, <2>4 DEF ClassTypes, NULL
<1>6. \A c \in AllClasses : \A b \in Places : InUse(c, b) = HASH_EMPTY
  <2>1. TAKE c \in AllClasses
  <2>2. TAKE b \in Places
  <2>3. c * METHOD_DICT_HASH_SIZE * 3 + b * 3 + 2 \in DOMAIN memory["dictionaries"]
    BY <1>2, DictWords
  <2>4. memory["dictionaries"][Place(DictionaryTable(c), b, HASH_OCCUPIED_OFFSET)] = NULL
    BY <1>4, <2>3, DictBuckets
  <2> QED BY <2>4, DictBuckets DEF InUse, Bucket, NULL, HASH_EMPTY
<1>7. \A c \in AllClasses : \A sel : Has(c, sel) = {}
  BY <1>6 DEF Has, HASH_EMPTY, HASH_OCCUPIED
<1>8. Probing
  BY <1>6, <1>7 DEF Probing
<1>9. Offered
  BY <1>7 DEF Offered, RuntimeInit, MethodInit, AllClasses
<1>10. InstallSound
  BY DEF InstallSound, RuntimeInit, Idle
<1> QED BY <1>1, <1>5, <1>8, <1>9, <1>10 DEF DictInv

-----------------------------------------------------------------------------
(***************************************************************************)
(* What stores of an installation do.                                      *)
(***************************************************************************)
LEMMA DictEffect ==
  ASSUME Shape, CallSound, Store, NEW c \in AllClasses, NEW b \in Places, NEW k \in 0..2, NEW value,
         Head(call.stores).object = "dictionaries", Head(call.stores).value = value,
         Head(call.stores).place = c * METHOD_DICT_HASH_SIZE * 3 + b * 3 + k
  PROVE  /\ \A d \in AllClasses : Super(d)' = Super(d) /\ Dictionary(d)' = Dictionary(d)
         /\ \A d \in AllClasses, e \in Places :
              /\ KeyOf(d, e)' = IF d = c /\ e = b /\ k = 0 THEN value ELSE KeyOf(d, e)
              /\ MethodAt(d, e)' = IF d = c /\ e = b /\ k = 1 THEN value ELSE MethodAt(d, e)
              /\ InUse(d, e)' = IF d = c /\ e = b /\ k = 2 THEN value ELSE InUse(d, e)
<1> DEFINE put == Head(call.stores)
<1>1. /\ \A o \in DOMAIN memory : \A i \in DOMAIN memory[o] :
           memory'[o][i] = IF put.object = o /\ put.place = i THEN put.value ELSE memory[o][i]
      /\ \A o \in DOMAIN memory : o # put.object => memory'[o] = memory[o]
  BY Storing
<1>2. put.object = "dictionaries" /\ put.place = c * METHOD_DICT_HASH_SIZE * 3 + b * 3 + k /\ put.value = value
  OBVIOUS
<1> HIDE DEF put
<1>3. memory'["superclass"] = memory["superclass"] /\ memory'["methods"] = memory["methods"]
  BY <1>1, <1>2, DictWords
<1> DEFINE word(d, e, j) == memory["dictionaries"][d * METHOD_DICT_HASH_SIZE * 3 + e * 3 + j]
           later(d, e, j) == memory'["dictionaries"][d * METHOD_DICT_HASH_SIZE * 3 + e * 3 + j]
<1>4. \A d \in AllClasses, e \in Places, j \in 0..2 :
        later(d, e, j) = IF d = c /\ e = b /\ k = j THEN value ELSE word(d, e, j)
  <2>1. TAKE d \in AllClasses, e \in Places, j \in 0..2
  <2> DEFINE i == d * METHOD_DICT_HASH_SIZE * 3 + e * 3 + j
  <2>2. "dictionaries" \in DOMAIN memory /\ i \in DOMAIN memory["dictionaries"]
    BY DictWords
  <2>3. put.place = i <=> d = c /\ e = b /\ k = j
    <3>1. put.place = i => d = c /\ e = b /\ k = j
      BY <1>2, DictWords
    <3> QED BY <1>2, <3>1
  <2> HIDE DEF i
  <2>4. memory'["dictionaries"][i] = IF put.place = i THEN put.value ELSE memory["dictionaries"][i]
    BY <1>1, <1>2, <2>2
  <2> QED BY <1>2, <2>3, <2>4 DEF i
<1>5. \A d \in AllClasses, e \in Places :
        /\ KeyOf(d, e) = word(d, e, 0) /\ KeyOf(d, e)' = later(d, e, 0)
        /\ MethodAt(d, e) = word(d, e, 1) /\ MethodAt(d, e)' = later(d, e, 1)
        /\ InUse(d, e) = word(d, e, 2) /\ InUse(d, e)' = later(d, e, 2)
  <2>1. TAKE d \in AllClasses, e \in Places
  <2> USE DictBuckets DEF Bucket, DictionaryTable
  <2>2. KeyOf(d, e) = word(d, e, 0) /\ KeyOf(d, e)' = later(d, e, 0)
    BY DEF KeyOf, HASH_KEY_OFFSET, Place
  <2>3. MethodAt(d, e) = word(d, e, 1) /\ MethodAt(d, e)' = later(d, e, 1)
    BY DEF MethodAt, HASH_VALUE_OFFSET, Place
  <2>4. InUse(d, e) = word(d, e, 2) /\ InUse(d, e)' = later(d, e, 2)
    BY DEF InUse, HASH_OCCUPIED_OFFSET, Place
  <2> QED BY <2>2, <2>3, <2>4
<1> HIDE DEF word, later
<1>6. \A d \in AllClasses, e \in Places :
        /\ KeyOf(d, e)' = IF d = c /\ e = b /\ k = 0 THEN value ELSE KeyOf(d, e)
        /\ MethodAt(d, e)' = IF d = c /\ e = b /\ k = 1 THEN value ELSE MethodAt(d, e)
        /\ InUse(d, e)' = IF d = c /\ e = b /\ k = 2 THEN value ELSE InUse(d, e)
  <2>1. TAKE d \in AllClasses, e \in Places
  <2>2. 0 \in 0..2 /\ 1 \in 0..2 /\ 2 \in 0..2
    OBVIOUS
  <2> QED BY <1>4, <1>5, <2>2
<1> QED BY <1>3, <1>6 DEF Super, Dictionary

LEMMA MethodsEffect ==
  ASSUME Shape, CallSound, Store, NEW c \in AllClasses, Head(call.stores) = PutDictionary(c)
  PROVE  /\ \A d \in AllClasses : Super(d)' = Super(d)
         /\ \A d \in AllClasses : Dictionary(d)' = IF d = c THEN c ELSE Dictionary(d)
         /\ memory'["dictionaries"] = memory["dictionaries"]
<1> DEFINE put == Head(call.stores)
<1>1. /\ \A o \in DOMAIN memory : \A i \in DOMAIN memory[o] :
           memory'[o][i] = IF put.object = o /\ put.place = i THEN put.value ELSE memory[o][i]
      /\ \A o \in DOMAIN memory : o # put.object => memory'[o] = memory[o]
  BY Storing
<1>2. put.object = "methods" /\ put.place = c /\ put.value = c
  BY Puts DEF PutDictionary
<1> HIDE DEF put
<1>3. memory'["superclass"] = memory["superclass"] /\ memory'["dictionaries"] = memory["dictionaries"]
  BY <1>1, <1>2, DictWords
<1>4. \A d \in AllClasses : memory'["methods"][d] = IF d = c THEN c ELSE memory["methods"][d]
  BY <1>1, <1>2, DictWords
<1> QED BY <1>3, <1>4 DEF Super, Dictionary

\* Keys that count stay: so do searches.
LEMMA KeysSame ==
  ASSUME NEW c \in AllClasses, NEW sel,
         \A b \in Places : InUse(c, b)' = InUse(c, b),
         \A b \in Places : InUse(c, b) = HASH_OCCUPIED => KeyOf(c, b)' = KeyOf(c, b)
  PROVE  Has(c, sel)' = Has(c, sel) /\ EndsFor(c, sel)' = EndsFor(c, sel) /\ EndFor(c, sel)' = EndFor(c, sel)
<1>1. Has(c, sel)' = Has(c, sel)
  BY DEF Has, Places, HASH_OCCUPIED
<1>2. EndsFor(c, sel)' = EndsFor(c, sel)
  <2>1. EndsFor(c, sel) = {b \in Places : InUse(c, b) = HASH_OCCUPIED => KeyOf(c, b) = sel}
    BY DEF EndsFor, Ends, Places, InUse, KeyOf
  <2>2. EndsFor(c, sel)' = {b \in Places : InUse(c, b)' = HASH_OCCUPIED => KeyOf(c, b)' = sel}
    BY DEF EndsFor, Ends, Places, InUse, KeyOf, HASH_OCCUPIED, HASH_KEY_OFFSET, HASH_OCCUPIED_OFFSET
  <2> QED BY <2>1, <2>2
<1>3. EndFor(c, sel)' = EndFor(c, sel)
  BY <1>2 DEF EndFor, HomeOfSelector, FirstEnd, Min
<1> QED BY <1>1, <1>2, <1>3

\* What does not concern what counts in a dictionary changes nothing.
LEMMA DictKept ==
  ASSUME DictInv, UNCHANGED <<classes, possible>>,
         \A d \in AllClasses : Super(d)' = Super(d) /\ Dictionary(d)' \in {Dictionary(d), d},
         \A d \in AllClasses, e \in Places :
           InUse(d, e)' = InUse(d, e) /\ (InUse(d, e) = HASH_OCCUPIED => KeyOf(d, e)' = KeyOf(d, e)),
         \A d \in AllClasses, s \in Selectors : \A e \in Has(d, s) : MethodAt(d, e)' \in possible[d][s]
  PROVE  /\ ClassTypes' /\ Probing' /\ Offered'
         /\ \A d \in AllClasses : \A s : Has(d, s)' = Has(d, s) /\ EndFor(d, s)' = EndFor(d, s)
<1>1. \A d \in AllClasses : \A s : Has(d, s)' = Has(d, s) /\ EndFor(d, s)' = EndFor(d, s)
  BY KeysSame
<1>2. ClassTypes'
  <2>1. \A d \in AllClasses : Dictionary(d) \in {NULL, d}
    BY DEF DictInv, ClassTypes
  <2>2. \A d \in AllClasses : Super(d)' \in 0..d-1 /\ Dictionary(d)' \in {NULL, d}
    BY <2>1 DEF DictInv, ClassTypes
  <2>3. /\ classes' \in 0..MaxClasses
        /\ DOMAIN possible' = AllClasses /\ \A d \in AllClasses : DOMAIN possible'[d] = Selectors
    BY DEF DictInv, ClassTypes
  <2> QED BY <2>2, <2>3 DEF ClassTypes, AllClasses, NULL
<1>3. Probing'
  <2> SUFFICES ASSUME NEW d \in AllClasses
               PROVE  /\ \A e \in Places : InUse(d, e)' \in {HASH_EMPTY, HASH_OCCUPIED}
                      /\ Dictionary(d)' = NULL => \A e \in Places : InUse(d, e)' = HASH_EMPTY
                      /\ \A s \in Nat : \A e \in Has(d, s)' : EndFor(d, s)' = e
    BY DEF Probing, AllClasses, Places, NULL, HASH_EMPTY, HASH_OCCUPIED
  <2>1. d # NULL
    BY Sizes DEF AllClasses, NULL
  <2>2. Dictionary(d)' = NULL => Dictionary(d) = NULL
    BY <2>1
  <2> QED BY <1>1, <2>2 DEF DictInv, Probing
<1>4. Offered'
  <2> SUFFICES ASSUME NEW d \in AllClasses, NEW s \in Selectors
               PROVE  /\ \A e \in Has(d, s)' : MethodAt(d, e)' \in possible'[d][s]
                      /\ Has(d, s)' = {} => NULL \in possible'[d][s]
    BY DEF Offered, AllClasses, NULL
  <2> QED BY <1>1 DEF DictInv, Offered
<1> QED BY <1>1, <1>2, <1>3, <1>4

\* The store that makes a bucket count, at the end of the search for its selector.
LEMMA DictUse ==
  ASSUME DictInv, UNCHANGED <<classes, possible>>, NEW c \in AllClasses, NEW b \in Places, NEW sel \in Nat,
         InUse(c, b) = HASH_EMPTY, EndFor(c, sel) = b, KeyOf(c, b) = sel, Dictionary(c) = c,
         sel \in Selectors => MethodAt(c, b) \in possible[c][sel],
         \A d \in AllClasses : Super(d)' = Super(d) /\ Dictionary(d)' = Dictionary(d),
         \A d \in AllClasses, e \in Places :
           /\ KeyOf(d, e)' = KeyOf(d, e) /\ MethodAt(d, e)' = MethodAt(d, e)
           /\ InUse(d, e)' = IF d = c /\ e = b THEN HASH_OCCUPIED ELSE InUse(d, e)
  PROVE  ClassTypes' /\ Probing' /\ Offered' /\ Has(c, sel)' = {b}
<1>1. Has(c, sel) = {}
  BY FreeEnd DEF DictInv, HASH_EMPTY, HASH_OCCUPIED
<1>2. \A d \in AllClasses \ {c} : \A s : Has(d, s)' = Has(d, s) /\ EndFor(d, s)' = EndFor(d, s)
  BY KeysSame
<1>3. \A s : /\ Has(c, s) = {e \in Places : InUse(c, e) = HASH_OCCUPIED /\ KeyOf(c, e) = s}
             /\ Has(c, s)' = {e \in Places : InUse(c, e)' = HASH_OCCUPIED /\ KeyOf(c, e)' = s}
  BY DEF Has, Places, HASH_OCCUPIED
<1>4. Has(c, sel)' = {b} /\ \A s : s # sel => Has(c, s)' = Has(c, s)
  <2>1. InUse(c, b)' = HASH_OCCUPIED /\ KeyOf(c, b)' = sel /\ InUse(c, b) # HASH_OCCUPIED
    BY DEF HASH_EMPTY, HASH_OCCUPIED
  <2>2. \A e \in Places \ {b} : InUse(c, e)' = InUse(c, e) /\ KeyOf(c, e)' = KeyOf(c, e)
    OBVIOUS
  <2>3. Has(c, sel)' = {b}
    BY <1>1, <1>3, <2>1, <2>2
  <2>4. \A s : s # sel => Has(c, s)' = Has(c, s)
    BY <1>3, <2>1, <2>2
  <2> QED BY <2>3, <2>4
<1>5. \A s : /\ EndsFor(c, s) = {e \in Places : InUse(c, e) = HASH_OCCUPIED => KeyOf(c, e) = s}
             /\ EndsFor(c, s)' = {e \in Places : InUse(c, e)' = HASH_OCCUPIED => KeyOf(c, e)' = s}
  BY DEF EndsFor, Ends, Places, InUse, KeyOf, HASH_OCCUPIED, HASH_KEY_OFFSET, HASH_OCCUPIED_OFFSET
<1>6. EndsFor(c, sel)' = EndsFor(c, sel) /\ \A s : s # sel => EndsFor(c, s)' = EndsFor(c, s) \ {b}
  BY <1>5 DEF HASH_EMPTY, HASH_OCCUPIED
<1>7. \A s : EndFor(c, s)' = FirstEnd(METHOD_DICT_HASH_SIZE, HomeOfSelector(s), EndsFor(c, s)')
  BY DEF EndFor, HomeOfSelector, FirstEnd, Min
<1>8. EndFor(c, sel)' = b
  BY <1>6, <1>7 DEF EndFor
<1>9. \A s \in Nat : \A e \in Has(c, s)' : EndFor(c, s)' = e
  <2>1. TAKE s \in Nat
  <2>2. TAKE e \in Has(c, s)'
  <2>3. CASE s = sel
    BY <1>4, <1>8, <2>2, <2>3
  <2>4. CASE s # sel
    <3>1. e \in Has(c, s)
      BY <1>4, <2>4
    <3>2. EndFor(c, s) = e
      BY <3>1 DEF DictInv, Probing
    <3> DEFINE fewer == EndsFor(c, s) \ {b}
    <3>3. /\ EndsFor(c, s) \in SUBSET (0..METHOD_DICT_HASH_SIZE-1) /\ e \in EndsFor(c, s)
          /\ fewer \in SUBSET EndsFor(c, s) /\ e # b
      BY <3>1, HasIsEnd DEF Places, Has, HASH_EMPTY, HASH_OCCUPIED
    <3>4. EndsFor(c, s)' = fewer /\ e \in fewer
      BY <1>6, <2>4, <3>3
    <3> HIDE DEF fewer
    <3>5. FirstEnd(METHOD_DICT_HASH_SIZE, HomeOfSelector(s), EndsFor(c, s)) = e
      BY <3>2 DEF EndFor
    <3>6. FirstEnd(METHOD_DICT_HASH_SIZE, HomeOfSelector(s), fewer) = e
      BY <3>3, <3>4, <3>5, FirstEndStays, Sizes
    <3> QED BY <1>7, <3>4, <3>6
  <2> QED BY <2>3, <2>4
<1>10. ClassTypes'
  BY DEF DictInv, ClassTypes, AllClasses, NULL
<1>11. Probing'
  <2> SUFFICES ASSUME NEW d \in AllClasses
               PROVE  /\ \A e \in Places : InUse(d, e)' \in {HASH_EMPTY, HASH_OCCUPIED}
                      /\ Dictionary(d)' = NULL => \A e \in Places : InUse(d, e)' = HASH_EMPTY
                      /\ \A s \in Nat : \A e \in Has(d, s)' : EndFor(d, s)' = e
    BY DEF Probing, AllClasses, Places, NULL, HASH_EMPTY, HASH_OCCUPIED
  <2>1. c # NULL
    BY Sizes DEF AllClasses, NULL
  <2>2. CASE d = c
    BY <1>9, <2>1, <2>2 DEF DictInv, Probing
  <2>3. CASE d # c
    BY <1>2, <2>3 DEF DictInv, Probing
  <2> QED BY <2>2, <2>3
<1>12. Offered'
  <2> SUFFICES ASSUME NEW d \in AllClasses, NEW s \in Selectors
               PROVE  /\ \A e \in Has(d, s)' : MethodAt(d, e)' \in possible'[d][s]
                      /\ Has(d, s)' = {} => NULL \in possible'[d][s]
    BY DEF Offered, AllClasses, NULL
  <2>1. \A e \in Has(d, s) : e \in Places
    BY DEF Has
  <2>2. CASE d = c /\ s = sel
    BY <1>4, <2>2
  <2>3. CASE ~(d = c /\ s = sel)
    <3>1. Has(d, s)' = Has(d, s)
      BY <1>2, <1>4, <2>3
    <3> QED BY <2>1, <3>1 DEF DictInv, Offered
  <2> QED BY <2>2, <2>3
<1> QED BY <1>4, <1>10, <1>11, <1>12

LEMMA AddingLater ==
  ASSUME NEW c, NEW sel, NEW method,
         \/ /\ call'.stores = <<>> /\ Has(c, sel)' # {}
            /\ \A b \in Has(c, sel)' : MethodAt(c, b)' = method
         \/ \E b \in Has(c, sel)' :
              \/ call'.stores = <<PutDictionary(c), PutMethod(c, b, method)>>
              \/ call'.stores = <<PutMethod(c, b, method)>> /\ Dictionary(c)' = c
         \/ \E b \in Places :
              /\ InUse(c, b)' = HASH_EMPTY /\ EndFor(c, sel)' = b
              /\ \/ call'.stores = <<PutDictionary(c), PutSelector(c, b, sel), PutMethod(c, b, method), PutInUse(c, b)>>
                 \/ /\ Dictionary(c)' = c
                    /\ \/ call'.stores = <<PutSelector(c, b, sel), PutMethod(c, b, method), PutInUse(c, b)>>
                       \/ call'.stores = <<PutMethod(c, b, method), PutInUse(c, b)>> /\ KeyOf(c, b)' = sel
                       \/ /\ call'.stores = <<PutInUse(c, b)>>
                          /\ KeyOf(c, b)' = sel /\ MethodAt(c, b)' = method
  PROVE  Adding(c, sel, method)'
<1> USE DEF PutDictionary, PutSelector, PutMethod, PutInUse, PutBucket, Put, Place, DictionaryTable
<1>1. CASE call'.stores = <<>> /\ Has(c, sel)' # {} /\ \A b \in Has(c, sel)' : MethodAt(c, b)' = method
  BY <1>1 DEF Adding
<1>2. CASE \E b \in Has(c, sel)' :
             \/ call'.stores = <<PutDictionary(c), PutMethod(c, b, method)>>
             \/ call'.stores = <<PutMethod(c, b, method)>> /\ Dictionary(c)' = c
  BY <1>2 DEF Adding
<1>3. ASSUME NEW b \in Places, InUse(c, b)' = HASH_EMPTY, EndFor(c, sel)' = b,
             \/ call'.stores = <<PutDictionary(c), PutSelector(c, b, sel), PutMethod(c, b, method), PutInUse(c, b)>>
             \/ /\ Dictionary(c)' = c
                /\ \/ call'.stores = <<PutSelector(c, b, sel), PutMethod(c, b, method), PutInUse(c, b)>>
                   \/ call'.stores = <<PutMethod(c, b, method), PutInUse(c, b)>> /\ KeyOf(c, b)' = sel
                   \/ /\ call'.stores = <<PutInUse(c, b)>>
                      /\ KeyOf(c, b)' = sel /\ MethodAt(c, b)' = method
      PROVE  Adding(c, sel, method)'
  BY <1>3 DEF Adding, Places, HASH_EMPTY
<1> QED BY <1>1, <1>2, <1>3

LEMMA DictStore ==
  ASSUME DictInv, Store, UNCHANGED <<interned, methodVars>>
  PROVE  DictInv'
<1> DEFINE put == Head(call.stores)
<1>1. NamesInv' /\ Shape /\ CallSound
  BY NamesStore DEF DictInv, NamesInv
<1>2. /\ ~Idle /\ ~Idle' /\ call.stores # <<>>
      /\ put.object \in Touched(call.op) /\ call.op \in Operations
      /\ call' = [op |-> call.op, subject |-> call.subject, stores |-> Tail(call.stores), answer |-> call.answer]
      /\ \A o \in DOMAIN memory : o # put.object => memory'[o] = memory[o]
  BY <1>1, Storing
<1>3. /\ call'.op = call.op /\ call'.subject = call.subject /\ call'.answer = call.answer
      /\ call'.stores = Tail(call.stores)
  BY <1>2
<1>4. UNCHANGED <<classes, possible>>
  BY DEF methodVars, history
<1>5. \A d \in AllClasses, s \in Selectors : \A e \in Has(d, s) : MethodAt(d, e) \in possible[d][s]
  BY DEF DictInv, Offered
<1>6. CASE call.op # "install"
  <2>2. put.object \notin {"superclass", "methods", "dictionaries"}
    BY <1>2, <1>6, Touching DEF Operations, SelectorNames
  <2>3. /\ memory'["superclass"] = memory["superclass"] /\ memory'["methods"] = memory["methods"]
        /\ memory'["dictionaries"] = memory["dictionaries"]
    BY <1>1, <1>2, <2>2, DictWords
  <2>4. \A d \in AllClasses : Super(d)' = Super(d) /\ Dictionary(d)' \in {Dictionary(d), d}
    BY <2>3 DEF Super, Dictionary
  <2>5. \A d, e : InUse(d, e)' = InUse(d, e) /\ KeyOf(d, e)' = KeyOf(d, e) /\ MethodAt(d, e)' = MethodAt(d, e)
    BY <2>3, DictSame
  <2>6. ClassTypes' /\ Probing' /\ Offered'
    BY <1>4, <1>5, <2>4, <2>5, DictKept
  <2> QED BY <1>1, <1>3, <1>6, <2>6 DEF DictInv, InstallSound
<1>7. CASE call.op = "install"
  <2>1. PICK c, sel, taken, method :
          c = call.subject[1] /\ sel = call.subject[2] /\ taken = call.subject[3] /\ method = call.answer
    OBVIOUS
  <2>2. Installs(c, sel, taken, method) /\ call.subject = <<c, sel, taken>> /\ taken \in BOOLEAN
    BY <1>2, <1>7, <2>1 DEF DictInv, InstallSound
  <2>3. c \in AllClasses /\ sel \in Nat /\ (taken => (sel \in Selectors => method \in possible[c][sel]))
    BY <2>2 DEF Installs
  <2>4. SUFFICES ClassTypes' /\ Probing' /\ Offered' /\ (taken => Adding(c, sel, method)')
                 /\ (~taken => call'.stores \in {<<>>, <<PutDictionary(c)>>})
    <3>1. Installs(c, sel, taken, method)'
      BY <1>4, <2>3, <2>4 DEF Installs, AllClasses, PutDictionary, Put
    <3>2. call'.subject[1] = c /\ call'.subject[2] = sel /\ call'.subject[3] = taken /\ call'.answer = method
      BY <1>3, <2>1
    <3>3. InstallSound'
      BY <1>3, <2>2, <3>1, <3>2 DEF InstallSound
    <3> QED BY <1>1, <2>4, <3>3 DEF DictInv
  <2>5. ASSUME put = PutDictionary(c)
        PROVE  /\ ClassTypes' /\ Probing' /\ Offered' /\ Dictionary(c)' = c
               /\ \A s : Has(c, s)' = Has(c, s) /\ EndFor(c, s)' = EndFor(c, s)
               /\ \A e : InUse(c, e)' = InUse(c, e)
    <3>1. /\ \A d \in AllClasses : Super(d)' = Super(d)
          /\ \A d \in AllClasses : Dictionary(d)' = IF d = c THEN c ELSE Dictionary(d)
          /\ memory'["dictionaries"] = memory["dictionaries"]
      BY <1>1, <2>3, <2>5, MethodsEffect
    <3>2. \A d, e : InUse(d, e)' = InUse(d, e) /\ KeyOf(d, e)' = KeyOf(d, e) /\ MethodAt(d, e)' = MethodAt(d, e)
      BY <3>1, DictSame
    <3>3. \A d \in AllClasses : Super(d)' = Super(d) /\ Dictionary(d)' \in {Dictionary(d), d}
      BY <3>1
    <3> QED BY <1>4, <1>5, <2>3, <3>1, <3>2, <3>3, DictKept
  <2>6. ASSUME NEW b \in Places, InUse(c, b) = HASH_EMPTY, NEW value, NEW k \in 0..1,
               put.object = "dictionaries", put.place = c * METHOD_DICT_HASH_SIZE * 3 + b * 3 + k, put.value = value
        PROVE  /\ ClassTypes' /\ Probing' /\ Offered' /\ Dictionary(c)' = Dictionary(c)
               /\ EndFor(c, sel)' = EndFor(c, sel) /\ InUse(c, b)' = InUse(c, b)
               /\ KeyOf(c, b)' = (IF k = 0 THEN value ELSE KeyOf(c, b))
               /\ MethodAt(c, b)' = (IF k = 1 THEN value ELSE MethodAt(c, b))
    <3>0. k \in 0..2 /\ k # 2
      OBVIOUS
    <3>1. /\ \A d \in AllClasses : Super(d)' = Super(d) /\ Dictionary(d)' = Dictionary(d)
          /\ \A d \in AllClasses, e \in Places :
               /\ KeyOf(d, e)' = IF d = c /\ e = b /\ k = 0 THEN value ELSE KeyOf(d, e)
               /\ MethodAt(d, e)' = IF d = c /\ e = b /\ k = 1 THEN value ELSE MethodAt(d, e)
               /\ InUse(d, e)' = IF d = c /\ e = b /\ k = 2 THEN value ELSE InUse(d, e)
      BY <1>1, <2>3, <2>6, <3>0, DictEffect
    <3>2. \A d \in AllClasses, e \in Places :
            InUse(d, e)' = InUse(d, e) /\ (InUse(d, e) = HASH_OCCUPIED => KeyOf(d, e)' = KeyOf(d, e))
      BY <2>6, <3>0, <3>1 DEF HASH_EMPTY, HASH_OCCUPIED
    <3>3. \A d \in AllClasses, s \in Selectors : \A e \in Has(d, s) : MethodAt(d, e)' \in possible[d][s]
      <4>1. TAKE d \in AllClasses, s \in Selectors
      <4>2. TAKE e \in Has(d, s)
      <4>3. e \in Places /\ InUse(d, e) = HASH_OCCUPIED
        BY DEF Has
      <4>4. ~(d = c /\ e = b)
        BY <2>6, <4>3 DEF HASH_EMPTY, HASH_OCCUPIED
      <4> QED BY <1>5, <3>1, <4>3, <4>4
    <3>4. \A d \in AllClasses : Super(d)' = Super(d) /\ Dictionary(d)' \in {Dictionary(d), d}
      BY <3>1
    <3>5. ClassTypes' /\ Probing' /\ Offered' /\ EndFor(c, sel)' = EndFor(c, sel)
      BY <1>4, <2>3, <3>2, <3>3, <3>4, DictKept
    <3> QED BY <2>3, <2>6, <3>1, <3>2, <3>5
  <2>7. ASSUME NEW b \in Has(c, sel), put = PutMethod(c, b, method), taken
        PROVE  /\ ClassTypes' /\ Probing' /\ Offered' /\ Has(c, sel)' = Has(c, sel)
               /\ MethodAt(c, b)' = method
    <3>0. b \in Places /\ 1 \in 0..2 /\ KeyOf(c, b) = sel
      BY <2>7 DEF Has
    <3>1. /\ put.object = "dictionaries" /\ put.place = c * METHOD_DICT_HASH_SIZE * 3 + b * 3 + 1
          /\ put.value = method
      BY <2>3, <2>7, <3>0, DictPuts
    <3>2. /\ \A d \in AllClasses : Super(d)' = Super(d) /\ Dictionary(d)' = Dictionary(d)
          /\ \A d \in AllClasses, e \in Places :
               /\ KeyOf(d, e)' = IF d = c /\ e = b /\ 1 = 0 THEN method ELSE KeyOf(d, e)
               /\ MethodAt(d, e)' = IF d = c /\ e = b /\ 1 = 1 THEN method ELSE MethodAt(d, e)
               /\ InUse(d, e)' = IF d = c /\ e = b /\ 1 = 2 THEN method ELSE InUse(d, e)
      BY <1>1, <2>3, <3>0, <3>1, DictEffect
    <3>3. \A d \in AllClasses, e \in Places : InUse(d, e)' = InUse(d, e) /\ KeyOf(d, e)' = KeyOf(d, e)
      BY <3>2
    <3>4. \A d \in AllClasses, s \in Selectors : \A e \in Has(d, s) : MethodAt(d, e)' \in possible[d][s]
      <4>1. TAKE d \in AllClasses, s \in Selectors
      <4>2. TAKE e \in Has(d, s)
      <4>3. e \in Places /\ KeyOf(d, e) = s
        BY DEF Has
      <4>4. CASE d = c /\ e = b
        BY <2>3, <2>7, <3>0, <3>2, <4>3, <4>4
      <4>5. CASE ~(d = c /\ e = b)
        BY <1>5, <3>2, <4>3, <4>5
      <4> QED BY <4>4, <4>5
    <3>5. \A d \in AllClasses : Super(d)' = Super(d) /\ Dictionary(d)' \in {Dictionary(d), d}
      BY <3>2
    <3>6. ClassTypes' /\ Probing' /\ Offered' /\ Has(c, sel)' = Has(c, sel)
      BY <1>4, <2>3, <3>3, <3>4, <3>5, DictKept
    <3> QED BY <2>3, <3>0, <3>2, <3>6
  <2>8. ASSUME NEW b \in Places, put = PutInUse(c, b), InUse(c, b) = HASH_EMPTY, EndFor(c, sel) = b,
               KeyOf(c, b) = sel, MethodAt(c, b) = method, Dictionary(c) = c, taken
        PROVE  ClassTypes' /\ Probing' /\ Offered' /\ Has(c, sel)' = {b} /\ MethodAt(c, b)' = method
    <3>1. /\ put.object = "dictionaries" /\ put.place = c * METHOD_DICT_HASH_SIZE * 3 + b * 3 + 2
          /\ put.value = HASH_OCCUPIED /\ 2 \in 0..2
      BY <2>3, <2>8, DictPuts
    <3>2. /\ \A d \in AllClasses : Super(d)' = Super(d) /\ Dictionary(d)' = Dictionary(d)
          /\ \A d \in AllClasses, e \in Places :
               /\ KeyOf(d, e)' = IF d = c /\ e = b /\ 2 = 0 THEN HASH_OCCUPIED ELSE KeyOf(d, e)
               /\ MethodAt(d, e)' = IF d = c /\ e = b /\ 2 = 1 THEN HASH_OCCUPIED ELSE MethodAt(d, e)
               /\ InUse(d, e)' = IF d = c /\ e = b /\ 2 = 2 THEN HASH_OCCUPIED ELSE InUse(d, e)
      BY <1>1, <2>3, <3>1, DictEffect
    <3>3. \A d \in AllClasses, e \in Places :
            /\ KeyOf(d, e)' = KeyOf(d, e) /\ MethodAt(d, e)' = MethodAt(d, e)
            /\ InUse(d, e)' = IF d = c /\ e = b THEN HASH_OCCUPIED ELSE InUse(d, e)
      BY <3>2
    <3>4. sel \in Selectors => MethodAt(c, b) \in possible[c][sel]
      BY <2>3, <2>8
    <3>5. ClassTypes' /\ Probing' /\ Offered' /\ Has(c, sel)' = {b}
      BY <1>4, <2>3, <2>8, <3>2, <3>3, <3>4, DictUse
    <3> QED BY <2>3, <2>8, <3>3, <3>5
  <2>9. CASE ~taken
    <3> DEFINE first == PutDictionary(c)
    <3>1. call.stores = <<first>>
      BY <1>2, <2>2, <2>9 DEF Installs
    <3>2. put = first /\ call'.stores = <<>>
      BY <1>3, <3>1, Tails
    <3> QED BY <2>5, <2>9, <3>2
  <2>10. CASE taken
    <3>1. ASSUME NEW b \in Has(c, sel), call.stores = <<PutDictionary(c), PutMethod(c, b, method)>>
          PROVE  ClassTypes' /\ Probing' /\ Offered' /\ Adding(c, sel, method)'
      <4>1. put = PutDictionary(c) /\ call'.stores = <<PutMethod(c, b, method)>>
        BY <1>3, <3>1, Tails
      <4> QED BY <2>5, <4>1, AddingLater
    <3>2. ASSUME NEW b \in Has(c, sel), call.stores = <<PutMethod(c, b, method)>>
          PROVE  ClassTypes' /\ Probing' /\ Offered' /\ Adding(c, sel, method)'
      <4>1. put = PutMethod(c, b, method) /\ call'.stores = <<>>
        BY <1>3, <3>2, Tails
      <4>2. /\ ClassTypes' /\ Probing' /\ Offered'
            /\ Has(c, sel)' = Has(c, sel) /\ MethodAt(c, b)' = method
        BY <2>7, <2>10, <4>1
      <4>3. \A e \in Has(c, sel) : e = b
        BY <2>3 DEF DictInv, Probing
      <4>4. Has(c, sel)' # {} /\ \A e \in Has(c, sel)' : MethodAt(c, e)' = method
        BY <4>2, <4>3
      <4> QED BY <4>1, <4>2, <4>4, AddingLater
    <3>3. ASSUME NEW b \in Places, InUse(c, b) = HASH_EMPTY, EndFor(c, sel) = b,
                 call.stores = <<PutDictionary(c), PutSelector(c, b, sel), PutMethod(c, b, method), PutInUse(c, b)>>
          PROVE  ClassTypes' /\ Probing' /\ Offered' /\ Adding(c, sel, method)'
      <4>1. /\ put = PutDictionary(c)
            /\ call'.stores = <<PutSelector(c, b, sel), PutMethod(c, b, method), PutInUse(c, b)>>
        BY <1>3, <3>3, Tails
      <4>2. InUse(c, b)' = HASH_EMPTY /\ EndFor(c, sel)' = b /\ Dictionary(c)' = c
        BY <2>5, <3>3, <4>1
      <4> QED BY <2>5, <4>1, <4>2, AddingLater
    <3>4. ASSUME NEW b \in Places, InUse(c, b) = HASH_EMPTY, EndFor(c, sel) = b, Dictionary(c) = c,
                 call.stores = <<PutSelector(c, b, sel), PutMethod(c, b, method), PutInUse(c, b)>>
          PROVE  ClassTypes' /\ Probing' /\ Offered' /\ Adding(c, sel, method)'
      <4>1. put = PutSelector(c, b, sel) /\ call'.stores = <<PutMethod(c, b, method), PutInUse(c, b)>>
        BY <1>3, <3>4, Tails
      <4>2. /\ put.object = "dictionaries" /\ put.place = c * METHOD_DICT_HASH_SIZE * 3 + b * 3 + 0
            /\ put.value = sel /\ 0 \in 0..1
        BY <2>3, <4>1, DictPuts
      <4>3. /\ ClassTypes' /\ Probing' /\ Offered' /\ Dictionary(c)' = Dictionary(c)
            /\ EndFor(c, sel)' = EndFor(c, sel) /\ InUse(c, b)' = InUse(c, b) /\ KeyOf(c, b)' = sel
        BY <2>6, <3>4, <4>2
      <4> QED BY <3>4, <4>1, <4>3, AddingLater
    <3>5. ASSUME NEW b \in Places, InUse(c, b) = HASH_EMPTY, EndFor(c, sel) = b, Dictionary(c) = c,
                 call.stores = <<PutMethod(c, b, method), PutInUse(c, b)>>, KeyOf(c, b) = sel
          PROVE  ClassTypes' /\ Probing' /\ Offered' /\ Adding(c, sel, method)'
      <4>1. put = PutMethod(c, b, method) /\ call'.stores = <<PutInUse(c, b)>>
        BY <1>3, <3>5, Tails
      <4>2. /\ put.object = "dictionaries" /\ put.place = c * METHOD_DICT_HASH_SIZE * 3 + b * 3 + 1
            /\ put.value = method /\ 1 \in 0..1
        BY <2>3, <4>1, DictPuts
      <4>3. /\ ClassTypes' /\ Probing' /\ Offered' /\ Dictionary(c)' = Dictionary(c)
            /\ EndFor(c, sel)' = EndFor(c, sel) /\ InUse(c, b)' = InUse(c, b) /\ KeyOf(c, b)' = KeyOf(c, b)
            /\ MethodAt(c, b)' = method
        BY <2>6, <3>5, <4>2
      <4> QED BY <3>5, <4>1, <4>3, AddingLater
    <3>6. ASSUME NEW b \in Places, InUse(c, b) = HASH_EMPTY, EndFor(c, sel) = b, Dictionary(c) = c,
                 call.stores = <<PutInUse(c, b)>>, KeyOf(c, b) = sel, MethodAt(c, b) = method
          PROVE  ClassTypes' /\ Probing' /\ Offered' /\ Adding(c, sel, method)'
      <4>1. put = PutInUse(c, b) /\ call'.stores = <<>>
        BY <1>3, <3>6, Tails
      <4>2. ClassTypes' /\ Probing' /\ Offered' /\ Has(c, sel)' = {b} /\ MethodAt(c, b)' = method
        BY <2>8, <2>10, <3>6, <4>1
      <4>3. Has(c, sel)' # {} /\ \A e \in Has(c, sel)' : MethodAt(c, e)' = method
        BY <4>2
      <4> QED BY <4>1, <4>2, <4>3, AddingLater
    <3> QED
      <4>1. Adding(c, sel, method) /\ call.stores # <<>>
        BY <1>2, <2>2, <2>10 DEF Installs
      <4> QED BY <2>10, <3>1, <3>2, <3>3, <3>4, <3>5, <3>6, <4>1 DEF Adding
  <2> QED BY <2>9, <2>10
<1> QED BY <1>6, <1>7

-----------------------------------------------------------------------------
(***************************************************************************)
(* How installations begin and end, and what else happens.                 *)
(***************************************************************************)
LEMMA DictAside ==
  ASSUME DictInv, memory'["methods"] = memory["methods"], memory'["dictionaries"] = memory["dictionaries"],
         classes' \in 0..MaxClasses, \A d \in AllClasses : Super(d)' \in 0..d-1,
         DOMAIN possible' = AllClasses, \A d \in AllClasses : DOMAIN possible'[d] = Selectors,
         \A d \in AllClasses, s \in Selectors :
           /\ \A e \in Has(d, s) : MethodAt(d, e) \in possible'[d][s]
           /\ Has(d, s) = {} => NULL \in possible'[d][s]
  PROVE  ClassTypes' /\ Probing' /\ Offered' /\ \A d : Dictionary(d)' = Dictionary(d)
<1>1. \A d : Dictionary(d)' = Dictionary(d)
  BY DEF Dictionary
<1>2. /\ \A d, e : InUse(d, e)' = InUse(d, e) /\ KeyOf(d, e)' = KeyOf(d, e) /\ MethodAt(d, e)' = MethodAt(d, e)
      /\ \A d, s : Has(d, s)' = Has(d, s) /\ EndFor(d, s)' = EndFor(d, s)
  BY DictSame
<1>3. ClassTypes'
  BY <1>1 DEF DictInv, ClassTypes, AllClasses, NULL
<1>4. Probing'
  <2> SUFFICES ASSUME NEW d \in AllClasses
               PROVE  /\ \A e \in Places : InUse(d, e)' \in {HASH_EMPTY, HASH_OCCUPIED}
                      /\ Dictionary(d)' = NULL => \A e \in Places : InUse(d, e)' = HASH_EMPTY
                      /\ \A s \in Nat : \A e \in Has(d, s)' : EndFor(d, s)' = e
    BY DEF Probing, AllClasses, Places, NULL, HASH_EMPTY, HASH_OCCUPIED
  <2> QED BY <1>1, <1>2 DEF DictInv, Probing
<1>5. Offered'
  <2> SUFFICES ASSUME NEW d \in AllClasses, NEW s \in Selectors
               PROVE  /\ \A e \in Has(d, s)' : MethodAt(d, e)' \in possible'[d][s]
                      /\ Has(d, s)' = {} => NULL \in possible'[d][s]
    BY DEF Offered, AllClasses, NULL
  <2> QED BY <1>2
<1> QED BY <1>1, <1>3, <1>4, <1>5

LEMMA OneAppended ==
  ASSUME NEW w, NEW x
  PROVE  <<>> \o <<x>> = <<x>> /\ <<w>> \o <<x>> = <<w, x>> /\ <<x>> # <<>>
<1> DEFINE S == {w, x}
           r == <<w>> \o <<x>>
<1>1. <<w>> \in Seq(S) /\ <<x>> \in Seq(S) /\ <<w, x>> \in Seq(S)
  OBVIOUS
<1>2. \A s \in Seq(S) : <<>> \o s = s
  <2> HIDE DEF S
  <2> QED OBVIOUS
<1>3. r \in Seq(S) /\ Len(r) = 2 /\ r[1] = w /\ r[2] = x
  BY <1>1
<1>4. Len(<<w, x>>) = 2 /\ \A i \in 1..2 : r[i] = <<w, x>>[i]
  BY <1>3
<1>5. r = <<w, x>>
  <2> HIDE DEF r, S
  <2> QED BY <1>1, <1>3, <1>4, SeqEqual
<1>6. <<x>> # <<>>
  OBVIOUS
<1> HIDE DEF S
<1> QED BY <1>1, <1>2, <1>5, <1>6

LEMMA ThreeAppended ==
  ASSUME NEW w, NEW x, NEW y, NEW z
  PROVE  /\ <<>> \o <<x, y, z>> = <<x, y, z>> /\ <<w>> \o <<x, y, z>> = <<w, x, y, z>>
         /\ <<x, y, z>> # <<>>
<1> DEFINE S == {w, x, y, z}
           r == <<w>> \o <<x, y, z>>
<1>1. <<w>> \in Seq(S) /\ <<x, y, z>> \in Seq(S) /\ <<w, x, y, z>> \in Seq(S)
  OBVIOUS
<1>2. \A s \in Seq(S) : <<>> \o s = s
  <2> HIDE DEF S
  <2> QED OBVIOUS
<1>3. r \in Seq(S) /\ Len(r) = 4 /\ r[1] = w /\ r[2] = x /\ r[3] = y /\ r[4] = z
  BY <1>1
<1>4. Len(<<w, x, y, z>>) = 4 /\ \A i \in 1..4 : r[i] = <<w, x, y, z>>[i]
  BY <1>3
<1>5. r = <<w, x, y, z>>
  <2> HIDE DEF r, S
  <2> QED BY <1>1, <1>3, <1>4, SeqEqual
<1>6. <<x, y, z>> # <<>>
  OBVIOUS
<1> HIDE DEF S
<1> QED BY <1>1, <1>2, <1>5, <1>6

\* The stores of an addition begin as Adding says.
LEMMA AddingStores ==
  ASSUME DictInv, NEW c \in AllClasses, NEW sel \in Nat, NEW method, NEW stores,
         stores = InstallStores(c, sel, method)
  PROVE  \/ /\ MethodDictAdd(c, sel, method) = <<>>
            /\ stores \in {<<>>, <<PutDictionary(c)>>}
         \/ /\ MethodDictAdd(c, sel, method) # <<>>
            /\ \E b \in Has(c, sel) :
                 \/ stores = <<PutDictionary(c), PutMethod(c, b, method)>>
                 \/ stores = <<PutMethod(c, b, method)>> /\ Dictionary(c) = c
         \/ /\ MethodDictAdd(c, sel, method) # <<>>
            /\ \E b \in Places :
                 /\ InUse(c, b) = HASH_EMPTY /\ EndFor(c, sel) = b
                 /\ \/ stores = <<PutDictionary(c), PutSelector(c, b, sel), PutMethod(c, b, method), PutInUse(c, b)>>
                    \/ /\ stores = <<PutSelector(c, b, sel), PutMethod(c, b, method), PutInUse(c, b)>>
                       /\ Dictionary(c) = c
<1> DEFINE b == EndFor(c, sel)
           add == MethodDictAdd(c, sel, method)
           first == PutDictionary(c)
           p(e) == PutSelector(c, e, sel)
           q(e) == PutMethod(c, e, method)
           r(e) == PutInUse(c, e)
<1>0. PICK f : f = <<first>>
  OBVIOUS
<1>1. PICK long, short : long = f \o add /\ short = <<>> \o add
  OBVIOUS
<1>9. stores = long \/ (stores = short /\ Dictionary(c) = c)
  <2>1. Dictionary(c) \in {NULL, c}
    BY DEF DictInv, ClassTypes
  <2>2. PICK before : before = IF Dictionary(c) = NULL THEN f ELSE <<>>
    OBVIOUS
  <2>3. stores = before \o add
    BY <1>0, <2>2, Zenon DEF InstallStores, PutDictionary, first
  <2>4. CASE Dictionary(c) = NULL
    <3>1. before = f
      BY <2>2, <2>4
    <3>2. stores = long
      BY <1>1, <2>3, <3>1, Zenon
    <3> QED BY <3>2
  <2>5. CASE Dictionary(c) # NULL
    <3>1. before = <<>> /\ Dictionary(c) = c
      BY <2>1, <2>2, <2>5
    <3> QED BY <1>1, <2>3, <3>1, Zenon
  <2> QED BY <2>4, <2>5
<1>2. add = IF EndsFor(c, sel) = {} THEN <<>>
            ELSE IF InUse(c, b) = HASH_OCCUPIED THEN <<q(b)>> ELSE <<p(b), q(b), r(b)>>
  BY DEF MethodDictAdd, Add, EndsFor, EndFor, InUse, PutSelector, PutMethod, PutInUse
<1> HIDE DEF add, first, p, q, r
<1>3. PICK w, x, y, z : w = first /\ x = p(b) /\ y = q(b) /\ z = r(b)
  OBVIOUS
<1>4. <<>> \o <<>> = <<>> /\ <<w>> \o <<>> = <<w>>
  OBVIOUS
<1>5. long = <<w>> \o add /\ short = <<>> \o add
  <2>1. f = <<w>>
    BY <1>0, <1>3
  <2> QED BY <1>1, <2>1, Zenon
<1>6. CASE EndsFor(c, sel) = {}
  <2>1. add = <<>>
    BY <1>2, <1>6
  <2>2. stores \in {<<>>, <<w>>}
    <3>1. long = <<w>> /\ short = <<>>
      BY <1>4, <1>5, <2>1, Zenon
    <3> QED BY <1>9, <3>1
  <2> QED BY <1>3, <2>1, <2>2 DEF add, first
<1>7. CASE EndsFor(c, sel) # {} /\ InUse(c, b) = HASH_OCCUPIED
  <2>1. b \in Has(c, sel)
    BY <1>7, EndIsEnd, HasIsEnd
  <2>2. add = <<y>>
    BY <1>2, <1>3, <1>7
  <2>3. add # <<>> /\ (stores = <<w, y>> \/ (stores = <<y>> /\ Dictionary(c) = c))
    <3>1. long = <<w, y>> /\ short = <<y>> /\ add # <<>>
      BY <1>5, <2>2, OneAppended, Zenon
    <3> QED BY <1>9, <3>1
  <2> QED BY <1>3, <2>1, <2>3 DEF add, first, q
<1>8. CASE EndsFor(c, sel) # {} /\ InUse(c, b) # HASH_OCCUPIED
  <2>1. b \in Places
    BY <1>8, EndIsEnd, HasIsEnd
  <2>2. InUse(c, b) = HASH_EMPTY
    BY <1>8, <2>1 DEF DictInv, Probing
  <2>3. add = <<x, y, z>>
    BY <1>2, <1>3, <1>8
  <2>4. add # <<>> /\ (stores = <<w, x, y, z>> \/ (stores = <<x, y, z>> /\ Dictionary(c) = c))
    <3>1. long = <<w, x, y, z>> /\ short = <<x, y, z>> /\ add # <<>>
      BY <1>5, <2>3, ThreeAppended, Zenon
    <3> QED BY <1>9, <3>1
  <2> QED BY <1>3, <2>1, <2>2, <2>4 DEF add, first, p, q, r
<1> QED BY <1>6, <1>7, <1>8

LEMMA KnownClasses ==
  ASSUME DictInv
  PROVE  Classes \subseteq AllClasses /\ Known \subseteq Nat
<1>1. Classes \subseteq AllClasses
  BY Sizes DEF DictInv, ClassTypes, Classes, AllClasses
<1>2. Known \subseteq Nat
  <2> SUFFICES ASSUME NEW pair \in interned PROVE pair[2] \in Nat
    BY DEF Known
  <2>1. Named(pair[2], pair[1]) /\ SymbolCount \in Nat
    BY Constants DEF DictInv, NamesInv, AllNamed
  <2> QED BY <2>1 DEF Named
<1> QED BY <1>1, <1>2

LEMMA DictBegin ==
  ASSUME DictInv, NamesInv', NEW c \in AllClasses, NEW sel \in Nat, NEW method, InstallMethod(c, sel, method)
  PROVE  DictInv'
<1> DEFINE add == MethodDictAdd(c, sel, method)
           stores == InstallStores(c, sel, method)
<1>1. PICK taken \in BOOLEAN : taken <=> add # <<>>
  OBVIOUS
<1>2. /\ Enter("install", <<c, sel, taken>>, stores, method)
      /\ possible' = [possible EXCEPT ![c][sel] = possible[c][sel] \cup {m \in {method} : taken}]
      /\ classes' = classes
  <2>1. (add # <<>>) = taken
    BY <1>1
  <2> HIDE DEF add, stores
  <2> QED BY <2>1 DEF InstallMethod, Begin, MayHave, add, stores
<1>3. /\ call' = [op |-> "install", subject |-> <<c, sel, taken>>, stores |-> stores, answer |-> method]
      /\ memory' = memory
  BY <1>2 DEF Enter
<1>4. /\ call'.op = "install" /\ call'.subject = <<c, sel, taken>> /\ call'.stores = stores
      /\ call'.answer = method
  BY <1>3
<1>5. /\ DOMAIN possible' = AllClasses /\ \A d \in AllClasses : DOMAIN possible'[d] = Selectors
      /\ \A d \in AllClasses, s \in Selectors : possible[d][s] \subseteq possible'[d][s]
      /\ taken => (sel \in Selectors => method \in possible'[c][sel])
  BY <1>2 DEF DictInv, ClassTypes
<1>6. ClassTypes' /\ Probing' /\ Offered' /\ \A d : Dictionary(d)' = Dictionary(d)
  <2>1. classes' \in 0..MaxClasses /\ \A d \in AllClasses : Super(d)' \in 0..d-1
    BY <1>2, <1>3 DEF DictInv, ClassTypes, Super
  <2>2. \A d \in AllClasses, s \in Selectors :
          /\ \A e \in Has(d, s) : MethodAt(d, e) \in possible'[d][s]
          /\ Has(d, s) = {} => NULL \in possible'[d][s]
    BY <1>5 DEF DictInv, Offered
  <2> QED BY <1>3, <1>5, <2>1, <2>2, DictAside
<1>7. /\ \A e : InUse(c, e)' = InUse(c, e)
      /\ Has(c, sel)' = Has(c, sel) /\ EndFor(c, sel)' = EndFor(c, sel)
  BY <1>3, DictSame
<1>8. Installs(c, sel, taken, method)'
  <2> HIDE DEF add, stores
  <2>0. \/ add = <<>> /\ stores \in {<<>>, <<PutDictionary(c)>>}
        \/ /\ add # <<>>
           /\ \E b \in Has(c, sel) :
                \/ stores = <<PutDictionary(c), PutMethod(c, b, method)>>
                \/ stores = <<PutMethod(c, b, method)>> /\ Dictionary(c) = c
        \/ /\ add # <<>>
           /\ \E b \in Places :
                /\ InUse(c, b) = HASH_EMPTY /\ EndFor(c, sel) = b
                /\ \/ stores = <<PutDictionary(c), PutSelector(c, b, sel), PutMethod(c, b, method), PutInUse(c, b)>>
                   \/ /\ stores = <<PutSelector(c, b, sel), PutMethod(c, b, method), PutInUse(c, b)>>
                      /\ Dictionary(c) = c
    BY AddingStores DEF add, stores
  <2>1. CASE ~taken
    <3>1. call'.stores \in {<<>>, <<PutDictionary(c)>>}
      BY <1>1, <1>4, <2>0, <2>1
    <3> QED BY <2>1, <3>1 DEF Installs, AllClasses, PutDictionary, Put
  <2>2. CASE taken
    <3>1. Adding(c, sel, method)'
      BY <1>1, <1>4, <1>6, <1>7, <2>0, <2>2, AddingLater
    <3> QED BY <1>5, <2>2, <3>1 DEF Installs, AllClasses
  <2> QED BY <2>1, <2>2
<1>9. InstallSound'
  <2>1. call'.subject[1] = c /\ call'.subject[2] = sel /\ call'.subject[3] = taken
    BY <1>4
  <2> QED BY <1>4, <1>8, <2>1 DEF InstallSound
<1> QED BY <1>6, <1>9 DEF DictInv

\* After an installation the class has the method, if there was room.
LEMMA DictEnd ==
  ASSUME DictInv, NamesInv', Installed
  PROVE  DictInv'
<1>1. PICK c, sel, taken, method :
        c = call.subject[1] /\ sel = call.subject[2] /\ taken = call.subject[3] /\ method = call.answer
  OBVIOUS
<1>2. /\ ~Idle /\ call.op = "install" /\ call.stores = <<>> /\ call' = NoCall /\ memory' = memory
      /\ possible' = [possible EXCEPT ![c][sel] = IF taken THEN {method} ELSE possible[c][sel]]
      /\ classes' = classes
  BY <1>1 DEF Installed, Returns, MayHave
<1>3. Installs(c, sel, taken, method) /\ taken \in BOOLEAN
  BY <1>1, <1>2 DEF DictInv, InstallSound
<1>4. taken => Has(c, sel) # {} /\ \A b \in Has(c, sel) : MethodAt(c, b) = method
  BY <1>2, <1>3 DEF Installs, Adding
<1>5. \A d \in AllClasses, s \in Selectors :
        possible'[d][s] = IF d = c /\ s = sel /\ taken THEN {method} ELSE possible[d][s]
  BY <1>2, <1>3 DEF DictInv, ClassTypes
<1>6. DOMAIN possible' = AllClasses /\ \A d \in AllClasses : DOMAIN possible'[d] = Selectors
  BY <1>2 DEF DictInv, ClassTypes
<1>7. \A d \in AllClasses, s \in Selectors :
        /\ \A e \in Has(d, s) : MethodAt(d, e) \in possible'[d][s]
        /\ Has(d, s) = {} => NULL \in possible'[d][s]
  BY <1>4, <1>5 DEF DictInv, Offered
<1>8. classes' \in 0..MaxClasses /\ \A d \in AllClasses : Super(d)' \in 0..d-1
  BY <1>2 DEF DictInv, ClassTypes, Super
<1>9. ClassTypes' /\ Probing' /\ Offered'
  BY <1>2, <1>6, <1>7, <1>8, DictAside
<1>10. Idle'
  BY <1>2 DEF Idle
<1> QED BY <1>9, <1>10 DEF DictInv, InstallSound

\* Other calls leave dictionaries alone.
LEMMA DictElse ==
  ASSUME DictInv, NamesInv', memory' = memory, UNCHANGED <<classes, possible>>,
         Idle' \/ call'.op # "install"
  PROVE  DictInv'
<1>1. /\ DOMAIN possible' = AllClasses /\ \A d \in AllClasses : DOMAIN possible'[d] = Selectors
      /\ classes' \in 0..MaxClasses /\ \A d \in AllClasses : Super(d)' \in 0..d-1
  BY DEF DictInv, ClassTypes, Super
<1>2. \A d \in AllClasses, s \in Selectors :
        /\ \A e \in Has(d, s) : MethodAt(d, e) \in possible'[d][s]
        /\ Has(d, s) = {} => NULL \in possible'[d][s]
  BY DEF DictInv, Offered
<1>3. ClassTypes' /\ Probing' /\ Offered'
  BY <1>1, <1>2, DictAside
<1> QED BY <1>3 DEF DictInv, InstallSound

LEMMA DictClass ==
  ASSUME DictInv, NamesInv', NEW super \in {NULL} \cup Classes, NewClass(super)
  PROVE  DictInv'
<1>1. Shape /\ CallSound
  BY DEF DictInv, NamesInv
<1>2. /\ Idle' /\ classes' = classes + 1 /\ possible' = possible
      /\ \A o \in DOMAIN memory : o # "superclass" => memory'[o] = memory[o]
  BY <1>1, ClassBegins DEF history
<1>3. memory' = [memory EXCEPT !["superclass"][classes + 1] = super] /\ classes < MaxClasses
  BY DEF NewClass
<1>4. classes \in 0..MaxClasses /\ classes' \in 0..MaxClasses
  BY <1>2, <1>3, Sizes DEF DictInv, ClassTypes
<1>5. \A d \in AllClasses : Super(d)' \in 0..d-1
  <2>1. TAKE d \in AllClasses
  <2>2. Super(d)' = IF d = classes + 1 THEN super ELSE Super(d)
    BY <1>1, <1>3, DictWords DEF Super
  <2>3. super \in 0..classes
    BY <1>4 DEF Classes, NULL
  <2>4. Super(d) \in 0..d-1
    BY DEF DictInv, ClassTypes
  <2> QED BY <1>4, <2>2, <2>3, <2>4
<1>6. memory'["methods"] = memory["methods"] /\ memory'["dictionaries"] = memory["dictionaries"]
  BY <1>1, <1>2, DictWords
<1>7. /\ DOMAIN possible' = AllClasses /\ \A d \in AllClasses : DOMAIN possible'[d] = Selectors
  BY <1>2 DEF DictInv, ClassTypes
<1>8. \A d \in AllClasses, s \in Selectors :
        /\ \A e \in Has(d, s) : MethodAt(d, e) \in possible'[d][s]
        /\ Has(d, s) = {} => NULL \in possible'[d][s]
  BY <1>2 DEF DictInv, Offered
<1>9. ClassTypes' /\ Probing' /\ Offered'
  BY <1>4, <1>5, <1>6, <1>7, <1>8, DictAside
<1> QED BY <1>2, <1>9 DEF DictInv, InstallSound

LEMMA DictNext == ASSUME DictInv, ImageStep PROVE DictInv'
<1>0. Shape /\ CallSound /\ NamesInv /\ NamesInv'
  BY NamesNext DEF DictInv, NamesInv
<1>1. CASE Store /\ UNCHANGED <<interned, methodVars>>
  BY <1>1, DictStore
<1>2. ASSUME NEW super \in {NULL} \cup Classes, NewClass(super) PROVE DictInv'
  BY <1>0, <1>2, DictClass
<1>3. ASSUME NEW c \in Classes, NEW sel \in Known, NEW method, InstallMethod(c, sel, method) PROVE DictInv'
  <2>1. c \in AllClasses /\ sel \in Nat
    BY KnownClasses
  <2> QED BY <1>0, <1>3, <2>1, DictBegin
<1>4. ASSUME NEW site, NEW c, NEW sel, LookupMethodCached(site, c, sel) PROVE DictInv'
  <2>1. memory' = memory /\ call'.op = "lookup" /\ UNCHANGED <<classes, possible>>
    BY <1>0, <1>4, LookupBegins
  <2> QED BY <1>0, <2>1, DictElse
<1>5. ASSUME NEW c, NEW sel, MessageSend(c, sel) PROVE DictInv'
  <2>1. memory' = memory /\ call'.op = "send" /\ UNCHANGED <<classes, possible>>
    BY <1>0, <1>5, SendBegins DEF history
  <2> QED BY <1>0, <2>1, DictElse
<1>6. CASE MethodReturn
  <2>1. memory' = memory /\ call'.op = "return" /\ UNCHANGED <<classes, possible>>
    BY <1>0, <1>6, ReturnBegins DEF methodVars, history
  <2> QED BY <1>0, <2>1, DictElse
<1>7. CASE LookedUp \/ Sent \/ Returned \/ StopCall
  <2>1. memory' = memory /\ Idle'
    BY <1>0, <1>7, OtherSteps DEF MethodEnd
  <2>2. UNCHANGED <<classes, possible>>
    BY <1>7 DEF LookedUp, Sent, Returned, StopCall, methodVars, history
  <2> QED BY <1>0, <2>1, <2>2, DictElse
<1>8. CASE Installed
  BY <1>0, <1>8, DictEnd
<1>9. ASSUME NEW s \in Strings, Interning(s), UNCHANGED methodVars PROVE DictInv'
  <2>1. memory' = memory /\ call'.op = "intern"
    BY <1>0, <1>9, InterningBegins
  <2> QED BY <1>0, <1>9, <2>1, DictElse DEF methodVars, history
<1>10. CASE Interned /\ UNCHANGED methodVars
  <2>1. memory' = memory /\ Idle'
    BY <1>0, <1>10, OtherSteps
  <2> QED BY <1>0, <1>10, <2>1, DictElse DEF methodVars, history
<1>12. CASE Abandon
  <2>1. memory' = memory /\ Idle'
    BY <1>0, <1>12, Abandoning
  <2> QED BY <1>0, <1>12, <2>1, DictElse DEF Abandon, methodVars, history
<1>11. CASE UNCHANGED <<memory, call, interned, methodVars>>
  <2>1. UNCHANGED <<memory, call, classes, possible>>
    BY <1>11 DEF methodVars, history
  <2>2. ClassTypes' /\ Probing' /\ Offered'
    <3>1. \A d \in AllClasses : Super(d)' = Super(d) /\ Dictionary(d)' \in {Dictionary(d), d}
      BY <2>1 DEF Super, Dictionary
    <3>2. \A d, e : InUse(d, e)' = InUse(d, e) /\ KeyOf(d, e)' = KeyOf(d, e) /\ MethodAt(d, e)' = MethodAt(d, e)
      BY <2>1, DictSame
    <3>3. \A d \in AllClasses, s \in Selectors : \A e \in Has(d, s) : MethodAt(d, e)' \in possible[d][s]
      BY <3>2 DEF DictInv, Offered
    <3> QED BY <2>1, <3>1, <3>2, <3>3, DictKept
  <2>3. InstallSound'
    <3>1. CASE Idle \/ call.op # "install"
      BY <2>1, <3>1 DEF InstallSound, Idle
    <3>2. CASE ~Idle /\ call.op = "install"
      <4>1. PICK c, sel, taken, method :
              c = call.subject[1] /\ sel = call.subject[2] /\ taken = call.subject[3] /\ method = call.answer
        OBVIOUS
      <4>2. Installs(c, sel, taken, method)
        BY <3>2, <4>1 DEF DictInv, InstallSound
      <4>3. /\ \A d, e : InUse(d, e)' = InUse(d, e) /\ KeyOf(d, e)' = KeyOf(d, e) /\ MethodAt(d, e)' = MethodAt(d, e)
            /\ \A d, s : Has(d, s)' = Has(d, s) /\ EndFor(d, s)' = EndFor(d, s)
            /\ Dictionary(c)' = Dictionary(c)
        BY <2>1, DictSame DEF Dictionary
      <4>4. taken => Adding(c, sel, method)'
        BY <2>1, <4>2, <4>3, AddingLater DEF Installs, Adding
      <4>5. Installs(c, sel, taken, method)'
        BY <2>1, <4>2, <4>4 DEF Installs, AllClasses, PutDictionary, Put
      <4>6. /\ call'.subject[1] = c /\ call'.subject[2] = sel /\ call'.subject[3] = taken
            /\ call'.answer = method
        BY <2>1, <4>1
      <4> QED BY <2>1, <3>2, <4>5, <4>6 DEF DictInv, InstallSound, Idle
    <3> QED BY <3>1, <3>2
  <2> QED BY <1>0, <2>2, <2>3 DEF DictInv
<1> QED BY <1>1, <1>2, <1>3, <1>4, <1>5, <1>6, <1>7, <1>8, <1>9, <1>10, <1>11, <1>12
     DEF ImageStep, MethodCall, MethodEnd

-----------------------------------------------------------------------------
(***************************************************************************)
(* Lookups.                                                                *)
(***************************************************************************)
Own(c, sel) == IF Dictionary(c) # NULL THEN MethodDictLookup(c, sel) ELSE NULL

\* A class answers itself what it may have.
LEMMA OwnIsPossible ==
  ASSUME DictInv, NEW c \in AllClasses, NEW sel \in Selectors
  PROVE  Own(c, sel) \in possible[c][sel]
<1>1. sel \in Nat /\ Dictionary(c) \in {NULL, c}
  BY Sizes DEF DictInv, ClassTypes
<1>2. /\ \A b \in Has(c, sel) : MethodAt(c, b) \in possible[c][sel]
      /\ Has(c, sel) = {} => NULL \in possible[c][sel]
  BY DEF DictInv, Offered
<1>3. CASE Dictionary(c) = NULL
  <2>1. Has(c, sel) = {}
    BY <1>3 DEF DictInv, Probing, Has, HASH_EMPTY, HASH_OCCUPIED
  <2> QED BY <1>2, <1>3, <2>1 DEF Own
<1>4. CASE Dictionary(c) # NULL
  <2> DEFINE b == EndFor(c, sel)
  <2>1. Own(c, sel) = IF EndsFor(c, sel) = {} \/ InUse(c, b) = HASH_EMPTY THEN NULL ELSE MethodAt(c, b)
    BY <1>1, <1>4 DEF Own, MethodDictLookup, Find, EndsFor, EndFor, InUse, MethodAt
  <2> HIDE DEF b
  <2>2. CASE EndsFor(c, sel) = {}
    BY <1>2, <2>1, <2>2, HasIsEnd
  <2>3. CASE InUse(c, b) = HASH_EMPTY
    <3>1. Has(c, sel) = {}
      BY <1>1, <2>3, FreeEnd DEF b, DictInv, HASH_EMPTY, HASH_OCCUPIED
    <3> QED BY <1>2, <2>1, <2>3, <3>1
  <2>4. CASE EndsFor(c, sel) # {} /\ InUse(c, b) # HASH_EMPTY
    <3>1. b \in EndsFor(c, sel) /\ b \in Places
      BY <1>1, <2>4, EndIsEnd, HasIsEnd DEF b
    <3>2. InUse(c, b) = HASH_OCCUPIED
      BY <2>4, <3>1 DEF DictInv, Probing
    <3>3. b \in Has(c, sel)
      BY <3>1, <3>2, HasIsEnd
    <3> QED BY <1>2, <2>1, <2>4, <3>3
  <2> QED BY <2>2, <2>3, <2>4
<1> QED BY <1>3, <1>4

LEMMA LookupIs ==
  ASSUME DictInv, NEW sel
  PROVE  /\ LookupMethod(NULL, sel) = NULL
         /\ \A c \in AllClasses :
              LookupMethod(c, sel) = IF Own(c, sel) # NULL THEN Own(c, sel) ELSE LookupMethod(Super(c), sel)
<1> DEFINE own(c) == IF Dictionary(c) # NULL THEN MethodDictLookup(c, sel) ELSE NULL
           search[c \in 0..MaxClasses] ==
             IF c = NULL THEN NULL ELSE IF own(c) # NULL THEN own(c) ELSE search[Super(c)]
<1>1. MaxClasses \in Nat /\ \A c \in 1..MaxClasses : Super(c) \in 0..c-1
  BY Sizes DEF DictInv, ClassTypes, AllClasses
<1>2. \E f : f = [c \in 0..MaxClasses |->
                    IF c = NULL THEN NULL ELSE IF own(c) # NULL THEN own(c) ELSE f[Super(c)]]
  <2> HIDE DEF own
  <2> DEFINE V == {NULL} \cup {own(c) : c \in 1..MaxClasses}
             step == [c \in 1..MaxClasses |-> [v \in V |-> IF own(c) # NULL THEN own(c) ELSE v]]
             up == [c \in 1..MaxClasses |-> Super(c)]
  <2>1. NULL \in V /\ step \in [1..MaxClasses -> [V -> V]] /\ \A c \in 1..MaxClasses : up[c] \in 0..c-1
    BY <1>1
  <2>2. \A c \in 1..MaxClasses : up[c] = Super(c) /\ \A v \in V : step[c][v] = IF own(c) # NULL THEN own(c) ELSE v
    OBVIOUS
  <2> HIDE DEF V, step, up
  <2>3. PICK f : Follows(MaxClasses, V, NULL, step, up, f)
    <3>1. Upward(MaxClasses, V, step, up)
      BY <2>1 DEF Upward
    <3> QED BY <1>1, <2>1, <3>1, Recursion, Zenon
  <2>4. \A c \in 1..MaxClasses : f[c] = IF own(c) # NULL THEN own(c) ELSE f[Super(c)]
    <3>1. TAKE c \in 1..MaxClasses
    <3>2. up[c] = Super(c) /\ Super(c) \in 0..MaxClasses
      BY <1>1, <2>2
    <3>3. f[Super(c)] \in V
      BY <2>3, <3>2 DEF Follows
    <3> QED BY <2>2, <2>3, <3>2, <3>3 DEF Follows
  <2>5. \A c \in 0..MaxClasses : c # NULL => c \in 1..MaxClasses
    BY <1>1 DEF NULL
  <2>6. \A c \in 0..MaxClasses :
          f[c] = IF c = NULL THEN NULL ELSE IF own(c) # NULL THEN own(c) ELSE f[Super(c)]
    BY <2>3, <2>4, <2>5 DEF Follows, NULL
  <2>7. f = [c \in 0..MaxClasses |->
               IF c = NULL THEN NULL ELSE IF own(c) # NULL THEN own(c) ELSE f[Super(c)]]
    BY <2>3, <2>6 DEF Follows
  <2> QED BY <2>7
<1>3. search = [c \in 0..MaxClasses |->
                  IF c = NULL THEN NULL ELSE IF own(c) # NULL THEN own(c) ELSE search[Super(c)]]
  BY <1>2, Zenon
<1>4. \A c : LookupMethod(c, sel) = search[c]
  BY Zenon DEF LookupMethod
<1>5. \A c : own(c) = Own(c, sel)
  BY DEF Own
<1> HIDE DEF search, own
<1>6. search[NULL] = NULL
  BY <1>1, <1>3 DEF NULL
<1>7. \A c \in AllClasses : search[c] = IF own(c) # NULL THEN own(c) ELSE search[Super(c)]
  <2>1. TAKE c \in AllClasses
  <2>2. c \in 0..MaxClasses /\ c # NULL
    BY <1>1 DEF AllClasses, NULL
  <2> QED BY <1>3, <2>2
<1> QED BY <1>4, <1>5, <1>6, <1>7

LEMMA NearestIs ==
  ASSUME DictInv, NEW sel
  PROVE  /\ Nearest(NULL, sel) = {NULL}
         /\ \A c \in AllClasses :
              Nearest(c, sel) = (possible[c][sel] \ {NULL})
                                \cup (IF NULL \in possible[c][sel] THEN Nearest(Super(c), sel) ELSE {})
<1> DEFINE from[c \in 0..MaxClasses] ==
             IF c = NULL THEN {NULL}
             ELSE (possible[c][sel] \ {NULL})
                  \cup (IF NULL \in possible[c][sel] THEN from[Super(c)] ELSE {})
<1>1. MaxClasses \in Nat /\ \A c \in 1..MaxClasses : Super(c) \in 0..c-1
  BY Sizes DEF DictInv, ClassTypes, AllClasses
<1>2. \E f : f = [c \in 0..MaxClasses |->
                    IF c = NULL THEN {NULL}
                    ELSE (possible[c][sel] \ {NULL})
                         \cup (IF NULL \in possible[c][sel] THEN f[Super(c)] ELSE {})]
  <2> DEFINE all == {NULL} \cup UNION {possible[c][sel] : c \in 1..MaxClasses}
             V == SUBSET all
             next(c, v) == (possible[c][sel] \ {NULL}) \cup (IF NULL \in possible[c][sel] THEN v ELSE {})
             step == [c \in 1..MaxClasses |-> [v \in V |-> next(c, v)]]
             up == [c \in 1..MaxClasses |-> Super(c)]
  <2>1. {NULL} \in V /\ \A c \in 1..MaxClasses : \A v \in V : next(c, v) \in V
    OBVIOUS
  <2> HIDE DEF V, next
  <2>2. /\ step \in [1..MaxClasses -> [V -> V]] /\ \A c \in 1..MaxClasses : up[c] \in 0..c-1
        /\ \A c \in 1..MaxClasses : up[c] = Super(c) /\ \A v \in V : step[c][v] = next(c, v)
    BY <1>1, <2>1
  <2> HIDE DEF step, up
  <2>3. PICK f : Follows(MaxClasses, V, {NULL}, step, up, f)
    <3>1. Upward(MaxClasses, V, step, up)
      BY <2>2 DEF Upward
    <3> QED BY <1>1, <2>1, <3>1, Recursion, Zenon
  <2>4. \A c \in 1..MaxClasses : f[c] = next(c, f[Super(c)])
    <3>1. TAKE c \in 1..MaxClasses
    <3>2. up[c] = Super(c) /\ Super(c) \in 0..MaxClasses
      BY <1>1, <2>2
    <3>3. f[Super(c)] \in V
      BY <2>3, <3>2 DEF Follows
    <3> QED BY <2>2, <2>3, <3>2, <3>3 DEF Follows
  <2>5. \A c \in 0..MaxClasses : c # NULL => c \in 1..MaxClasses
    BY <1>1 DEF NULL
  <2>6. \A c \in 0..MaxClasses : f[c] = IF c = NULL THEN {NULL} ELSE next(c, f[Super(c)])
    BY <2>3, <2>4, <2>5 DEF Follows, NULL
  <2>7. f = [c \in 0..MaxClasses |-> IF c = NULL THEN {NULL} ELSE next(c, f[Super(c)])]
    BY <2>3, <2>6 DEF Follows
  <2> QED BY <2>7 DEF next
<1>3. from = [c \in 0..MaxClasses |->
                IF c = NULL THEN {NULL}
                ELSE (possible[c][sel] \ {NULL})
                     \cup (IF NULL \in possible[c][sel] THEN from[Super(c)] ELSE {})]
  BY <1>2, Zenon
<1>4. \A c : Nearest(c, sel) = from[c]
  BY Zenon DEF Nearest
<1> HIDE DEF from
<1>5. from[NULL] = {NULL}
  BY <1>1, <1>3 DEF NULL
<1>6. \A c \in AllClasses : from[c] = (possible[c][sel] \ {NULL})
                                      \cup (IF NULL \in possible[c][sel] THEN from[Super(c)] ELSE {})
  <2>1. TAKE c \in AllClasses
  <2>2. c \in 0..MaxClasses /\ c # NULL
    BY <1>1 DEF AllClasses, NULL
  <2> QED BY <1>3, <2>2
<1> QED BY <1>4, <1>5, <1>6

LEMMA NearestAreFound == ASSUME DictInv PROVE LookupFindsNearest
<1> SUFFICES ASSUME DictInv, NEW sel \in Selectors, NEW d \in Classes
             PROVE  LookupMethod(d, sel) \in Nearest(d, sel)
  BY DEF LookupFindsNearest, Classes
<1> DEFINE fails == {c \in 0..MaxClasses : LookupMethod(c, sel) \notin Nearest(c, sel)}
<1>1. fails \in SUBSET Nat /\ d \in 0..MaxClasses
  BY KnownClasses, Sizes DEF AllClasses
<1>2. SUFFICES ASSUME fails # {} PROVE FALSE
  BY <1>1
<1>3. PICK c \in fails : \A e \in fails : c <= e
  <2> HIDE DEF fails
  <2> QED BY <1>1, <1>2, Least
<1>4. c \in 0..MaxClasses /\ LookupMethod(c, sel) \notin Nearest(c, sel)
  OBVIOUS
<1>5. CASE c = NULL
  BY <1>4, <1>5, LookupIs, NearestIs
<1>6. CASE c # NULL
  <2>1. c \in AllClasses
    BY <1>4, <1>6 DEF AllClasses, NULL
  <2>2. PICK up, own : up = Super(c) /\ own = Own(c, sel)
    OBVIOUS
  <2>3. up \in 0..c-1 /\ own \in possible[c][sel]
    BY <2>1, <2>2, OwnIsPossible DEF DictInv, ClassTypes
  <2>4. LookupMethod(up, sel) \in Nearest(up, sel)
    <3>1. up \in 0..MaxClasses /\ ~(c <= up)
      BY <1>4, <2>3, Sizes
    <3> QED BY <1>3, <3>1
  <2>5. LookupMethod(c, sel) = IF own # NULL THEN own ELSE LookupMethod(up, sel)
    BY <2>1, <2>2, LookupIs
  <2>6. Nearest(c, sel) = (possible[c][sel] \ {NULL})
                          \cup (IF NULL \in possible[c][sel] THEN Nearest(up, sel) ELSE {})
    BY <2>1, <2>2, NearestIs
  <2> QED BY <1>4, <2>3, <2>4, <2>5, <2>6
<1> QED BY <1>5, <1>6

\* A lookup answers the method that was installed last in the nearest class that has one,
\* or, as long as an installation goes on or was stopped, perhaps the one before: for any
\* classes, selectors and dictionaries, full ones too (lookup-method of 03-methods.lisp).
THEOREM LookupsFindNearest == RuntimeSpec => []LookupFindsNearest
BY NearestAreFound, DictInit, RuntimeSteps, DictNext, PTL DEF RuntimeSpec

-----------------------------------------------------------------------------
(***************************************************************************)
(* Sends and returns.                                                      *)
(***************************************************************************)
\* What counts in dictionaries is a method.
MethodsKnown ==
  /\ \A c \in AllClasses, b \in Places : InUse(c, b) = HASH_OCCUPIED => MethodAt(c, b) \in Methods
  /\ ~Idle /\ call.op = "install" => call.answer \in Methods

LEMMA LookupIsMethod ==
  ASSUME DictInv, MethodsKnown, NEW d \in AllClasses, NEW sel \in Nat
  PROVE  LookupMethod(d, sel) \in Methods \cup {NULL}
<1>1. \A c \in AllClasses : Own(c, sel) \in Methods \cup {NULL}
  <2>1. TAKE c \in AllClasses
  <2> DEFINE b == EndFor(c, sel)
  <2>2. CASE Dictionary(c) = NULL
    BY <2>2 DEF Own
  <2>3. CASE Dictionary(c) # NULL
    <3>1. Dictionary(c) = c
      BY <2>3 DEF DictInv, ClassTypes
    <3>2. Own(c, sel) = IF EndsFor(c, sel) = {} \/ InUse(c, b) = HASH_EMPTY THEN NULL ELSE MethodAt(c, b)
      BY <3>1, <2>3 DEF Own, MethodDictLookup, Find, EndsFor, EndFor, InUse, MethodAt
    <3>3. EndsFor(c, sel) # {} => b \in Places
      BY EndIsEnd, HasIsEnd
    <3> HIDE DEF b
    <3> QED BY <3>2, <3>3 DEF DictInv, Probing, MethodsKnown
  <2> QED BY <2>2, <2>3
<1> DEFINE fails == {c \in 0..MaxClasses : LookupMethod(c, sel) \notin Methods \cup {NULL}}
<1>2. fails \in SUBSET Nat /\ d \in 0..MaxClasses
  BY Sizes DEF AllClasses
<1>3. SUFFICES ASSUME fails # {} PROVE FALSE
  BY <1>2
<1>4. PICK c \in fails : \A e \in fails : c <= e
  <2> HIDE DEF fails
  <2> QED BY <1>2, <1>3, Least
<1>5. c \in 0..MaxClasses /\ LookupMethod(c, sel) \notin Methods \cup {NULL}
  OBVIOUS
<1>6. CASE c = NULL
  BY <1>5, <1>6, LookupIs
<1>7. CASE c # NULL
  <2>1. c \in AllClasses
    BY <1>5, <1>7 DEF AllClasses, NULL
  <2>2. PICK up : up = Super(c)
    OBVIOUS
  <2>3. up \in 0..MaxClasses /\ ~(c <= up)
    BY <1>5, <2>1, <2>2, Sizes DEF DictInv, ClassTypes
  <2>4. LookupMethod(up, sel) \in Methods \cup {NULL}
    BY <1>4, <2>3
  <2> QED BY <1>1, <1>5, <2>1, <2>2, <2>4, LookupIs
<1> QED BY <1>6, <1>7

LEMMA MethodsInitially == ASSUME RuntimeInit PROVE MethodsKnown
<1>1. DictInv /\ Idle
  BY DictInit DEF RuntimeInit, Idle
<1>2. \A c \in AllClasses : Dictionary(c) = NULL
  <2>1. Shape
    BY <1>1 DEF DictInv, NamesInv
  <2>2. memory["methods"] = Words(MaxClasses + 1)
    BY DEF RuntimeInit, Blank, SelectorObjects, MethodObjects
  <2> QED BY <2>1, <2>2, DictWords DEF Dictionary, Words
<1>3. \A c \in AllClasses, b \in Places : InUse(c, b) # HASH_OCCUPIED
  BY <1>1, <1>2 DEF DictInv, Probing, HASH_EMPTY, HASH_OCCUPIED
<1> QED BY <1>1, <1>3 DEF MethodsKnown

LEMMA MethodsStay ==
  ASSUME MethodsKnown, memory'["dictionaries"] = memory["dictionaries"],
         Idle' \/ call'.op # "install" \/ call'.answer \in Methods
  PROVE  MethodsKnown'
<1>1. \A c, b : InUse(c, b)' = InUse(c, b) /\ MethodAt(c, b)' = MethodAt(c, b)
  BY DictSame
<1> QED BY <1>1 DEF MethodsKnown, AllClasses, Places, HASH_OCCUPIED

\* A store of an installation, into a dictionary: the selector or the method, or that
\* both are there.
Fills(c, sel, method, b, k, value) ==
  /\ k = 0 => value = sel
  /\ k = 1 => value = method
  /\ k = 2 => KeyOf(c, b) = sel /\ MethodAt(c, b) = method
  /\ \A d \in AllClasses, e \in Places :
       /\ KeyOf(d, e)' = IF d = c /\ e = b /\ k = 0 THEN value ELSE KeyOf(d, e)
       /\ MethodAt(d, e)' = IF d = c /\ e = b /\ k = 1 THEN value ELSE MethodAt(d, e)
       /\ InUse(d, e)' = IF d = c /\ e = b /\ k = 2 THEN value ELSE InUse(d, e)

LEMMA InstallPuts ==
  ASSUME DictInv, Store, call.op = "install"
  PROVE  \/ memory'["dictionaries"] = memory["dictionaries"]
         \/ \E c \in AllClasses, b \in Places, k \in 0..2 : \E value :
              Fills(c, call.subject[2], call.answer, b, k, value)
<1> DEFINE put == Head(call.stores)
<1>1. Shape /\ CallSound
  BY DEF DictInv, NamesInv
<1>2. ~Idle /\ call.stores # <<>>
  BY <1>1, Storing
<1>3. PICK c, sel, taken, method :
        c = call.subject[1] /\ sel = call.subject[2] /\ taken = call.subject[3] /\ method = call.answer
  OBVIOUS
<1>4. Installs(c, sel, taken, method) /\ c \in AllClasses
  BY <1>2, <1>3 DEF DictInv, InstallSound, Installs
<1> DEFINE Goal == \E b \in Places, k \in 0..2 : \E value : Fills(c, sel, method, b, k, value)
<1>5. SUFFICES memory'["dictionaries"] = memory["dictionaries"] \/ Goal
  BY <1>3, <1>4
<1>6. ASSUME put = PutDictionary(c) PROVE memory'["dictionaries"] = memory["dictionaries"]
  BY <1>1, <1>4, <1>6, MethodsEffect
<1>7. ASSUME NEW b \in Places, NEW value, NEW k \in 0..2,
             put.object = "dictionaries", put.place = c * METHOD_DICT_HASH_SIZE * 3 + b * 3 + k, put.value = value,
             k = 0 => value = sel, k = 1 => value = method, k = 2 => KeyOf(c, b) = sel /\ MethodAt(c, b) = method
      PROVE  Goal
  <2>1. \A d \in AllClasses, e \in Places :
          /\ KeyOf(d, e)' = IF d = c /\ e = b /\ k = 0 THEN value ELSE KeyOf(d, e)
          /\ MethodAt(d, e)' = IF d = c /\ e = b /\ k = 1 THEN value ELSE MethodAt(d, e)
          /\ InUse(d, e)' = IF d = c /\ e = b /\ k = 2 THEN value ELSE InUse(d, e)
    BY <1>1, <1>4, <1>7, DictEffect
  <2>2. Fills(c, sel, method, b, k, value)
    BY <1>7, <2>1 DEF Fills
  <2> QED BY <2>2
<1> HIDE DEF Goal
<1>8. ASSUME NEW b \in Places, put = PutSelector(c, b, sel) PROVE Goal
  <2>1. put.object = "dictionaries" /\ put.place = c * METHOD_DICT_HASH_SIZE * 3 + b * 3 + 0 /\ put.value = sel
    BY <1>4, <1>8, DictPuts
  <2> HIDE DEF put
  <2> QED BY <1>7, <2>1
<1>9. ASSUME NEW b \in Places, put = PutMethod(c, b, method) PROVE Goal
  <2>1. put.object = "dictionaries" /\ put.place = c * METHOD_DICT_HASH_SIZE * 3 + b * 3 + 1 /\ put.value = method
    BY <1>4, <1>9, DictPuts
  <2> HIDE DEF put
  <2> QED BY <1>7, <2>1
<1>10. ASSUME NEW b \in Places, put = PutInUse(c, b), KeyOf(c, b) = sel, MethodAt(c, b) = method PROVE Goal
  <2>1. /\ put.object = "dictionaries" /\ put.place = c * METHOD_DICT_HASH_SIZE * 3 + b * 3 + 2
        /\ put.value = HASH_OCCUPIED
    BY <1>4, <1>10, DictPuts
  <2> HIDE DEF put
  <2> QED BY <1>7, <1>10, <2>1
<1>11. CASE ~taken
  <2>1. call.stores = <<PutDictionary(c)>>
    BY <1>2, <1>4, <1>11 DEF Installs
  <2>2. put = PutDictionary(c)
    BY <2>1, Tails
  <2> QED BY <1>6, <2>2
<1>12. CASE taken
  <2>1. Adding(c, sel, method)
    BY <1>4, <1>12 DEF Installs
  <2>2. \/ put = PutDictionary(c)
        \/ \E b \in Places : \/ put = PutSelector(c, b, sel) \/ put = PutMethod(c, b, method)
                             \/ put = PutInUse(c, b) /\ KeyOf(c, b) = sel /\ MethodAt(c, b) = method
    <3>0. Has(c, sel) \subseteq Places
      BY DEF Has
    <3>1. CASE \E b \in Has(c, sel) :
                 \/ call.stores = <<PutDictionary(c), PutMethod(c, b, method)>>
                 \/ call.stores = <<PutMethod(c, b, method)>>
      <4>1. PICK b \in Has(c, sel) : \/ call.stores = <<PutDictionary(c), PutMethod(c, b, method)>>
                                     \/ call.stores = <<PutMethod(c, b, method)>>
        BY <3>1
      <4>2. put = PutDictionary(c) \/ put = PutMethod(c, b, method)
        BY <4>1, Tails
      <4> QED BY <3>0, <4>2
    <3>2. ASSUME NEW b \in Places,
                 \/ call.stores = <<PutDictionary(c), PutSelector(c, b, sel), PutMethod(c, b, method), PutInUse(c, b)>>
                 \/ call.stores = <<PutSelector(c, b, sel), PutMethod(c, b, method), PutInUse(c, b)>>
                 \/ call.stores = <<PutMethod(c, b, method), PutInUse(c, b)>>
                 \/ call.stores = <<PutInUse(c, b)>> /\ KeyOf(c, b) = sel /\ MethodAt(c, b) = method
          PROVE  \/ put = PutDictionary(c) \/ put = PutSelector(c, b, sel) \/ put = PutMethod(c, b, method)
                 \/ put = PutInUse(c, b) /\ KeyOf(c, b) = sel /\ MethodAt(c, b) = method
      BY <3>2, Tails
    <3> HIDE DEF put
    <3> QED BY <1>2, <2>1, <3>1, <3>2 DEF Adding
  <2> HIDE DEF put
  <2> QED BY <1>6, <1>8, <1>9, <1>10, <2>2
<1> QED BY <1>11, <1>12

\* A store of another call leaves the dictionaries alone.
LEMMA StoreElsewhere ==
  ASSUME Shape, CallSound, Store, call.op # "install"
  PROVE  memory'["dictionaries"] = memory["dictionaries"]
<1> DEFINE put == Head(call.stores)
<1>1. put.object \in Touched(call.op) /\ call.op \in Operations
      /\ \A o \in DOMAIN memory : o # put.object => memory'[o] = memory[o]
  BY Storing
<1>2. put.object # "dictionaries"
  BY <1>1, Touching DEF Operations, SelectorNames
<1> QED BY <1>1, <1>2, DictWords

LEMMA MethodsStore ==
  ASSUME DictInv, MethodsKnown, Store
  PROVE  MethodsKnown'
<1>1. Shape /\ CallSound
  BY DEF DictInv, NamesInv
<1>2. /\ ~Idle /\ ~Idle'
      /\ call' = [op |-> call.op, subject |-> call.subject, stores |-> Tail(call.stores), answer |-> call.answer]
  BY <1>1, Storing
<1>3. Idle' \/ call'.op # "install" \/ call'.answer \in Methods
  BY <1>2 DEF MethodsKnown
<1>4. CASE memory'["dictionaries"] = memory["dictionaries"]
  BY <1>3, <1>4, MethodsStay
<1>5. CASE call.op = "install"
  <2>1. call.answer \in Methods
    BY <1>2, <1>5 DEF MethodsKnown
  <2>2. ASSUME NEW c \in AllClasses, NEW b \in Places, NEW k \in 0..2, NEW value,
               Fills(c, call.subject[2], call.answer, b, k, value)
        PROVE  MethodsKnown'
    <3>1. ASSUME NEW d \in AllClasses, NEW e \in Places, InUse(d, e)' = HASH_OCCUPIED
          PROVE  MethodAt(d, e)' \in Methods
      <4>1. InUse(d, e) = HASH_OCCUPIED => MethodAt(d, e) \in Methods
        BY DEF MethodsKnown
      <4>2. CASE d = c /\ e = b
        BY <2>1, <2>2, <3>1, <4>1, <4>2 DEF Fills
      <4>3. CASE ~(d = c /\ e = b)
        BY <2>2, <3>1, <4>1, <4>3 DEF Fills
      <4> QED BY <4>2, <4>3
    <3> QED BY <1>3, <3>1 DEF MethodsKnown, AllClasses, Places, HASH_OCCUPIED
  <2> QED BY <1>4, <1>5, <2>2, InstallPuts
<1> QED BY <1>1, <1>4, <1>5, StoreElsewhere

-----------------------------------------------------------------------------
(***************************************************************************)
(* Contexts.                                                               *)
(***************************************************************************)
Contexts == 1..MaxContexts

\* How far a send is: its context is written before it is current.
Sending(k, c, method) ==
  /\ k = contexts /\ k \in Contexts
  /\ \/ call.stores = <<>>
     \/ /\ CurrentContext < k
        /\ \/ call.stores = <<PutContext(k, 0, CurrentContext), PutContext(k, 1, c), PutContext(k, 2, method), PutCurrent(k)>>
           \/ /\ Context(k, 0) = CurrentContext
              /\ \/ call.stores = <<PutContext(k, 1, c), PutContext(k, 2, method), PutCurrent(k)>>
                 \/ call.stores = <<PutContext(k, 2, method), PutCurrent(k)>> /\ Context(k, 1) = c
                 \/ call.stores = <<PutCurrent(k)>> /\ Context(k, 1) = c /\ Context(k, 2) = method

Returning ==
  \/ call.stores = <<>>
  \/ CurrentContext # NULL /\ call.stores = <<PutCurrent(Context(CurrentContext, 0))>>

ContextTypes ==
  /\ contexts \in 0..MaxContexts /\ CurrentContext \in 0..contexts
  /\ \A k \in Contexts : Context(k, 0) \in 0..k-1

ContextInv ==
  /\ Shape /\ CallSound /\ ContextTypes
  /\ ~Idle /\ call.op = "send" => \E c \in AllClasses, method \in Methods : Sending(call.answer, c, method)
  /\ ~Idle /\ call.op = "return" => Returning

LEMMA ContextWords ==
  ASSUME Shape
  PROVE  /\ "contexts" \in DOMAIN memory /\ "current-context" \in DOMAIN memory
         /\ 0 \in DOMAIN memory["current-context"]
         /\ \A k \in Contexts, o \in 0..2 : k * 3 + o \in DOMAIN memory["contexts"]
         /\ \A k, j \in Contexts, o, p \in 0..2 : k * 3 + o = j * 3 + p => k = j /\ o = p
<1>1. MaxContexts \in Nat
  BY Constants
<1> QED BY <1>1 DEF Shape, MethodNames, Contexts

LEMMA ContextEffect ==
  ASSUME Shape, CallSound, Store, NEW k \in Contexts, NEW o \in 0..2, NEW value,
         Head(call.stores) = PutContext(k, o, value)
  PROVE  /\ CurrentContext' = CurrentContext
         /\ \A j \in Contexts, p \in 0..2 : Context(j, p)' = IF j = k /\ p = o THEN value ELSE Context(j, p)
<1> DEFINE put == Head(call.stores)
<1>1. /\ \A x \in DOMAIN memory : \A i \in DOMAIN memory[x] :
           memory'[x][i] = IF put.object = x /\ put.place = i THEN put.value ELSE memory[x][i]
      /\ \A x \in DOMAIN memory : x # put.object => memory'[x] = memory[x]
  BY Storing
<1>2. put.object = "contexts" /\ put.place = k * 3 + o /\ put.value = value
  BY Puts DEF PutContext, CONTEXT_SIZE
<1> HIDE DEF put
<1>3. memory'["current-context"] = memory["current-context"]
  BY <1>1, <1>2, ContextWords
<1>4. \A j \in Contexts, p \in 0..2 :
        memory'["contexts"][j * 3 + p] = IF j = k /\ p = o THEN value ELSE memory["contexts"][j * 3 + p]
  <2>1. TAKE j \in Contexts, p \in 0..2
  <2>2. PICK i : i = j * 3 + p
    OBVIOUS
  <2>3. "contexts" \in DOMAIN memory /\ i \in DOMAIN memory["contexts"]
    BY <2>2, ContextWords
  <2>4. put.place = i <=> j = k /\ p = o
    <3>1. put.place = i => j = k /\ p = o
      BY <1>2, <2>2, ContextWords
    <3> QED BY <1>2, <2>2, <3>1
  <2>5. memory'["contexts"][i] = IF put.place = i THEN put.value ELSE memory["contexts"][i]
    BY <1>1, <1>2, <2>3
  <2> QED BY <1>2, <2>2, <2>4, <2>5
<1> QED BY <1>3, <1>4 DEF CurrentContext, Context, CONTEXT_SIZE

LEMMA CurrentEffect ==
  ASSUME Shape, CallSound, Store, NEW value, Head(call.stores) = PutCurrent(value)
  PROVE  CurrentContext' = value /\ \A j, p : Context(j, p)' = Context(j, p)
<1> DEFINE put == Head(call.stores)
<1>1. /\ \A x \in DOMAIN memory : \A i \in DOMAIN memory[x] :
           memory'[x][i] = IF put.object = x /\ put.place = i THEN put.value ELSE memory[x][i]
      /\ \A x \in DOMAIN memory : x # put.object => memory'[x] = memory[x]
  BY Storing
<1>2. put.object = "current-context" /\ put.place = 0 /\ put.value = value
  BY Puts DEF PutCurrent
<1> HIDE DEF put
<1>3. memory'["contexts"] = memory["contexts"] /\ memory'["current-context"][0] = value
  BY <1>1, <1>2, ContextWords
<1> QED BY <1>3 DEF CurrentContext, Context

\* The chains of activations from every context.
Chains(f) ==
  /\ \E activations : f \in [0..MaxContexts -> Seq(activations)] /\ \A k \in Contexts : ActivationOf(k) \in activations
  /\ f[0] = <<>>
  /\ \A k \in Contexts : f[k] = <<ActivationOf(k)>> \o f[Context(k, 0)]

ChainBy(f) == Chains(f) /\ Chain = f[CurrentContext]

HasChain == \E f : ChainBy(f)

LEMMA ChainIs == ContextInv => HasChain
<1> SUFFICES ASSUME ContextInv PROVE \E f : ChainBy(f)
  BY DEF HasChain
<1> DEFINE from[k \in 0..MaxContexts] ==
             IF k = NULL THEN <<>> ELSE <<ActivationOf(k)>> \o from[Context(k, 0)]
           A == {ActivationOf(k) : k \in Contexts}
           V == Seq(A)
           step == [k \in 1..MaxContexts |-> [v \in V |-> <<ActivationOf(k)>> \o v]]
           up == [k \in 1..MaxContexts |-> Context(k, 0)]
<1>1. MaxContexts \in Nat /\ \A k \in 1..MaxContexts : Context(k, 0) \in 0..k-1
  BY Constants DEF ContextInv, ContextTypes, Contexts
<1>2. /\ <<>> \in V
      /\ \A k \in 1..MaxContexts : ActivationOf(k) \in A
      /\ \A k \in 1..MaxContexts : \A v \in V : <<ActivationOf(k)>> \o v \in V
  <2>1. \A k \in 1..MaxContexts : ActivationOf(k) \in A
    BY DEF Contexts
  <2> HIDE DEF A
  <2> QED BY <2>1
<1> HIDE DEF V, A
<1>3. /\ step \in [1..MaxContexts -> [V -> V]] /\ \A k \in 1..MaxContexts : up[k] \in 0..k-1
      /\ \A k \in 1..MaxContexts : up[k] = Context(k, 0) /\ \A v \in V : step[k][v] = <<ActivationOf(k)>> \o v
  <2> DEFINE longer(k, v) == <<ActivationOf(k)>> \o v
  <2>1. \A k \in 1..MaxContexts : \A v \in V : longer(k, v) \in V
    BY <1>2
  <2>2. step = [k \in 1..MaxContexts |-> [v \in V |-> longer(k, v)]]
    OBVIOUS
  <2> HIDE DEF longer, step
  <2>3. step \in [1..MaxContexts -> [V -> V]] /\ \A k \in 1..MaxContexts : \A v \in V : step[k][v] = longer(k, v)
    BY <2>1, <2>2
  <2> QED BY <1>1, <2>3 DEF longer
<1> HIDE DEF step, up
<1>4. PICK f : Follows(MaxContexts, V, <<>>, step, up, f)
  <2>1. Upward(MaxContexts, V, step, up)
    BY <1>3 DEF Upward
  <2> QED BY <1>1, <1>2, <2>1, Recursion, Zenon
<1>5. f \in [0..MaxContexts -> V] /\ f[0] = <<>>
  BY <1>4 DEF Follows
<1>6. \A k \in 1..MaxContexts : f[k] = <<ActivationOf(k)>> \o f[Context(k, 0)]
  <2>1. TAKE k \in 1..MaxContexts
  <2>2. up[k] = Context(k, 0) /\ Context(k, 0) \in 0..MaxContexts
    <3>1. \A u \in 0..k-1 : u \in 0..MaxContexts
      BY <1>1
    <3> QED BY <1>1, <1>3, <3>1, Zenon
  <2>3. f[Context(k, 0)] \in V
    BY <1>5, <2>2
  <2>4. f[k] = step[k][f[up[k]]]
    BY <1>4 DEF Follows
  <2> QED BY <1>3, <2>2, <2>3, <2>4, Zenon
<1>7. Chains(f)
  BY <1>2, <1>5, <1>6 DEF Chains, V, Contexts
<1>8. from = [k \in 0..MaxContexts |-> IF k = NULL THEN <<>> ELSE <<ActivationOf(k)>> \o from[Context(k, 0)]]
  <2> DEFINE longer(k, v) == <<ActivationOf(k)>> \o v
  <2>1. \A k \in 0..MaxContexts : k # NULL => k \in 1..MaxContexts
    BY <1>1 DEF NULL
  <2>2. \A k \in 1..MaxContexts : f[k] = longer(k, f[Context(k, 0)])
    BY <1>6, Zenon
  <2> HIDE DEF longer
  <2>3. f = [k \in 0..MaxContexts |-> IF k = NULL THEN <<>> ELSE longer(k, f[Context(k, 0)])]
    BY <1>5, <2>1, <2>2 DEF NULL
  <2>4. f = [k \in 0..MaxContexts |-> IF k = NULL THEN <<>> ELSE <<ActivationOf(k)>> \o f[Context(k, 0)]]
    BY <2>3, Zenon DEF longer
  <2> QED BY <2>4, Zenon
<1>9. Chain = from[CurrentContext]
  BY Zenon DEF Chain
<1> HIDE DEF from
<1>10. from[CurrentContext] = f[CurrentContext]
  <2> DEFINE differ == {k \in 0..MaxContexts : from[k] # f[k]}
  <2>0. CurrentContext \in 0..MaxContexts
    BY <1>1 DEF ContextInv, ContextTypes
  <2>1. differ \in SUBSET Nat
    BY <1>1
  <2>2. SUFFICES ASSUME differ # {} PROVE FALSE
    BY <2>0
  <2>3. PICK k \in differ : \A j \in differ : k <= j
    <3> HIDE DEF differ
    <3> QED BY <2>1, <2>2, Least
  <2>4. k \in 0..MaxContexts /\ from[k] # f[k]
    OBVIOUS
  <2>5. CASE k = NULL
    BY <1>5, <1>8, <2>4, <2>5 DEF NULL
  <2>6. CASE k # NULL
    <3>1. k \in 1..MaxContexts
      BY <1>1, <2>4, <2>6 DEF NULL
    <3>2. PICK u : u = Context(k, 0)
      OBVIOUS
    <3>3. u \in 0..MaxContexts /\ ~(k <= u)
      BY <1>1, <3>1, <3>2
    <3>4. from[u] = f[u]
      BY <2>3, <3>3
    <3>5. from[k] = <<ActivationOf(k)>> \o from[u]
      BY <1>8, <2>4, <2>6, <3>2, Zenon
    <3>6. f[k] = <<ActivationOf(k)>> \o f[u]
      BY <1>6, <3>1, <3>2, Zenon
    <3> QED BY <2>4, <3>4, <3>5, <3>6, Zenon
  <2> QED BY <2>5, <2>6
<1> QED BY <1>7, <1>9, <1>10 DEF ChainBy

\* Where contexts stay the same up to some, so do the chains from there.
LEMMA ChainsAgree ==
  ASSUME ContextTypes, NEW f, NEW g, Chains(f), Chains(g)', NEW n \in 0..MaxContexts,
         \A k \in 1..n, o \in 0..2 : Context(k, o)' = Context(k, o)
  PROVE  f[n] = g[n]
<1> DEFINE differ == {k \in 0..n : f[k] # g[k]}
<1>0. MaxContexts \in Nat /\ n \in Nat /\ \A k \in 1..n : k \in Contexts
  BY Constants DEF Contexts
<1>1. differ \in SUBSET Nat /\ n \in 0..n
  BY <1>0
<1>2. SUFFICES ASSUME differ # {} PROVE FALSE
  BY <1>1
<1>3. PICK k \in differ : \A j \in differ : k <= j
  <2> HIDE DEF differ
  <2> QED BY <1>1, <1>2, Least
<1>4. k \in 0..n /\ f[k] # g[k]
  OBVIOUS
<1>5. f[0] = <<>> /\ g[0] = <<>>
  BY DEF Chains
<1>6. CASE k = 0
  BY <1>4, <1>5, <1>6
<1>7. CASE k # 0
  <2>1. k \in 1..n /\ k \in Contexts
    BY <1>0, <1>4, <1>7
  <2>2. PICK u, a : u = Context(k, 0) /\ a = ActivationOf(k)
    OBVIOUS
  <2>3. u \in 0..n /\ ~(k <= u)
    BY <1>0, <2>1, <2>2 DEF ContextTypes
  <2>4. Context(k, 0)' = u /\ ActivationOf(k)' = a
    <3>1. 0 \in 0..2 /\ 1 \in 0..2 /\ 2 \in 0..2
      OBVIOUS
    <3> QED BY <2>1, <2>2, <3>1 DEF ActivationOf
  <2>5. f[u] = g[u]
    BY <1>3, <2>3
  <2>6. f[k] = <<a>> \o f[u]
    BY <2>1, <2>2, Zenon DEF Chains
  <2>7. \A j \in Contexts : g[j] = <<ActivationOf(j)'>> \o g[Context(j, 0)']
    BY DEF Chains, Contexts
  <2>8. g[k] = <<a>> \o g[u]
    BY <2>1, <2>4, <2>7, Zenon
  <2> QED BY <1>4, <2>5, <2>6, <2>8, Zenon
<1> QED BY <1>6, <1>7

LEMMA ChainWillBe == ContextInv' => HasChain'
  BY ChainIs, PTL

LEMMA ChainStays ==
  ASSUME ContextInv, ContextInv', CurrentContext' = CurrentContext,
         \A k \in 1..CurrentContext, o \in 0..2 : Context(k, o)' = Context(k, o)
  PROVE  Chain' = Chain
<1>1. PICK f : ChainBy(f)
  BY ChainIs DEF HasChain
<1>2. HasChain'
  BY ChainWillBe
<1>3. PICK g : ChainBy(g)'
  BY <1>2 DEF HasChain
<1>4. PICK n : n = CurrentContext
  OBVIOUS
<1>5. ContextTypes /\ n \in 0..MaxContexts
  BY <1>4, Constants DEF ContextInv, ContextTypes
<1>6. f[n] = g[n]
  BY <1>1, <1>3, <1>4, <1>5, ChainsAgree DEF ChainBy
<1> QED BY <1>1, <1>3, <1>4, <1>6 DEF ChainBy

LEMMA ChainPushed ==
  ASSUME ContextInv, ContextInv', NEW k \in Contexts, NEW activation, CurrentContext' = k, CurrentContext < k,
         \A j \in Contexts, o \in 0..2 : Context(j, o)' = Context(j, o),
         Context(k, 0) = CurrentContext, ActivationOf(k) = activation
  PROVE  Chain' = <<activation>> \o Chain
<1>1. PICK f : ChainBy(f)
  BY ChainIs DEF HasChain
<1>2. HasChain'
  BY ChainWillBe
<1>3. PICK g : ChainBy(g)'
  BY <1>2 DEF HasChain
<1>4. PICK n : n = CurrentContext
  OBVIOUS
<1>5. ContextTypes /\ n \in 0..MaxContexts /\ \A j \in 1..n : j \in Contexts
  BY <1>4, Constants DEF ContextInv, ContextTypes, Contexts
<1>6. f[n] = g[n]
  BY <1>1, <1>3, <1>5, ChainsAgree DEF ChainBy
<1>7. \A j \in Contexts : g[j] = <<ActivationOf(j)'>> \o g[Context(j, 0)']
  BY <1>3 DEF ChainBy, Chains, Contexts
<1>8. Context(k, 0)' = n /\ ActivationOf(k)' = activation
  <2>1. 0 \in 0..2 /\ 1 \in 0..2 /\ 2 \in 0..2
    OBVIOUS
  <2> QED BY <1>4, <2>1 DEF ActivationOf
<1>9. g[k] = <<activation>> \o g[n]
  BY <1>7, <1>8, Zenon
<1>10. Chain' = g[k] /\ Chain = f[n]
  BY <1>1, <1>3, <1>4 DEF ChainBy
<1> QED BY <1>6, <1>9, <1>10, Zenon

LEMMA ChainPopped ==
  ASSUME ContextInv, ContextInv', CurrentContext # NULL, CurrentContext' = Context(CurrentContext, 0),
         \A j, o : Context(j, o)' = Context(j, o)
  PROVE  Chain # <<>> /\ Chain' = Tail(Chain)
<1>1. PICK f : ChainBy(f)
  BY ChainIs DEF HasChain
<1>2. HasChain'
  BY ChainWillBe
<1>3. PICK g : ChainBy(g)'
  BY <1>2 DEF HasChain
<1>4. PICK k, u, a : k = CurrentContext /\ u = Context(k, 0) /\ a = ActivationOf(k)
  OBVIOUS
<1>5. ContextTypes /\ k \in Contexts /\ u \in 0..MaxContexts
  BY <1>4, Constants DEF ContextInv, ContextTypes, Contexts, NULL
<1>6. f[u] = g[u]
  BY <1>1, <1>3, <1>5, ChainsAgree DEF ChainBy
<1>7. PICK V : f \in [0..MaxContexts -> Seq(V)] /\ \A j \in Contexts : ActivationOf(j) \in V
  BY <1>1 DEF ChainBy, Chains
<1>8. f[u] \in Seq(V) /\ a \in V
  BY <1>4, <1>5, <1>7
<1>9. f[k] = <<a>> \o f[u]
  BY <1>1, <1>4, <1>5, Zenon DEF ChainBy, Chains
<1>10. \A t \in Seq(V) : <<a>> \o t # <<>> /\ Tail(<<a>> \o t) = t
  <2>1. TAKE t \in Seq(V)
  <2> DEFINE r == <<a>> \o t
  <2>2. r \in Seq(V) /\ Len(r) = Len(t) + 1 /\ Len(t) \in Nat /\ \A i \in 1..Len(t) : r[i + 1] = t[i]
    BY <1>8
  <2> HIDE DEF r
  <2>3. r # <<>> /\ Tail(r) \in Seq(V) /\ Len(Tail(r)) = Len(t) /\ \A i \in 1..Len(t) : Tail(r)[i] = t[i]
    BY <2>2
  <2>4. Tail(r) = t
    BY <2>3, SeqEqual
  <2> QED BY <2>3, <2>4 DEF r
<1>11. Chain = f[k] /\ Chain' = g[u]
  BY <1>1, <1>3, <1>4 DEF ChainBy
<1> QED BY <1>6, <1>8, <1>9, <1>10, <1>11, Zenon

\* A step that is none of contexts.
LEMMA ContextAside ==
  ASSUME ContextInv, Shape', CallSound', contexts' = contexts,
         memory'["contexts"] = memory["contexts"], memory'["current-context"] = memory["current-context"],
         Idle' \/ call'.op \notin {"send", "return"}
  PROVE  ContextInv' /\ Chain' = Chain
<1>1. CurrentContext' = CurrentContext /\ \A k, o : Context(k, o)' = Context(k, o)
  BY DEF CurrentContext, Context
<1>2. ContextTypes'
  BY <1>1 DEF ContextInv, ContextTypes, Contexts
<1>3. ContextInv'
  BY <1>2 DEF ContextInv
<1>4. Chain' = Chain
  BY <1>1, <1>3, ChainStays
<1> QED BY <1>3, <1>4

LEMMA SendingLater ==
  ASSUME NEW k \in Contexts, NEW c, NEW method, k = contexts',
         \/ call'.stores = <<>>
         \/ /\ CurrentContext' < k
            /\ \/ call'.stores = SendStores(k, c, method)'
               \/ /\ Context(k, 0)' = CurrentContext'
                  /\ \/ call'.stores = <<PutContext(k, 1, c), PutContext(k, 2, method), PutCurrent(k)>>
                     \/ call'.stores = <<PutContext(k, 2, method), PutCurrent(k)>> /\ Context(k, 1)' = c
                     \/ call'.stores = <<PutCurrent(k)>> /\ Context(k, 1)' = c /\ Context(k, 2)' = method
  PROVE  Sending(k, c, method)'
  BY DEF Sending, SendStores, PutContext, PutCurrent, Put, CONTEXT_SIZE, Contexts

\* What a step of the runtime is to the program that sends and returns.
CallsStep == Chain' = Chain \/ Calls!Next

LEMMA ContextStore ==
  ASSUME ContextInv, Store, UNCHANGED <<interned, methodVars>>
  PROVE  ContextInv' /\ CallsStep
<1> DEFINE put == Head(call.stores)
<1>1. Shape /\ CallSound
  BY DEF ContextInv
<1>2. /\ Shape' /\ CallSound' /\ ~Idle /\ ~Idle' /\ call.stores # <<>>
      /\ put.object \in Touched(call.op) /\ call.op \in Operations
      /\ call' = [op |-> call.op, subject |-> call.subject, stores |-> Tail(call.stores), answer |-> call.answer]
      /\ \A o \in DOMAIN memory : o # put.object => memory'[o] = memory[o]
  BY <1>1, Storing
<1>3. call'.op = call.op /\ call'.answer = call.answer /\ call'.stores = Tail(call.stores)
  BY <1>2
<1>4. contexts' = contexts
  BY DEF methodVars
<1>5. CASE call.op \notin {"send", "return"}
  <2>1. put.object \notin {"contexts", "current-context"}
    BY <1>2, <1>5, Touching DEF Operations, SelectorNames
  <2>2. memory'["contexts"] = memory["contexts"] /\ memory'["current-context"] = memory["current-context"]
    BY <1>1, <1>2, <2>1, ContextWords
  <2> QED BY <1>2, <1>3, <1>4, <1>5, <2>2, ContextAside DEF CallsStep
<1>6. CASE call.op = "send"
  <2>0. PICK k : k = call.answer
    OBVIOUS
  <2>1. PICK c \in AllClasses, method \in Methods : k = call.answer /\ Sending(k, c, method)
    BY <1>2, <1>6, <2>0 DEF ContextInv
  <2>2. /\ k = contexts /\ k \in Contexts /\ CurrentContext < k /\ CurrentContext \in 0..k-1
        /\ contexts \in 0..MaxContexts
    BY <1>2, <2>1, Constants DEF Sending, ContextInv, ContextTypes, Contexts
  <2>3. ASSUME ContextTypes', Sending(k, c, method)' PROVE ContextInv'
    <3>1. (\E d \in AllClasses, m \in Methods : Sending(call.answer, d, m))'
      BY <1>3, <2>1, <2>3 DEF Sending, AllClasses
    <3> QED BY <1>2, <1>3, <1>6, <2>3, <3>1 DEF ContextInv
  <2>4. ASSUME NEW o \in 0..2, NEW value, put = PutContext(k, o, value), o = 0 => value = CurrentContext
        PROVE  /\ ContextTypes' /\ CurrentContext' = CurrentContext
               /\ \A j \in Contexts, p \in 0..2 : Context(j, p)' = IF j = k /\ p = o THEN value ELSE Context(j, p)
    <3>1. /\ CurrentContext' = CurrentContext
          /\ \A j \in Contexts, p \in 0..2 : Context(j, p)' = IF j = k /\ p = o THEN value ELSE Context(j, p)
      BY <1>1, <2>2, <2>4, ContextEffect
    <3>2. 0 \in 0..2
      OBVIOUS
    <3>3. \A j \in Contexts : Context(j, 0)' \in 0..j-1
      BY <2>2, <2>4, <3>1, <3>2 DEF ContextInv, ContextTypes
    <3>4. ContextTypes'
      BY <1>4, <3>1, <3>3 DEF ContextInv, ContextTypes, Contexts
    <3> QED BY <3>1, <3>4
  <2>5. ASSUME ContextInv', CurrentContext' = CurrentContext,
               \A j \in Contexts, p \in 0..2 : j # k => Context(j, p)' = Context(j, p)
        PROVE  Chain' = Chain
    <3>1. \A j \in 1..CurrentContext : j \in Contexts /\ j # k
      BY <2>2, Constants DEF Contexts
    <3> QED BY <2>5, <3>1, ChainStays
  <2>6. PICK n : n = CurrentContext
    OBVIOUS
  <2> DEFINE first == PutContext(k, 0, n)
             second == PutContext(k, 1, c)
             third == PutContext(k, 2, method)
             last == PutCurrent(k)
  <2>7. CASE call.stores = <<first, second, third, last>>
    <3>1. put = first /\ call'.stores = <<second, third, last>>
      BY <1>3, <2>7, Tails
    <3>2. /\ ContextTypes' /\ CurrentContext' = CurrentContext
          /\ \A j \in Contexts, p \in 0..2 : Context(j, p)' = IF j = k /\ p = 0 THEN n ELSE Context(j, p)
      BY <2>4, <2>6, <3>1
    <3>3. Context(k, 0)' = n /\ \A j \in Contexts, p \in 0..2 : j # k => Context(j, p)' = Context(j, p)
      BY <2>2, <3>2
    <3>4. Sending(k, c, method)'
      BY <1>4, <2>2, <2>6, <3>1, <3>2, <3>3, SendingLater
    <3> QED BY <2>3, <2>5, <3>2, <3>3, <3>4 DEF CallsStep
  <2>8. CASE call.stores = <<second, third, last>> /\ Context(k, 0) = n
    <3>1. put = second /\ call'.stores = <<third, last>>
      BY <1>3, <2>8, Tails
    <3>2. /\ ContextTypes' /\ CurrentContext' = CurrentContext
          /\ \A j \in Contexts, p \in 0..2 : Context(j, p)' = IF j = k /\ p = 1 THEN c ELSE Context(j, p)
      BY <2>4, <3>1
    <3>3. /\ Context(k, 0)' = n /\ Context(k, 1)' = c
          /\ \A j \in Contexts, p \in 0..2 : j # k => Context(j, p)' = Context(j, p)
      BY <2>2, <2>8, <3>2
    <3>4. Sending(k, c, method)'
      BY <1>4, <2>2, <2>6, <3>1, <3>2, <3>3, SendingLater
    <3> QED BY <2>3, <2>5, <3>2, <3>3, <3>4 DEF CallsStep
  <2>9. CASE call.stores = <<third, last>> /\ Context(k, 0) = n /\ Context(k, 1) = c
    <3>1. put = third /\ call'.stores = <<last>>
      BY <1>3, <2>9, Tails
    <3>2. /\ ContextTypes' /\ CurrentContext' = CurrentContext
          /\ \A j \in Contexts, p \in 0..2 : Context(j, p)' = IF j = k /\ p = 2 THEN method ELSE Context(j, p)
      BY <2>4, <3>1
    <3>3. /\ Context(k, 0)' = n /\ Context(k, 1)' = c /\ Context(k, 2)' = method
          /\ \A j \in Contexts, p \in 0..2 : j # k => Context(j, p)' = Context(j, p)
      BY <2>2, <2>9, <3>2
    <3>4. Sending(k, c, method)'
      BY <1>4, <2>2, <2>6, <3>1, <3>2, <3>3, SendingLater
    <3> QED BY <2>3, <2>5, <3>2, <3>3, <3>4 DEF CallsStep
  <2>10. CASE call.stores = <<last>> /\ Context(k, 0) = n /\ Context(k, 1) = c /\ Context(k, 2) = method
    <3>1. put = last /\ call'.stores = <<>>
      BY <1>3, <2>10, Tails
    <3>2. CurrentContext' = k /\ \A j, p : Context(j, p)' = Context(j, p)
      BY <1>1, <3>1, CurrentEffect
    <3>3. ContextTypes'
      BY <1>4, <2>2, <3>2, Constants DEF ContextInv, ContextTypes, Contexts
    <3>4. Sending(k, c, method)'
      BY <1>4, <2>2, <3>1, SendingLater
    <3>5. ContextInv'
      BY <2>3, <3>3, <3>4
    <3>6. Chain' = <<<<c, method>>>> \o Chain
      BY <2>2, <2>6, <2>10, <3>2, <3>5, ChainPushed DEF ActivationOf
    <3>7. <<c, method>> \in (1..MaxClasses) \X Methods
      BY <2>1 DEF AllClasses
    <3> QED BY <3>5, <3>6, <3>7 DEF CallsStep, Calls!Next, Calls!Send
  <2> QED
    <3>1. Sending(k, c, method) /\ call.stores # <<>>
      BY <1>2, <2>1
    <3> QED BY <2>6, <2>7, <2>8, <2>9, <2>10, <3>1 DEF Sending
<1>7. CASE call.op = "return"
  <2>1. CurrentContext # NULL /\ call.stores = <<PutCurrent(Context(CurrentContext, 0))>>
    BY <1>2, <1>7 DEF ContextInv, Returning
  <2>2. PICK u : u = Context(CurrentContext, 0)
    OBVIOUS
  <2>3. put = PutCurrent(u) /\ call'.stores = <<>>
    BY <1>3, <2>1, <2>2, Tails
  <2>4. CurrentContext' = u /\ \A j, p : Context(j, p)' = Context(j, p)
    BY <1>1, <2>3, CurrentEffect
  <2>5. u \in 0..contexts
    <3>1. PICK k : k = CurrentContext
      OBVIOUS
    <3>2. k \in Contexts /\ contexts \in 0..MaxContexts /\ k <= contexts
      BY <2>1, <3>1, Constants DEF ContextInv, ContextTypes, Contexts, NULL
    <3>3. u \in 0..k-1
      BY <2>2, <3>1, <3>2 DEF ContextInv, ContextTypes
    <3> QED BY <3>2, <3>3 DEF Contexts
  <2>6. ContextTypes'
    BY <1>4, <2>4, <2>5 DEF ContextInv, ContextTypes, Contexts
  <2>7. ContextInv'
    BY <1>2, <1>3, <1>7, <2>3, <2>6 DEF ContextInv, Returning
  <2>8. Chain # <<>> /\ Chain' = Tail(Chain)
    BY <2>1, <2>2, <2>4, <2>7, ChainPopped
  <2> QED BY <2>7, <2>8 DEF CallsStep, Calls!Next, Calls!Return
<1> QED BY <1>5, <1>6, <1>7

LEMMA SendIsSound ==
  ASSUME ContextInv, DictInv, MethodsKnown, NEW c \in AllClasses, NEW sel \in Nat, MessageSend(c, sel)
  PROVE  ContextInv' /\ CallsStep
<1>1. Shape' /\ CallSound' /\ ~Idle' /\ memory' = memory
  BY SendBegins DEF ContextInv
<1>2. PICK method, k : method = LookupMethod(c, sel) /\ k = contexts + 1
  OBVIOUS
<1>3. /\ method # NULL /\ contexts < MaxContexts /\ contexts' = k
      /\ call' = [op |-> "send", subject |-> <<c, sel>>, stores |-> SendStores(k, c, method), answer |-> k]
  BY <1>2 DEF MessageSend, Begin, Enter
<1>4. method \in Methods
  BY <1>2, <1>3, LookupIsMethod
<1>5. contexts \in 0..MaxContexts /\ CurrentContext \in 0..contexts /\ k \in Contexts /\ CurrentContext < k
  BY <1>2, <1>3, Constants DEF ContextInv, ContextTypes, Contexts
<1>6. CurrentContext' = CurrentContext /\ \A j, o : Context(j, o)' = Context(j, o)
  BY <1>1 DEF CurrentContext, Context
<1>7. ContextTypes'
  BY <1>3, <1>5, <1>6 DEF ContextInv, ContextTypes, Contexts
<1>8. call'.op = "send" /\ call'.stores = SendStores(k, c, method) /\ call'.answer = k
  BY <1>3
<1>9. Sending(k, c, method)'
  <2>1. SendStores(k, c, method)' = SendStores(k, c, method)
    BY <1>6 DEF SendStores, PutContext, PutCurrent, Put, CONTEXT_SIZE
  <2> QED BY <1>3, <1>5, <1>6, <1>8, <2>1, SendingLater
<1>10. ContextInv'
  <2>1. (\E d \in AllClasses, m \in Methods : Sending(call.answer, d, m))'
    BY <1>4, <1>8, <1>9 DEF Sending, AllClasses
  <2> QED BY <1>1, <1>7, <1>8, <2>1 DEF ContextInv
<1>11. Chain' = Chain
  BY <1>5, <1>6, <1>10, ChainStays
<1> QED BY <1>10, <1>11 DEF CallsStep

LEMMA ReturnIsSound ==
  ASSUME ContextInv, MethodReturn
  PROVE  ContextInv' /\ CallsStep
<1>1. Shape' /\ CallSound' /\ ~Idle' /\ memory' = memory /\ UNCHANGED methodVars
  BY ReturnBegins DEF ContextInv
<1>2. /\ CurrentContext # NULL
      /\ call' = [op |-> "return", subject |-> <<>>,
                  stores |-> <<PutCurrent(Context(CurrentContext, 0))>>, answer |-> NULL]
  BY DEF MethodReturn, Begin, Enter
<1>3. CurrentContext' = CurrentContext /\ \A j, o : Context(j, o)' = Context(j, o)
  BY <1>1 DEF CurrentContext, Context
<1>4. ContextTypes'
  BY <1>1, <1>3 DEF ContextInv, ContextTypes, Contexts, methodVars
<1>5. call'.op = "return" /\ call'.stores = <<PutCurrent(Context(CurrentContext, 0))>>
  BY <1>2
<1>6. Returning'
  BY <1>2, <1>3, <1>5 DEF Returning, PutCurrent, Put, NULL
<1>7. ContextInv'
  BY <1>1, <1>4, <1>5, <1>6 DEF ContextInv
<1>8. Chain' = Chain
  BY <1>3, <1>7, ChainStays
<1> QED BY <1>7, <1>8 DEF CallsStep

CallsInv == DictInv /\ MethodsKnown /\ ContextInv

LEMMA CallsInit == ASSUME RuntimeInit PROVE CallsInv /\ Calls!Init
<1>1. DictInv /\ MethodsKnown /\ Shape /\ Idle
  BY DictInit, MethodsInitially DEF DictInv, NamesInv, RuntimeInit, Idle
<1>2. memory["contexts"] = Words((MaxContexts + 1) * 3) /\ memory["current-context"] = Words(1)
  BY DEF RuntimeInit, Blank, SelectorObjects, MethodObjects, CONTEXT_SIZE
<1>3. CurrentContext = 0 /\ \A k \in Contexts : Context(k, 0) = 0
  <2>1. CurrentContext = 0
    BY <1>2 DEF CurrentContext, Words, NULL
  <2>2. \A k \in Contexts : k * 3 + 0 \in 0..(MaxContexts + 1) * 3 - 1
    BY Constants DEF Contexts
  <2> QED BY <1>2, <2>1, <2>2 DEF Context, Words, NULL, CONTEXT_SIZE
<1>4. ContextTypes
  BY <1>3, Constants DEF ContextTypes, RuntimeInit, MethodInit, Contexts
<1>5. ContextInv
  BY <1>1, <1>4 DEF ContextInv, CallSound
<1>6. PICK f : ChainBy(f)
  BY <1>5, ChainIs DEF HasChain
<1>7. Chain = <<>>
  BY <1>3, <1>6 DEF ChainBy, Chains
<1> QED BY <1>1, <1>5, <1>7 DEF CallsInv, Calls!Init

LEMMA CallsNext == ASSUME CallsInv, ImageStep PROVE CallsInv' /\ CallsStep
<1>0. /\ DictInv /\ DictInv' /\ MethodsKnown /\ ContextInv /\ Shape /\ CallSound /\ Shape' /\ CallSound'
  BY DictNext DEF CallsInv, DictInv, NamesInv
<1> SUFFICES MethodsKnown' /\ ContextInv' /\ CallsStep
  BY <1>0 DEF CallsInv
<1>a. ASSUME memory'["dictionaries"] = memory["dictionaries"], memory'["contexts"] = memory["contexts"],
             memory'["current-context"] = memory["current-context"], contexts' = contexts,
             Idle' \/ call'.op \in {"intern", "lookup"} \/ (call'.op = "install" /\ call'.answer \in Methods)
      PROVE  MethodsKnown' /\ ContextInv' /\ CallsStep
  <2>1. /\ Idle' \/ call'.op # "install" \/ call'.answer \in Methods
        /\ Idle' \/ call'.op \notin {"send", "return"}
    BY <1>a
  <2> QED BY <1>0, <1>a, <2>1, MethodsStay, ContextAside DEF CallsStep
<1>1. CASE Store /\ UNCHANGED <<interned, methodVars>>
  BY <1>0, <1>1, MethodsStore, ContextStore
<1>2. ASSUME NEW super \in {NULL} \cup Classes, NewClass(super)
      PROVE  MethodsKnown' /\ ContextInv' /\ CallsStep
  <2>1. /\ Idle' /\ contexts' = contexts
        /\ \A o \in DOMAIN memory : o # "superclass" => memory'[o] = memory[o]
    BY <1>0, <1>2, ClassBegins
  <2>2. /\ memory'["dictionaries"] = memory["dictionaries"] /\ memory'["contexts"] = memory["contexts"]
        /\ memory'["current-context"] = memory["current-context"]
    BY <1>0, <2>1, DictWords, ContextWords
  <2> QED BY <1>a, <2>1, <2>2
<1>3. ASSUME NEW c \in Classes, NEW sel \in Known, NEW method \in Methods, InstallMethod(c, sel, method)
      PROVE  MethodsKnown' /\ ContextInv' /\ CallsStep
  <2>1. memory' = memory /\ call'.op = "install" /\ contexts' = contexts
    BY <1>0, <1>3, InstallBegins
  <2>2. call'.answer = method
    BY <1>3 DEF InstallMethod, Begin, Enter
  <2> QED BY <1>a, <2>1, <2>2
<1>4. ASSUME NEW site, NEW c, NEW sel, LookupMethodCached(site, c, sel)
      PROVE  MethodsKnown' /\ ContextInv' /\ CallsStep
  <2>1. memory' = memory /\ call'.op = "lookup" /\ contexts' = contexts
    BY <1>0, <1>4, LookupBegins
  <2> QED BY <1>a, <2>1
<1>5. ASSUME NEW c \in Classes, NEW sel \in Known, MessageSend(c, sel)
      PROVE  MethodsKnown' /\ ContextInv' /\ CallsStep
  <2>1. c \in AllClasses /\ sel \in Nat
    BY <1>0, KnownClasses
  <2>2. memory' = memory /\ call'.op = "send"
    BY <1>0, <1>5, SendBegins
  <2>3. MethodsKnown'
    BY <1>0, <2>2, MethodsStay
  <2> QED BY <1>0, <1>5, <2>1, <2>3, SendIsSound
<1>6. CASE MethodReturn
  <2>1. memory' = memory /\ call'.op = "return"
    BY <1>0, <1>6, ReturnBegins
  <2>2. MethodsKnown'
    BY <1>0, <2>1, MethodsStay
  <2> QED BY <1>0, <1>6, <2>2, ReturnIsSound
<1>7. CASE MethodEnd \/ StopCall
  <2>1. memory' = memory /\ Idle'
    BY <1>0, <1>7, OtherSteps
  <2>2. contexts' = contexts
    BY <1>7 DEF MethodEnd, Installed, LookedUp, Sent, Returned, StopCall, methodVars
  <2> QED BY <1>a, <2>1, <2>2
<1>8. ASSUME NEW s \in Strings, Interning(s), UNCHANGED methodVars
      PROVE  MethodsKnown' /\ ContextInv' /\ CallsStep
  <2>1. memory' = memory /\ call'.op = "intern"
    BY <1>0, <1>8, InterningBegins
  <2> QED BY <1>8, <1>a, <2>1 DEF methodVars
<1>9. CASE Interned /\ UNCHANGED methodVars
  <2>1. memory' = memory /\ Idle'
    BY <1>0, <1>9, OtherSteps
  <2> QED BY <1>9, <1>a, <2>1 DEF methodVars
<1>11. CASE Abandon
  <2>1. memory' = memory /\ Idle'
    BY <1>0, <1>11, Abandoning
  <2> QED BY <1>11, <1>a, <2>1 DEF Abandon, methodVars
<1>10. CASE UNCHANGED <<memory, call, interned, methodVars>>
  <2>1. UNCHANGED <<memory, call, contexts>>
    BY <1>10 DEF methodVars
  <2>2. CurrentContext' = CurrentContext /\ \A j, o : Context(j, o)' = Context(j, o)
    BY <2>1 DEF CurrentContext, Context
  <2>3. MethodsKnown'
    <3>1. Idle' \/ call'.op # "install" \/ call'.answer \in Methods
      BY <1>0, <2>1 DEF MethodsKnown, Idle
    <3> QED BY <1>0, <2>1, <3>1, MethodsStay
  <2>4. ContextTypes'
    BY <1>0, <2>1, <2>2 DEF ContextInv, ContextTypes, Contexts
  <2>5. ASSUME ~Idle', call'.op = "send"
        PROVE  (\E c \in AllClasses, method \in Methods : Sending(call.answer, c, method))'
    <3>0. ~Idle /\ call.op = "send"
      BY <2>1, <2>5 DEF Idle
    <3>1. PICK k : k = call.answer
      OBVIOUS
    <3>2. PICK c \in AllClasses, method \in Methods : Sending(k, c, method)
      BY <1>0, <3>0, <3>1 DEF ContextInv
    <3>3. SendStores(k, c, method)' = SendStores(k, c, method)
      BY <2>2 DEF SendStores, PutContext, PutCurrent, Put, CONTEXT_SIZE
    <3>4. Sending(k, c, method)'
      BY <2>1, <2>2, <3>2, <3>3, SendingLater DEF Sending, SendStores
    <3> QED BY <2>1, <3>1, <3>4 DEF Sending, AllClasses
  <2>6. ASSUME ~Idle', call'.op = "return" PROVE Returning'
    <3>1. ~Idle /\ call.op = "return"
      BY <2>1, <2>6 DEF Idle
    <3> QED BY <1>0, <2>1, <2>2, <3>1 DEF ContextInv, Returning, PutCurrent, Put, NULL
  <2>7. ContextInv'
    BY <1>0, <2>4, <2>5, <2>6 DEF ContextInv
  <2>8. Chain' = Chain
    BY <1>0, <2>2, <2>7, ChainStays
  <2> QED BY <2>3, <2>7, <2>8 DEF CallsStep
<1> QED BY <1>1, <1>2, <1>3, <1>4, <1>5, <1>6, <1>7, <1>8, <1>9, <1>10, <1>11
     DEF ImageStep, MethodCall

\* Contexts are a call stack: a send begins an activation of the method found, and a
\* return ends the one begun last, for any classes and methods, however many, and
\* wherever executions are stopped (message-send and method-return of 03-methods.lisp).
THEOREM ContextsAreACallStack == RuntimeSpec => ReturnsToSenders
<1>1. CallsInv /\ [RuntimeNext]_runtimeVars => [Calls!Next]_Chain
  BY RuntimeSteps, CallsNext DEF CallsStep
<1>2. RuntimeSpec => []CallsInv
  BY CallsInit, RuntimeSteps, CallsNext, PTL DEF RuntimeSpec
<1> QED BY <1>1, <1>2, CallsInit, PTL DEF RuntimeSpec, ReturnsToSenders, Calls!Spec
-----------------------------------------------------------------------------
(***************************************************************************)
(* Types.                                                                  *)
(***************************************************************************)
\* The selectors in dictionaries are IDs that names have, or have had.
KeysKnown ==
  /\ \A c \in AllClasses, b \in Places : InUse(c, b) = HASH_OCCUPIED => KeyOf(c, b) \in 1..SymbolCount
  /\ ~Idle /\ call.op = "install" => call.subject[2] \in 1..SymbolCount

LEMMA CountGrows ==
  ASSUME NamesInv, ImageStep
  PROVE  SymbolCount \in Nat /\ SymbolCount' \in Nat /\ SymbolCount <= SymbolCount'
<1>1. SymbolCount \in Nat /\ SymbolCount' \in Nat
  BY NamesNext, Constants DEF NamesInv
<1>2. Shape /\ CallSound /\ "symbol-count" \in DOMAIN memory
  BY HashWords DEF NamesInv
<1>3. SUFFICES SymbolCount' = SymbolCount \/ SymbolCount' = SymbolCount + 1
  BY <1>1
<1>4. CASE memory'["symbol-count"] = memory["symbol-count"]
  BY <1>4 DEF SymbolCount
<1>5. CASE Store
  <2> DEFINE put == Head(call.stores)
  <2>1. /\ ~Idle /\ call.stores # <<>> /\ put.object \in Touched(call.op) /\ call.op \in Operations
        /\ \A o \in DOMAIN memory : o # put.object => memory'[o] = memory[o]
    BY <1>2, <1>5, Storing
  <2>2. CASE call.op # "intern"
    <3>1. put.object # "symbol-count"
      BY <2>1, <2>2, Touching DEF Operations, SelectorNames
    <3> QED BY <1>2, <1>4, <2>1, <3>1
  <2>3. CASE call.op = "intern"
    <3>1. PICK s, id : s = call.subject /\ id = call.answer
      OBVIOUS
    <3>2. Counting(s, id) \/ Hashing(s, id)
      BY <2>1, <2>3, <3>1 DEF NamesInv, InternSound
    <3>3. \/ put = PutName(id, s)
          \/ put = PutCount(id) /\ id = SymbolCount + 1
          \/ \E b \in Buckets : put = PutKey(b, s) \/ put = PutValue(b, id) \/ put = PutOccupied(b)
      BY <2>1, <3>2, Tails DEF Counting, Hashing
    <3>4. put.object # "symbol-count" \/ (put = PutCount(id) /\ id = SymbolCount + 1)
      <4> HIDE DEF put
      <4> QED BY <3>3, Puts DEF PutName, PutKey, PutValue, PutOccupied, PutBucket, symbolHash
    <3>5. CASE put.object # "symbol-count"
      BY <1>2, <1>4, <2>1, <3>5
    <3>6. CASE put = PutCount(id) /\ id = SymbolCount + 1
      BY <1>5, <3>6, CountEffect
    <3> QED BY <3>4, <3>5, <3>6
  <2> QED BY <2>2, <2>3
<1>6. ASSUME NEW super, NewClass(super) PROVE memory'["symbol-count"] = memory["symbol-count"]
  BY <1>2, <1>6, ClassBegins
<1>7. CASE memory' = memory
  BY <1>4, <1>7
<1>8. Store \/ (\E super : NewClass(super)) \/ memory' = memory
  <2> USE <1>2
  <2>1. ASSUME NEW s, Interning(s) PROVE memory' = memory
    BY <2>1, InterningBegins
  <2>2. ASSUME MethodCall, ~\E super : NewClass(super) PROVE memory' = memory
    BY <2>2, InstallBegins, LookupBegins, SendBegins, ReturnBegins DEF MethodCall
  <2>3. ASSUME Interned \/ MethodEnd \/ StopCall PROVE memory' = memory
    BY <2>3, OtherSteps
  <2> QED BY <2>1, <2>2, <2>3 DEF ImageStep, Abandon
<1> QED BY <1>4, <1>5, <1>6, <1>7, <1>8

LEMMA KnownSelectors ==
  ASSUME NamesInv, NEW sel \in Known
  PROVE  sel \in 1..SymbolCount
<1>1. PICK pair \in interned : sel = pair[2]
  BY DEF Known
<1> QED BY <1>1 DEF NamesInv, AllNamed, Named

\* Dictionaries that stay, and an installation that goes on, if any.
LEMMA KeysStay ==
  ASSUME KeysKnown, SymbolCount \in Nat, SymbolCount' \in Nat, SymbolCount <= SymbolCount',
         memory'["dictionaries"] = memory["dictionaries"],
         Idle' \/ call'.op # "install" \/ call'.subject[2] \in 1..SymbolCount
  PROVE  KeysKnown'
<1>1. \A c, b : InUse(c, b)' = InUse(c, b) /\ KeyOf(c, b)' = KeyOf(c, b)
  BY DictSame
<1>2. \A id \in 1..SymbolCount : id \in 1..SymbolCount'
  OBVIOUS
<1> QED BY <1>1, <1>2 DEF KeysKnown, AllClasses, Places, HASH_OCCUPIED

LEMMA KeysStore ==
  ASSUME DictInv, KeysKnown, Store, SymbolCount \in Nat, SymbolCount' \in Nat, SymbolCount <= SymbolCount'
  PROVE  KeysKnown'
<1>1. Shape /\ CallSound
  BY DEF DictInv, NamesInv
<1>2. /\ ~Idle /\ ~Idle'
      /\ call' = [op |-> call.op, subject |-> call.subject, stores |-> Tail(call.stores), answer |-> call.answer]
  BY <1>1, Storing
<1>3. call'.op # "install" \/ call'.subject[2] \in 1..SymbolCount
  BY <1>2 DEF KeysKnown
<1>4. CASE memory'["dictionaries"] = memory["dictionaries"]
  BY <1>3, <1>4, KeysStay
<1>5. CASE call.op = "install"
  <2>1. call.subject[2] \in 1..SymbolCount
    BY <1>2, <1>5 DEF KeysKnown
  <2>2. \A id \in 1..SymbolCount : id \in 1..SymbolCount'
    OBVIOUS
  <2>3. ASSUME NEW c \in AllClasses, NEW b \in Places, NEW k \in 0..2, NEW value,
               Fills(c, call.subject[2], call.answer, b, k, value)
        PROVE  KeysKnown'
    <3>1. ASSUME NEW d \in AllClasses, NEW e \in Places, InUse(d, e)' = HASH_OCCUPIED
          PROVE  KeyOf(d, e)' \in 1..SymbolCount
      <4>1. InUse(d, e) = HASH_OCCUPIED => KeyOf(d, e) \in 1..SymbolCount
        BY DEF KeysKnown
      <4>2. CASE d = c /\ e = b
        BY <2>1, <2>3, <3>1, <4>1, <4>2 DEF Fills
      <4>3. CASE ~(d = c /\ e = b)
        BY <2>3, <3>1, <4>1, <4>3 DEF Fills
      <4> QED BY <4>2, <4>3
    <3> QED BY <1>3, <2>2, <3>1 DEF KeysKnown, AllClasses, Places, HASH_OCCUPIED
  <2> QED BY <1>4, <1>5, <2>3, InstallPuts
<1> QED BY <1>1, <1>4, <1>5, StoreElsewhere

TypesInv == CallsInv /\ KeysKnown

LEMMA TypesInit == ASSUME RuntimeInit PROVE TypesInv
<1>1. CallsInv /\ Idle
  BY CallsInit DEF RuntimeInit, Idle
<1>2. \A c \in AllClasses : Dictionary(c) = NULL
  <2>1. Shape
    BY <1>1 DEF CallsInv, DictInv, NamesInv
  <2>2. memory["methods"] = Words(MaxClasses + 1)
    BY DEF RuntimeInit, Blank, SelectorObjects, MethodObjects
  <2> QED BY <2>1, <2>2, DictWords DEF Dictionary, Words
<1>3. \A c \in AllClasses, b \in Places : InUse(c, b) # HASH_OCCUPIED
  BY <1>1, <1>2 DEF CallsInv, DictInv, Probing, HASH_EMPTY, HASH_OCCUPIED
<1> QED BY <1>1, <1>3 DEF TypesInv, KeysKnown

LEMMA TypesNext == ASSUME TypesInv, ImageStep PROVE TypesInv'
<1>0. /\ CallsInv' /\ DictInv /\ NamesInv /\ Shape /\ CallSound /\ KeysKnown
      /\ SymbolCount \in Nat /\ SymbolCount' \in Nat /\ SymbolCount <= SymbolCount'
  BY CallsNext, CountGrows DEF TypesInv, CallsInv, DictInv, NamesInv
<1> SUFFICES KeysKnown'
  BY <1>0 DEF TypesInv
<1>1. CASE Store
  BY <1>0, <1>1, KeysStore
<1>2. ASSUME NEW s, Interning(s) PROVE KeysKnown'
  BY <1>0, <1>2, InterningBegins, KeysStay
<1>3. ASSUME NEW super, NewClass(super) PROVE KeysKnown'
  <2>1. Idle' /\ \A o \in DOMAIN memory : o # "superclass" => memory'[o] = memory[o]
    BY <1>0, <1>3, ClassBegins
  <2>2. memory'["dictionaries"] = memory["dictionaries"]
    BY <1>0, <2>1, DictWords
  <2> QED BY <1>0, <2>1, <2>2, KeysStay
<1>4. ASSUME NEW c, NEW sel \in Known, NEW method, InstallMethod(c, sel, method) PROVE KeysKnown'
  <2>1. memory' = memory
    BY <1>0, <1>4, InstallBegins
  <2>2. call'.subject[2] = sel
    BY <1>4 DEF InstallMethod, Begin, Enter
  <2> QED BY <1>0, <2>1, <2>2, KnownSelectors, KeysStay
<1>5. ASSUME (\E site, c, sel : LookupMethodCached(site, c, sel)) \/ (\E c, sel : MessageSend(c, sel)) \/ MethodReturn
      PROVE  KeysKnown'
  <2>1. memory' = memory /\ call'.op \in {"lookup", "send", "return"}
    BY <1>0, <1>5, LookupBegins, SendBegins, ReturnBegins
  <2> QED BY <1>0, <2>1, KeysStay
<1>6. ASSUME Interned \/ MethodEnd \/ StopCall \/ Abandon PROVE KeysKnown'
  <2>1. memory' = memory /\ Idle'
    BY <1>0, <1>6, OtherSteps, Abandoning
  <2> QED BY <1>0, <2>1, KeysStay
<1>7. CASE UNCHANGED <<memory, call>>
  <2>1. Idle' \/ call'.op # "install" \/ call'.subject[2] \in 1..SymbolCount
    BY <1>0, <1>7 DEF KeysKnown, Idle
  <2> QED BY <1>0, <1>7, <2>1, KeysStay
<1> QED BY <1>1, <1>2, <1>3, <1>4, <1>5, <1>6, <1>7 DEF ImageStep, MethodCall

\* How many calls are made, and stopped
Counts == calls \in 0..MaxCalls /\ stops \in 0..MaxStops

LEMMA TypesAreOK == ASSUME TypesInv, Counts PROVE TypeOK
<1> USE DEF TypesInv, CallsInv, DictInv
<1>1. \A b \in Occupied(symbolHash, SYMBOL_HASH_SIZE) :
        Bucket(symbolHash, b, HASH_VALUE_OFFSET) \in 1..SYMBOL_TABLE_CAPACITY
  <2> SUFFICES ASSUME NEW b \in Occupied(symbolHash, SYMBOL_HASH_SIZE) PROVE Value(b) \in 1..SYMBOL_TABLE_CAPACITY
    BY DEF Value
  <2>1. b \in Buckets /\ Occupation(b) = HASH_OCCUPIED
    BY DEF Occupied, Buckets, Occupation
  <2>2. Value(b) \in 1..SymbolCount /\ SymbolCount \in 0..SYMBOL_TABLE_CAPACITY
    BY <2>1 DEF NamesInv, HashSound, Named
  <2> QED BY <2>2, Constants
<1>2. \A c \in AllClasses : \A b \in Occupied(DictionaryTable(c), METHOD_DICT_HASH_SIZE) :
        KeyOf(c, b) \in 1..SymbolCount /\ MethodAt(c, b) \in Methods
  <2> SUFFICES ASSUME NEW c \in AllClasses, NEW b \in Occupied(DictionaryTable(c), METHOD_DICT_HASH_SIZE)
               PROVE  KeyOf(c, b) \in 1..SymbolCount /\ MethodAt(c, b) \in Methods
    OBVIOUS
  <2>1. b \in Places /\ InUse(c, b) = HASH_OCCUPIED
    BY DEF Occupied, Places, InUse
  <2> QED BY <2>1 DEF KeysKnown, MethodsKnown
<1>3. SymbolCount \in 0..SYMBOL_TABLE_CAPACITY /\ classes \in 0..MaxClasses
      /\ \A c \in AllClasses : Super(c) \in 0..c-1 /\ Dictionary(c) \in {NULL, c}
  BY DEF NamesInv, ClassTypes
<1>4. /\ contexts \in 0..MaxContexts /\ CurrentContext \in 0..contexts
      /\ \A k \in Contexts : Context(k, 0) \in 0..k-1
  BY DEF ContextInv, ContextTypes
<1> QED BY <1>1, <1>2, <1>3, <1>4 DEF TypeOK, Counts, AllClasses, Contexts, KeyOf, MethodAt

LEMMA CountsNext ==
  ASSUME Counts, [RuntimeNext]_runtimeVars
  PROVE  Counts'
<1>1. CASE UNCHANGED <<calls, stops>>
  BY <1>1 DEF Counts
<1>2. CASE calls < MaxCalls /\ calls' = calls + 1 /\ UNCHANGED stops
  BY <1>2, Constants DEF Counts
<1>3. CASE stops < MaxStops /\ stops' = stops + 1 /\ UNCHANGED calls
  BY <1>3, Constants DEF Counts
<1>4. ASSUME NEW s, InternSelector(s)
      PROVE  calls < MaxCalls /\ calls' = calls + 1 /\ UNCHANGED stops
  BY <1>4 DEF InternSelector, CountCall, Interning, Enter
<1>5. ASSUME MethodCall PROVE calls < MaxCalls /\ calls' = calls + 1 /\ UNCHANGED stops
  <2>1. ASSUME NEW super, NewClass(super) PROVE calls < MaxCalls /\ calls' = calls + 1 /\ UNCHANGED stops
    BY <2>1 DEF NewClass
  <2>2. ASSUME NEW op, NEW subject, NEW stores, NEW answer, Begin(op, subject, stores, answer)
        PROVE  calls < MaxCalls /\ calls' = calls + 1 /\ UNCHANGED stops
    BY <2>2 DEF Begin, CountCall, Enter
  <2>3. ASSUME NEW site, NEW c, NEW sel, LookupMethodCached(site, c, sel)
        PROVE  \E op, subject, stores, answer : Begin(op, subject, stores, answer)
    BY <2>3, Zenon DEF LookupMethodCached
  <2> QED BY <1>5, <2>1, <2>2, <2>3 DEF MethodCall, InstallMethod, MessageSend, MethodReturn
<1>6. ASSUME Store \/ Interned \/ MethodEnd \/ UNCHANGED runtimeVars PROVE UNCHANGED <<calls, stops>>
  BY <1>6 DEF Store, Interned, MethodEnd, Installed, LookedUp, Sent, Returned, Returns, runtimeVars, imageVars
<1>7. ASSUME StopCall PROVE stops < MaxStops /\ stops' = stops + 1 /\ UNCHANGED calls
  BY <1>7 DEF StopCall, Stop
<1> QED BY <1>1, <1>2, <1>3, <1>4, <1>5, <1>6, <1>7 DEF RuntimeNext

\* What is in the words of the image, for any strings, classes and bounds, and wherever
\* executions are stopped: IDs within the capacity, superclasses made before, dictionaries
\* of IDs and methods, and contexts sent from older ones (01-symbol-table.lisp to
\* 03-methods.lisp).
THEOREM RuntimeTypes == RuntimeSpec => []TypeOK
<1>1. RuntimeInit => TypesInv /\ Counts
  <2>1. RuntimeInit => Counts
    BY Constants DEF RuntimeInit, Counts
  <2> QED BY <2>1, TypesInit
<1>2. TypesInv /\ Counts /\ [RuntimeNext]_runtimeVars => TypesInv' /\ Counts'
  BY RuntimeSteps, TypesNext, CountsNext
<1>3. TypesInv /\ Counts => TypeOK
  BY TypesAreOK
<1> QED BY <1>1, <1>2, <1>3, PTL DEF RuntimeSpec
=============================================================================
