--------------------------- MODULE SmalltalkRuntime ---------------------------
(***************************************************************************)
(* The objects of the Smalltalk runtime in use by expressions: selectors   *)
(* are interned, and methods installed, looked up and sent under the IDs   *)
(* that they got.                                                          *)
(***************************************************************************)
EXTENDS SelectorTable, MethodLookup

runtimeVars == <<imageVars, interned, methodVars>>

Known == {pair[2] : pair \in interned}
Classes == 1..classes

TypeOK ==
  /\ SymbolCount \in 0..SYMBOL_TABLE_CAPACITY
  /\ \A b \in Occupied(symbolHash, SYMBOL_HASH_SIZE) :
       Bucket(symbolHash, b, HASH_VALUE_OFFSET) \in 1..SYMBOL_TABLE_CAPACITY
  /\ \A c \in 1..MaxClasses : Super(c) \in 0..c-1 /\ Dictionary(c) \in {NULL, c}
  /\ \A c \in 1..MaxClasses : \A b \in Occupied(DictionaryTable(c), METHOD_DICT_HASH_SIZE) :
       /\ Bucket(DictionaryTable(c), b, HASH_KEY_OFFSET) \in 1..SymbolCount
       /\ Bucket(DictionaryTable(c), b, HASH_VALUE_OFFSET) \in Methods
  /\ \A k \in 1..MaxContexts : Context(k, 0) \in 0..k-1
  /\ CurrentContext \in 0..contexts
  /\ calls \in 0..MaxCalls /\ stops \in 0..MaxStops /\ classes \in 0..MaxClasses /\ contexts \in 0..MaxContexts

\* New objects are filled with NULL.
Blank ==
  [object \in DOMAIN SelectorObjects \cup DOMAIN MethodObjects |->
     IF object \in DOMAIN SelectorObjects THEN SelectorObjects[object] ELSE MethodObjects[object]]

RuntimeInit ==
  /\ memory = Blank /\ call = NoCall /\ calls = 0 /\ stops = 0 /\ interned = {}
  /\ MethodInit

\* The calls that an expression makes itself
MethodCall ==
  \/ \E super \in {NULL} \cup Classes : NewClass(super)
  \/ \E c \in Classes, sel \in Known, method \in Methods : InstallMethod(c, sel, method)
  \/ \E site \in Sites, c \in Classes, sel \in Known : LookupMethodCached(site, c, sel)
  \/ \E c \in Classes, sel \in Known : MessageSend(c, sel)
  \/ MethodReturn

MethodEnd == Installed \/ LookedUp \/ Sent \/ Returned

RuntimeNext ==
  \/ Store /\ UNCHANGED <<interned, methodVars>>
  \/ (\E s \in Literals : InternSelector(s)) /\ UNCHANGED methodVars
  \/ Interned /\ UNCHANGED methodVars
  \/ MethodCall /\ UNCHANGED interned
  \/ MethodEnd /\ UNCHANGED interned
  \/ StopCall /\ UNCHANGED interned

RuntimeSpec == RuntimeInit /\ [][RuntimeNext]_runtimeVars
=============================================================================
