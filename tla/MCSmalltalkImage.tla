-------------------------- MODULE MCSmalltalkImage ---------------------------
(***************************************************************************)
(* Three names, one of them of eight characters, at two addresses that     *)
(* differ in the word behind it; three hash buckets, so that names collide *)
(* and fill the table.                                                     *)
(***************************************************************************)
EXTENDS SmalltalkImage

\* Texts of every sequence of kinds of words up to this length are compiled.
LongestText == 5

\* Words that differ from their neighbours of the same kind
WordOf(kind, i) ==
  CASE kind = "number" -> <<<<"7">>, <<"1", "0">>>>[(i % 2) + 1]
    [] kind = "identifier" -> <<<<"a">>, <<"b", "2">>, <<"C", "o">>>>[(i % 3) + 1]
    [] kind = "binary" -> <<<<"+">>, <<"*">>, <<"-">>>>[(i % 3) + 1]
    [] kind = "keyword" -> <<<<"x", ":">>, <<"y", "1", ":">>>>[(i % 2) + 1]
    [] kind = "unknown" -> <<"(">>

WordsOf(kinds) == [i \in DOMAIN kinds |-> WordOf(kinds[i], i)]

\* A name needs a blank before another name or a number, and so does a number before a
\* number; behind everything else there may be none.
NeedsBlank(kinds, i) ==
  /\ i < Len(kinds)
  /\ \/ kinds[i] = "identifier" /\ kinds[i + 1] \in {"identifier", "number", "keyword"}
     \/ kinds[i] = "number" /\ kinds[i + 1] = "number"

Tight(kinds) ==
  [words |-> WordsOf(kinds), gaps |-> [i \in DOMAIN kinds |-> IF NeedsBlank(kinds, i) THEN 1 ELSE 0],
   margin |-> 0]
Spaced(kinds) ==
  [words |-> WordsOf(kinds), gaps |-> [i \in DOMAIN kinds |-> IF i < Len(kinds) THEN 1 ELSE 0], margin |-> 0]
Wide(kinds) == [words |-> WordsOf(kinds), gaps |-> [i \in DOMAIN kinds |-> 2], margin |-> 1]

N == "number"  I == "identifier"  B == "binary"  K == "keyword"  U == "unknown"

Kinds == BoundedSeq({N, I, B, K}, LongestText)
         \cup {<<N, I, B, I, I, K, N, B, N>>, <<N, K, N, K, I, B, N, I, B, I>>, <<I, B, N, U, I>>, <<U, N>>,
               <<I, U>>, <<N, B, U, N>>, <<N, K, U>>}

CompiledTexts == {Tight(k) : k \in Kinds} \cup {Spaced(k) : k \in Kinds} \cup {Wide(k) : k \in Kinds}

\* What is compiled between other calls
MixedTexts == {[words |-> <<<<"7">>, <<"s", "i", "z", "e">>>>, gaps |-> <<1, 0>>, margin |-> 0]}

size == <<"s", "i", "z", "e">>
negated == <<"n", "e", "g", "a", "t", "e", "d">>
includes == <<"i", "n", "c", "l", "u", "d", "e", "s">>

InternedLiterals ==
  {StringOf(size, 1), StringOf(negated, 1), StringOf(includes, 0), StringOf(includes, 4)}
InternedStrings == InternedLiterals \cup UNION {SelectorStrings(text) : text \in CompiledTexts \cup MixedTexts}
FullWords(name) == Len(name) % 8 = 0
Hash(name) == (Len(name) + 1) % 3

\* After the bootstrap: two classes, one below the other, two selectors, and a method.
BootstrappedMemory ==
  [Blank EXCEPT !["symbol-count"] = (0 :> 2), !["symbol-table"][0] = StringOf(size, 1),
                !["symbol-table"][1] = StringOf(negated, 1),
                !["symbol-hash"] = (0 :> StringOf(negated, 1) @@ 1 :> 2 @@ 2 :> 1) @@ (3 :> 0 @@ 4 :> 0 @@ 5 :> 0)
                                   @@ (6 :> StringOf(size, 1) @@ 7 :> 1 @@ 8 :> 1),
                !["superclass"][2] = 1, !["methods"][1] = 1,
                !["dictionaries"][Place(DictionaryTable(1), 1, HASH_KEY_OFFSET)] = 1,
                !["dictionaries"][Place(DictionaryTable(1), 1, HASH_VALUE_OFFSET)] = 11,
                !["dictionaries"][Place(DictionaryTable(1), 1, HASH_OCCUPIED_OFFSET)] = HASH_OCCUPIED]

\* This image makes so many calls less than the blank one.
Advance == 2

InitBootstrapped ==
  /\ memory = BootstrappedMemory
  /\ call = NoCall /\ calls = Advance /\ stops = 0
  /\ interned = {<<StringOf(size, 1), 1>>, <<StringOf(negated, 1), 2>>} /\ compilation = NoCompilation
  /\ classes = 2 /\ contexts = 0
  /\ possible = [c \in 1..MaxClasses |->
                   [sel \in Selectors |-> {IF c = 1 /\ sel = 1 THEN 11 ELSE NULL}]]
  /\ found = {} /\ torn = {}

ASSUME CompiledAssumption == \A text \in CompiledTexts : WellWritten(text)

\* An execution that compiles one of the texts in a new image
InitCompiling ==
  /\ memory = Blank /\ call = NoCall /\ calls = MaxCalls /\ stops = 0 /\ interned = {}
  /\ compilation \in {Compilation(text, <<"HALT">>) : text \in CompiledTexts}
  /\ MethodInit

MCSpec == (Init \/ InitBootstrapped \/ InitCompiling) /\ [][Next]_vars
=============================================================================
