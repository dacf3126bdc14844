---------------------------- MODULE SelectorTable ----------------------------
(***************************************************************************)
(* 01-symbol-table.lisp: names of selectors and their IDs, from            *)
(* init-symbol-table on.  A name comes as the address of a string.  What   *)
(* the code can tell of a string is its characters and, by mistake, the    *)
(* word behind them: the same characters may be at several addresses.      *)
(***************************************************************************)
EXTENDS Image

CONSTANTS SYMBOL_TABLE_CAPACITY, SYMBOL_HASH_SIZE,
          Strings,        \* the strings that are interned
          Literals,       \* those that expressions intern by themselves
          WholeWords(_),  \* whether the characters fill their last word
          HashString(_)   \* the home bucket of a name

ASSUME SelectorsAssumption ==
  /\ {SYMBOL_TABLE_CAPACITY, SYMBOL_HASH_SIZE} \subseteq Nat \ {0}
  /\ Literals \subseteq Strings
  /\ \A s \in Strings : HashString(s.chars) \in 0..SYMBOL_HASH_SIZE-1

StringOf(chars, behind) == [chars |-> chars, behind |-> behind]

VARIABLE interned   \* history: the strings interned, with the IDs they got

symbolHash == <<"symbol-hash", 0>>

SelectorObjects ==
  [object \in {"symbol-count", "symbol-table", "symbol-hash"} |->
     Words(CASE object = "symbol-count" -> 1
             [] object = "symbol-table" -> SYMBOL_TABLE_CAPACITY
             [] object = "symbol-hash" -> SYMBOL_HASH_SIZE * HASH_BUCKET_SIZE)]

SymbolCount == memory["symbol-count"][0]
SymbolName(id) == memory["symbol-table"][id - 1]
PutName(id, s) == Put("symbol-table", id - 1, s)
PutCount(id) == Put("symbol-count", 0, id)

\* string-equal-addr: as many words as len / 8 + 1, so one too many when the
\* characters fill the last one.
StringEqual(s, t) ==
  s.chars = t.chars /\ (WholeWords(s.chars) => s.behind = t.behind)

EqualTo(s) ==
  {t \in {Bucket(symbolHash, b, HASH_KEY_OFFSET) : b \in Occupied(symbolHash, SYMBOL_HASH_SIZE)} :
     StringEqual(s, t)}
HomeOf(s) == HashString(s.chars)

\* Fault: looks into the home bucket only.
LookupAtHome(s) ==
  IF Bucket(symbolHash, HomeOf(s), HASH_KEY_OFFSET) \in EqualTo(s)
  THEN Bucket(symbolHash, HomeOf(s), HASH_VALUE_OFFSET) ELSE NULL

SymbolHashLookup(s) == Find(symbolHash, SYMBOL_HASH_SIZE, HomeOf(s), EqualTo(s))

\* An insertion compares no keys.
SymbolHashInsert(s, id) == Add(symbolHash, SYMBOL_HASH_SIZE, HomeOf(s), {}, s, id)

\* Fault: the ID is counted when everything is stored.
StoresCountingLast(s, id) ==
  <<PutName(id, s)>> \o SymbolHashInsert(s, id) \o <<PutCount(id)>>

NewSymbol(s, id) ==
  <<PutName(id, s), PutCount(id)>> \o SymbolHashInsert(s, id)

\* Fault: one symbol too many.
HasRoomForOneMore == SymbolCount <= SYMBOL_TABLE_CAPACITY

HasRoom == SymbolCount < SYMBOL_TABLE_CAPACITY

\* A name that is not found when the table is full aborts the program: no step.
Interning(s) ==
  LET found == SymbolHashLookup(s)
      id == SymbolCount + 1
  IN /\ \/ found > 0 /\ Enter("intern", s, <<>>, found)
        \/ found = 0 /\ HasRoom /\ Enter("intern", s, NewSymbol(s, id), id)
     /\ UNCHANGED interned

InternSelector(s) == CountCall /\ Interning(s)

Interned == Returns("intern") /\ interned' = interned \cup {<<call.subject, call.answer>>}

-----------------------------------------------------------------------------
\* An ID stands for one name for ever: no other name gets it, and selector-name leads
\* to the characters that were interned, whatever calls were stopped half-way.
SelectorsNamed ==
  \A pair, other \in interned :
    /\ pair[2] <= SymbolCount /\ SymbolName(pair[2]).chars = pair[1].chars
    /\ pair[2] = other[2] => pair[1].chars = other[1].chars

\* "Maps selector strings to unique IDs for consistent method lookup"
\* (01-symbol-table.lisp:70).
UniqueIDs ==
  \A pair, other \in interned : pair[1].chars = other[1].chars => pair[2] = other[2]

\* What holds of that: a name that does not fill its last word keeps its ID while the
\* hash table, which has room for fewer names than there are IDs, is not full.
UniqueWhileRoom ==
  SymbolCount <= SYMBOL_HASH_SIZE =>
    \A pair, other \in interned :
      pair[1].chars = other[1].chars /\ ~WholeWords(pair[1].chars) =>
        pair[2] = other[2]
=============================================================================
