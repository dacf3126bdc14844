------------------------- MODULE ReplSession_proofs -------------------------
(***************************************************************************)
(* Proofs about ReplSession for any expressions, any layout and sessions   *)
(* of any length.                                                          *)
(***************************************************************************)
EXTENDS ReplSession, TLAPS

Units == Submitted \cup Evaluated

\* What is kept lies below the next code address, so loading does not touch it.
KeptBelow ==
  \A u \in kept : units[u].base + Len(units[u].source.funs) < next_code

OuterKept == outer # Idle => outer.unit \in kept

IInv == TypeOK /\ CodeKept /\ KeptBelow /\ OuterKept

-----------------------------------------------------------------------------
(***************************************************************************)
(* Tables.                                                                 *)
(***************************************************************************)
LEMMA Layout ==
  /\ CODE_SIZE \in Nat /\ STRING_TABLE_START \in Nat /\ VAR_START \in Nat
  /\ CODE_SIZE <= STRING_TABLE_START /\ STRING_TABLE_START <= VAR_START
  BY LayoutAssumption

LEMMA Placing ==
  \A base, size \in Nat :
    base + (1 + size) <= CODE_SIZE =>
      /\ base + (1 + size) \in Nat /\ base + (1 + size) = base + 1 + size
      /\ \A w \in 0..size : /\ w \in Nat /\ w <= size /\ base + w \in 0..CODE_SIZE-1
                           /\ (base + w) - base = w /\ base + w < base + (1 + size)
  BY Layout

LEMMA UnitTypes ==
  ASSUME NEW unit \in Units
  PROVE  /\ unit \in Unit
         /\ unit.vars \in Seq(Names) /\ unit.funs \in Seq(Names)
         /\ unit.lets \in Nat /\ unit.strings \in Nat
         /\ Len(unit.vars) \in Nat /\ Len(unit.funs) \in Nat
         /\ DOMAIN unit.funs = 1..Len(unit.funs)
  BY UnitsAssumption DEF Units, Unit

LEMMA Placement ==
  ASSUME NEW names \in Seq(Names), NEW start \in Int
  PROVE  /\ DOMAIN Placed(names, start) = Range(names)
         /\ Range(names) \subseteq Names
         /\ \A n \in Range(names) : \E i \in 1..Len(names) :
              names[i] = n /\ Placed(names, start)[n] = start + i
<1>1. DOMAIN names = 1..Len(names) /\ \A i \in 1..Len(names) : names[i] \in Names
  OBVIOUS
<1>2. ASSUME NEW n \in Range(names)
      PROVE  \E i \in 1..Len(names) : names[i] = n /\ Placed(names, start)[n] = start + i
  <2> DEFINE i == CHOOSE s \in DOMAIN names : n \in Range(names) => names[s] = n
  <2>1. \E s \in DOMAIN names : n \in Range(names) => names[s] = n
    BY DEF Range
  <2>2. i \in DOMAIN names /\ names[i] = n
    BY <2>1
  <2>3. Placed(names, start)[n] = start + i
    BY DEF Placed, AntiFunction, Inverse
  <2> QED BY <1>1, <2>2, <2>3
<1> QED BY <1>1, <1>2 DEF Placed, Range

LEMMA Merging ==
  ASSUME NEW t, NEW o, IsTable(t), IsTable(o)
  PROVE  /\ IsTable(Merge(t, o))
         /\ DOMAIN Merge(t, o) = DOMAIN t \cup DOMAIN o
         /\ \A n \in DOMAIN t \cup DOMAIN o :
              /\ Merge(t, o)[n].kind = IF n \in DOMAIN t THEN t[n].kind ELSE o[n].kind
              /\ Merge(t, o)[n].address = IF n \in DOMAIN o THEN o[n].address ELSE t[n].address
<1>1. /\ DOMAIN t \subseteq Names /\ DOMAIN o \subseteq Names
      /\ \A n \in DOMAIN t : t[n] \in Symbol
      /\ \A n \in DOMAIN o : o[n] \in Symbol
  BY DEF IsTable
<1>2. ASSUME NEW n \in DOMAIN t \cup DOMAIN o
      PROVE  /\ Merge(t, o)[n] \in Symbol
             /\ Merge(t, o)[n].kind = IF n \in DOMAIN t THEN t[n].kind ELSE o[n].kind
             /\ Merge(t, o)[n].address = IF n \in DOMAIN o THEN o[n].address ELSE t[n].address
  <2>1. CASE n \notin DOMAIN t
    BY <1>1, <2>1 DEF Merge
  <2>2. CASE n \in DOMAIN t /\ n \notin DOMAIN o
    BY <1>1, <2>2 DEF Merge
  <2>3. CASE n \in DOMAIN t /\ n \in DOMAIN o
    <3> DEFINE count == IF o[n].kind = "function" THEN o[n].params ELSE t[n].params
    <3>1. Merge(t, o)[n] = [t[n] EXCEPT !.address = o[n].address, !.params = count]
      BY <2>3 DEF Merge
    <3>2. t[n] \in Symbol /\ o[n].address \in Nat /\ count \in Nat
      BY <1>1, <2>3 DEF Symbol
    <3> HIDE DEF count
    <3> QED BY <2>3, <3>1, <3>2 DEF Symbol
  <2> QED BY <2>1, <2>2, <2>3
<1>3. DOMAIN Merge(t, o) = DOMAIN t \cup DOMAIN o
  BY DEF Merge
<1>4. Merge(t, o) \in [DOMAIN Merge(t, o) -> Symbol]
  BY <1>2, <1>3 DEF Merge
<1> QED BY <1>1, <1>2, <1>3, <1>4 DEF IsTable

\* result is the table t with names defined, from start + 1 on.
Extends(result, t, kind, names, start) ==
  /\ IsTable(result)
  /\ DOMAIN result = DOMAIN t \cup Range(names)
  /\ \A n \in DOMAIN t \cup Range(names) :
       /\ result[n].kind = IF n \in DOMAIN t THEN t[n].kind ELSE kind
       /\ result[n].address =
            IF n \in Range(names) THEN Placed(names, start)[n] ELSE t[n].address

LEMMA Defining ==
  ASSUME NEW t, IsTable(t), NEW kind \in Kinds, NEW names \in Seq(Names),
         NEW start \in Int, 0 <= start + 1
  PROVE  Extends(Define(t, kind, Placed(names, start), NoParams(names)), t, kind, names, start)
<1> DEFINE address == Placed(names, start)
<1> DEFINE new == 
      [n \in DOMAIN address |->
         [kind |-> kind, address |-> address[n], params |-> NoParams(names)[n]]]
<1>1. DOMAIN address = Range(names) /\ Range(names) \subseteq Names
  BY Placement
<1>2. ASSUME NEW n \in Range(names) PROVE address[n] \in Nat
  <2>1. PICK i \in 1..Len(names) : names[i] = n /\ address[n] = start + i
    BY Placement
  <2>2. i \in Nat /\ 1 <= i
    OBVIOUS
  <2> QED BY <2>1, <2>2
<1> HIDE DEF address
<1>3. IsTable(new)
  BY <1>1, <1>2 DEF IsTable, Symbol, NoParams
<1>4. Define(t, kind, address, NoParams(names)) = Merge(t, new)
  BY DEF Define
<1>5. DOMAIN new = Range(names)
      /\ \A n \in Range(names) : new[n].kind = kind /\ new[n].address = address[n]
  BY <1>1
<1> HIDE DEF new
<1>6. /\ IsTable(Merge(t, new)) /\ DOMAIN Merge(t, new) = DOMAIN t \cup DOMAIN new
      /\ \A n \in DOMAIN t \cup DOMAIN new :
           /\ Merge(t, new)[n].kind = IF n \in DOMAIN t THEN t[n].kind ELSE new[n].kind
           /\ Merge(t, new)[n].address = IF n \in DOMAIN new THEN new[n].address ELSE t[n].address
  BY <1>3, Merging
<1>7. ASSUME NEW n \in DOMAIN t \cup Range(names)
      PROVE  /\ Define(t, kind, address, NoParams(names))[n].kind = IF n \in DOMAIN t THEN t[n].kind ELSE kind
             /\ Define(t, kind, address, NoParams(names))[n].address =
                  IF n \in Range(names) THEN address[n] ELSE t[n].address
  BY <1>4, <1>5, <1>6
<1>8. IsTable(Define(t, kind, address, NoParams(names)))
      /\ DOMAIN Define(t, kind, address, NoParams(names)) = DOMAIN t \cup Range(names)
  BY <1>4, <1>5, <1>6
<1> QED BY <1>7, <1>8 DEF address, Extends

-----------------------------------------------------------------------------
(***************************************************************************)
(* What a compiler produces, in a state with types.                        *)
(***************************************************************************)
LEMMA CompilerTypes ==
  ASSUME TypeOK, NEW unit \in Units
  PROVE  LET compiler == Compiled(unit) IN
         /\ compiler.unit = NewUnit /\ IsTable(compiler.table)
         /\ {compiler.first_var, compiler.next_var, compiler.next_string} \subseteq Nat
<1>1. next_var \in Nat /\ next_string \in Nat /\ next_code \in Nat /\ IsTable(symbols)
  BY DEF TypeOK
<1> DEFINE variables == Define(symbols, "variable", Placed(unit.vars, next_var - 1), NoParams(unit.vars))
<1>a. /\ next_var - 1 \in Int /\ 0 <= (next_var - 1) + 1 /\ next_code \in Int /\ 0 <= next_code + 1
      /\ {"variable", "function"} \subseteq Kinds
  BY <1>1 DEF Kinds
<1>2. IsTable(variables)
  BY <1>1, <1>a, UnitTypes, Defining DEF Extends
<1> HIDE DEF variables
<1>b. IsTable(Define(variables, "function", Placed(unit.funs, next_code), NoParams(unit.funs)))
  BY <1>2, <1>a, UnitTypes, Defining DEF Extends
<1>3. IsTable(Compiled(unit).table)
  BY <1>b DEF Compiled, variables
<1>4. /\ next_var + Len(unit.vars) + unit.lets \in Nat
      /\ next_string + unit.strings \in Nat
  BY <1>1, UnitTypes
<1> QED BY <1>1, <1>3, <1>4 DEF Compiled

LEMMA Loading ==
  ASSUME TypeOK, NEW unit \in Units, Load(unit)
  PROVE  /\ next_code' \in Nat /\ next_code' <= CODE_SIZE
         /\ next_code' = next_code + 1 + Len(unit.funs)
         /\ code' \in [0..CODE_SIZE-1 -> Word]
         /\ literals' \in [DOMAIN literals' -> Word] /\ DOMAIN literals' \subseteq Nat
         /\ units' \in Seq([source : Units, base : Nat, first_string : Nat, within : Nat])
         /\ DOMAIN units' = DOMAIN units \cup {NewUnit} /\ NewUnit \notin DOMAIN units
         /\ NewUnit \in Nat \ {0}
         /\ \A u \in DOMAIN units : units'[u] = units[u]
         /\ units'[NewUnit] =
              [source |-> unit, base |-> next_code,
               first_string |-> next_string, within |-> outer.unit]
         /\ kept' = kept \cup {NewUnit}
         /\ \A w \in 0..Len(unit.funs) :
              code'[next_code + w] = [unit |-> NewUnit, word |-> w]
         /\ \A a \in 0..CODE_SIZE-1 : a < next_code => code'[a] = code[a]
<1> DEFINE Entry == [source : Units, base : Nat, first_string : Nat, within : Nat]
<1>1. /\ next_code \in Nat /\ next_string \in Nat /\ next_code <= CODE_SIZE
      /\ units \in Seq(Entry) /\ Len(units) \in Nat /\ DOMAIN units = 1..Len(units)
      /\ code \in [0..CODE_SIZE-1 -> Word] /\ DOMAIN literals \subseteq Nat
      /\ literals \in [DOMAIN literals -> Word]
  BY DEF TypeOK, Units
<1>2. Size(unit) = 1 + Len(unit.funs) /\ Len(unit.funs) \in Nat /\ unit.strings \in Nat
  BY UnitTypes DEF Size
<1>3. /\ next_code' = next_code + 1 + Len(unit.funs) /\ next_code' \in Nat
      /\ next_code' <= CODE_SIZE
  <2>1. next_code + Size(unit) <= CODE_SIZE /\ next_code' = next_code + Size(unit)
    BY DEF Load, Fits
  <2>2. Len(unit.funs) \in Nat /\ next_code \in Nat
    BY <1>1, <1>2
  <2>3. next_code' <= CODE_SIZE /\ next_code' = next_code + (1 + Len(unit.funs))
    BY <1>2, <2>1
  <2> QED BY <2>2, <2>3, Placing
<1>4. NewUnit \in Nat \ {0} /\ NewUnit \notin DOMAIN units
  BY <1>1 DEF NewUnit
<1>5. ASSUME NEW a \in 0..CODE_SIZE-1
      PROVE  /\ code'[a] = IF a - next_code \in 0..Len(unit.funs)
                           THEN [unit |-> NewUnit, word |-> a - next_code] ELSE code[a]
             /\ code'[a] \in Word
  <2>1. code'[a] = IF a - next_code \in 0..Len(unit.funs)
                   THEN [unit |-> NewUnit, word |-> a - next_code] ELSE code[a]
    BY DEF Load
  <2>2. code[a] \in Word
    BY <1>1
  <2>3. CASE a - next_code \in 0..Len(unit.funs)
    <3>1. a - next_code \in Nat
      BY <1>1, <1>2, <2>3
    <3> QED BY <1>4, <2>1, <2>3, <3>1 DEF Word
  <2>4. CASE a - next_code \notin 0..Len(unit.funs)
    BY <2>1, <2>2, <2>4
  <2> QED BY <2>1, <2>3, <2>4
<1>6. code' \in [0..CODE_SIZE-1 -> Word]
  BY <1>5 DEF Load
<1>7. ASSUME NEW w \in 0..Len(unit.funs)
      PROVE  code'[next_code + w] = [unit |-> NewUnit, word |-> w]
  <2>1. w \in Nat /\ w <= Len(unit.funs) /\ next_code + w \in 0..CODE_SIZE-1
        /\ (next_code + w) - next_code = w
    <3>1. /\ next_code' = next_code + (1 + Len(unit.funs)) /\ next_code' <= CODE_SIZE
          /\ next_code \in Nat /\ Len(unit.funs) \in Nat
      BY <1>1, <1>2, <1>3 DEF Load
    <3> QED BY <3>1, Placing
  <2> QED BY <1>5, <2>1
<1>8. ASSUME NEW a \in 0..CODE_SIZE-1, a < next_code
      PROVE  code'[a] = code[a]
  <2>1. a - next_code \notin 0..Len(unit.funs)
    BY <1>1, <1>8, Layout
  <2> QED BY <1>5, <2>1
<1>9. literals' \in [DOMAIN literals' -> Word] /\ DOMAIN literals' \subseteq Nat
  <2> DEFINE new == next_string..next_string + unit.strings - 1
  <2>1. DOMAIN literals' = DOMAIN literals \cup new
    BY DEF Load
  <2>2. new \subseteq Nat
    BY <1>1, <1>2
  <2>3. ASSUME NEW a \in DOMAIN literals \cup new
        PROVE  literals'[a] \in Word
    <3>1. a \in Nat
      BY <1>1, <2>2
    <3>2. literals'[a] = IF a >= next_string /\ a < next_string + unit.strings
                         THEN [unit |-> NewUnit, word |-> a - next_string] ELSE literals[a]
      BY DEF Load
    <3>3. CASE a >= next_string /\ a < next_string + unit.strings
      <4>1. a - next_string \in Nat
        BY <1>1, <3>1, <3>3
      <4> QED BY <1>4, <3>2, <3>3, <4>1 DEF Word
    <3>4. CASE ~(a >= next_string /\ a < next_string + unit.strings)
      <4>1. a \notin new
        BY <1>1, <1>2, <3>1, <3>4
      <4> QED BY <1>1, <3>2, <3>4, <4>1
    <3> QED BY <3>3, <3>4
  <2> QED BY <1>1, <2>1, <2>2, <2>3 DEF Load
<1>10. [source |-> unit, base |-> next_code,
               first_string |-> next_string, within |-> outer.unit] \in Entry
  <2>1. outer.unit \in Nat
    BY <1>1 DEF TypeOK, Idle
  <2> QED BY <1>1, <2>1
<1> HIDE DEF Entry
<1>11. /\ units' \in Seq(Entry)
       /\ DOMAIN units' = DOMAIN units \cup {NewUnit}
       /\ \A u \in DOMAIN units : units'[u] = units[u]
       /\ units'[NewUnit] = [source |-> unit, base |-> next_code,
               first_string |-> next_string, within |-> outer.unit]
  BY <1>1, <1>10 DEF Load, NewUnit
<1> QED BY <1>3, <1>4, <1>6, <1>7, <1>8, <1>9, <1>11 DEF Load, Entry

-----------------------------------------------------------------------------
(***************************************************************************)
(* The code of what the session keeps.                                     *)
(***************************************************************************)
LEMMA InitHolds == Init => IInv
<1> SUFFICES ASSUME Init PROVE IInv
  OBVIOUS
<1>1. IsTable(Empty)
  BY DEF Empty, IsTable
<1>2. Nobody \in Word
  BY DEF Nobody, Word
<1>3. TypeOK
  BY <1>1, <1>2, Layout DEF Init, TypeOK
<1> QED BY <1>3 DEF Init, IInv, CodeKept, KeptBelow, OuterKept

\* Loading keeps what was kept, and keeps the new expression.
LEMMA LoadKeeps ==
  ASSUME IInv, NEW unit \in Units, Load(unit)
  PROVE  CodeKept' /\ KeptBelow'
<1>1. TypeOK /\ kept \subseteq DOMAIN units /\ next_code \in Nat /\ next_code <= CODE_SIZE
  BY DEF IInv, TypeOK
<1>2. ASSUME NEW u \in kept'
      PROVE  /\ units'[u].base + Len(units'[u].source.funs) < next_code'
             /\ \A w \in 0..Len(units'[u].source.funs) :
                  code'[units'[u].base + w] = [unit |-> u, word |-> w]
  <2>1. CASE u = NewUnit
    <3>1. units'[u] = [source |-> unit, base |-> next_code,
               first_string |-> next_string, within |-> outer.unit]
      BY <1>1, <2>1, Loading
    <3>2. next_code' = next_code + 1 + Len(unit.funs) /\ Len(unit.funs) \in Nat
      BY <1>1, Loading, UnitTypes
    <3>3. \A w \in 0..Len(unit.funs) : code'[next_code + w] = [unit |-> NewUnit, word |-> w]
      BY <1>1, Loading
    <3> QED BY <1>1, <2>1, <3>1, <3>2, <3>3
  <2>2. CASE u # NewUnit
    <3>1. u \in kept /\ u \in DOMAIN units /\ units'[u] = units[u]
      BY <1>1, <2>2, Loading
    <3>2. units[u].source \in Units /\ units[u].base \in Nat
      <4> DEFINE Entry == [source : Units, base : Nat, first_string : Nat, within : Nat]
      <4>1. units \in Seq(Entry)
        BY <1>1 DEF TypeOK, Units
      <4> HIDE DEF Entry
      <4>2. units[u] \in Entry
        BY <3>1, <4>1
      <4> QED BY <4>2 DEF Entry
    <3>3. Len(units[u].source.funs) \in Nat
      BY <3>2, UnitTypes
    <3>4. /\ units[u].base + Len(units[u].source.funs) < next_code
          /\ \A w \in 0..Len(units[u].source.funs) :
               code[units[u].base + w] = [unit |-> u, word |-> w]
      BY <3>1 DEF IInv, CodeKept, KeptBelow
    <3>5. next_code' = next_code + 1 + Len(unit.funs) /\ Len(unit.funs) \in Nat
      BY <1>1, Loading, UnitTypes
    <3>6. ASSUME NEW w \in 0..Len(units[u].source.funs)
          PROVE  code'[units[u].base + w] = code[units[u].base + w]
      <4> DEFINE base == units[u].base  size == Len(units[u].source.funs)
      <4>a. base \in Nat /\ size \in Nat /\ w \in 0..size /\ base + size < next_code
        BY <3>2, <3>3, <3>4
      <4> HIDE DEF base, size
      <4>b. base + w \in 0..CODE_SIZE-1 /\ base + w < next_code
        BY <1>1, <4>a, Layout
      <4>1. units[u].base + w \in 0..CODE_SIZE-1 /\ units[u].base + w < next_code
        BY <4>b DEF base
      <4> QED BY <1>1, <4>1, Loading
    <3>7. units[u].base + Len(units[u].source.funs) < next_code'
      <4>1. \A base, size, more \in Nat : base + size < next_code => base + size < next_code + 1 + more
        BY <1>1
      <4> QED BY <3>2, <3>3, <3>4, <3>5, <4>1
    <3> QED BY <3>1, <3>4, <3>6, <3>7
  <2> QED BY <2>1, <2>2
<1> QED BY <1>2 DEF CodeKept, KeptBelow

LEMMA SubmitKeeps ==
  ASSUME IInv, NEW unit \in Submitted, Submit(unit)
  PROVE  IInv'
<1>1. unit \in Units /\ Load(unit) /\ TypeOK
  BY DEF Units, Submit, IInv
<1>2. outer' = Compiled(unit)
  BY DEF Submit
<1>3. TypeOK'
  <2>1. /\ outer'.unit = NewUnit /\ IsTable(outer'.table)
        /\ {outer'.first_var, outer'.next_var, outer'.next_string} \subseteq Nat
    BY <1>1, <1>2, CompilerTypes
  <2>2. NewUnit \in DOMAIN units' /\ kept' \subseteq DOMAIN units'
    BY <1>1, Loading DEF TypeOK
  <2>3. /\ next_code' \in Nat /\ next_code' <= CODE_SIZE
        /\ code' \in [0..CODE_SIZE-1 -> Word]
        /\ literals' \in [DOMAIN literals' -> Word] /\ DOMAIN literals' \subseteq Nat
        /\ units' \in Seq([source : Units, base : Nat, first_string : Nat, within : Nat])
    BY <1>1, Loading
  <2>4. IsTable(symbols') /\ next_var' \in Nat /\ next_string' \in Nat
    BY <1>1 DEF TypeOK, Submit
  <2> QED BY <2>1, <2>2, <2>3, <2>4 DEF TypeOK, Units
<1>4. OuterKept'
  BY <1>1, <1>2, CompilerTypes, Loading DEF OuterKept
<1> QED BY <1>1, <1>3, <1>4, LoadKeeps DEF IInv

LEMMA EvalStringKeeps ==
  ASSUME IInv, NEW unit \in Evaluated, EvalString(unit)
  PROVE  IInv'
<1>1. unit \in Units /\ Load(unit) /\ TypeOK /\ outer' = outer
  BY DEF Units, EvalString, IInv
<1>2. TypeOK'
  <2> DEFINE compiler == Compiled(unit)
  <2>1. /\ IsTable(compiler.table)
        /\ compiler.next_var \in Nat /\ compiler.next_string \in Nat
    BY <1>1, CompilerTypes
  <2>2. /\ symbols' = Merge(symbols, compiler.table)
        /\ next_var' = compiler.next_var /\ next_string' = compiler.next_string
    BY DEF EvalString, Update
  <2>3. IsTable(symbols)
    BY <1>1 DEF TypeOK
  <2> HIDE DEF compiler
  <2>4. IsTable(symbols') /\ next_var' \in Nat /\ next_string' \in Nat
    BY <2>1, <2>2, <2>3, Merging
  <2>5. kept' \subseteq DOMAIN units' /\ (outer' # Idle => outer'.unit \in DOMAIN units')
    BY <1>1, Loading DEF TypeOK
  <2> QED BY <1>1, <2>4, <2>5, Loading DEF TypeOK, Units
<1>3. OuterKept'
  BY <1>1, Loading DEF OuterKept, IInv
<1> QED BY <1>1, <1>2, <1>3, LoadKeeps DEF IInv

LEMMA FinishKeeps == IInv /\ Finish => IInv'
<1> SUFFICES ASSUME IInv, Finish PROVE IInv'
  OBVIOUS
<1>1. IsTable(symbols) /\ IsTable(outer.table) /\ outer.next_var \in Nat /\ outer.next_string \in Nat
  BY DEF IInv, TypeOK, Finish
<1>2. IsTable(symbols') /\ next_var' \in Nat /\ next_string' \in Nat
  BY <1>1, Merging DEF Finish, Update
<1>3. TypeOK'
  BY <1>2 DEF IInv, TypeOK, Finish, memoryVars
<1>4. CodeKept' /\ KeptBelow'
  BY DEF IInv, CodeKept, KeptBelow, Finish, memoryVars
<1>5. OuterKept'
  BY DEF OuterKept, Finish
<1> QED BY <1>3, <1>4, <1>5 DEF IInv

LEMMA FailKeeps == IInv /\ Fail => IInv'
<1> SUFFICES ASSUME IInv, Fail PROVE IInv'
  OBVIOUS
<1>1. kept' \subseteq kept /\ outer' = Idle /\ UNCHANGED <<sessionVars, memoryVars, units>>
  BY DEF Fail
<1>2. TypeOK'
  BY <1>1 DEF IInv, TypeOK, memoryVars, sessionVars
<1>3. CodeKept' /\ KeptBelow'
  BY <1>1 DEF IInv, CodeKept, KeptBelow, memoryVars, sessionVars
<1>4. OuterKept'
  BY <1>1 DEF OuterKept
<1> QED BY <1>2, <1>3, <1>4 DEF IInv

LEMMA ResetSessionKeeps == IInv /\ ResetSession => IInv'
<1> SUFFICES ASSUME IInv, ResetSession PROVE IInv'
  OBVIOUS
<1>1. IsTable(Empty)
  BY DEF Empty, IsTable
<1>2. TypeOK'
  BY <1>1, Layout DEF IInv, TypeOK, ResetSession, memoryVars
<1>3. kept' = {} /\ outer' = Idle
  BY DEF ResetSession
<1>4. CodeKept' /\ KeptBelow' /\ OuterKept'
  BY <1>3 DEF CodeKept, KeptBelow, OuterKept
<1> QED BY <1>2, <1>4 DEF IInv

LEMMA StepKeeps == IInv /\ [Next]_vars => IInv'
<1> SUFFICES ASSUME IInv, [Next]_vars PROVE IInv'
  OBVIOUS
<1>1. CASE \E unit \in Submitted : Submit(unit)
  BY <1>1, SubmitKeeps
<1>2. CASE \E unit \in Evaluated : EvalString(unit)
  BY <1>2, EvalStringKeeps
<1>3. CASE Finish
  BY <1>3, FinishKeeps
<1>4. CASE Fail
  BY <1>4, FailKeeps
<1>5. CASE ResetSession
  BY <1>5, ResetSessionKeeps
<1>6. CASE UNCHANGED vars
  BY <1>6 DEF vars, sessionVars, memoryVars, IInv, TypeOK, CodeKept, KeptBelow, OuterKept
<1> QED BY <1>1, <1>2, <1>3, <1>4, <1>5, <1>6 DEF Next

THEOREM Invariance == Spec => []IInv
  BY InitHolds, StepKeeps, PTL DEF Spec

\* Every variable of the session has its type, whatever is submitted and evaluated.
THEOREM SessionTypes == Spec => []TypeOK
<1>1. IInv => TypeOK
  BY DEF IInv
<1> QED BY <1>1, Invariance, PTL

\* However expressions nest, fail and follow one another, the code of each one that
\* the session keeps stays where it was loaded, until a reset.
THEOREM SessionCodeKept == Spec => []CodeKept
<1>1. IInv => CodeKept
  BY DEF IInv
<1> QED BY <1>1, Invariance, PTL

-----------------------------------------------------------------------------
(***************************************************************************)
(* Where functions lead, for sessions in which no name is defined both as  *)
(* a variable and as a function: the table does not enforce it, and a      *)
(* symbol that is defined as both keeps its first kind and takes the       *)
(* other's address.                                                        *)
(***************************************************************************)
KindsApart ==
  \A one, other \in Units : Range(one.vars) \cap Range(other.funs) = {}

VariableNames == UNION {Range(unit.vars) : unit \in Units}
FunctionNames == UNION {Range(unit.funs) : unit \in Units}

Apart(table) ==
  /\ OfKind(table, "variable") \subseteq VariableNames
  /\ OfKind(table, "function") \subseteq FunctionNames

\* address is that of a function f of one of the expressions.
Defines(expressions, f, address) ==
  \E u \in expressions : \E w \in DOMAIN units[u].source.funs :
    units[u].source.funs[w] = f /\ address = units[u].base + w

Resolves(table, expressions) ==
  \A f \in OfKind(table, "function") : Defines(expressions, f, table[f].address)

\* The session's symbols never lead to the expression that runs, which may yet
\* fail; its compiler's may.
TablesResolve ==
  /\ Apart(symbols) /\ Resolves(symbols, kept \ {outer.unit})
  /\ outer # Idle => Apart(outer.table) /\ Resolves(outer.table, kept)

LEMMA MergingApart ==
  ASSUME KindsApart, NEW t, NEW o, IsTable(t), IsTable(o), Apart(t), Apart(o)
  PROVE  /\ Apart(Merge(t, o))
         /\ \A n \in OfKind(Merge(t, o), "function") :
              \/ n \in OfKind(o, "function") /\ Merge(t, o)[n].address = o[n].address
              \/ n \in OfKind(t, "function") /\ Merge(t, o)[n].address = t[n].address
<1> DEFINE m == Merge(t, o)
<1>1. /\ DOMAIN m = DOMAIN t \cup DOMAIN o
      /\ \A n \in DOMAIN t \cup DOMAIN o :
           /\ m[n].kind = IF n \in DOMAIN t THEN t[n].kind ELSE o[n].kind
           /\ m[n].address = IF n \in DOMAIN o THEN o[n].address ELSE t[n].address
  BY Merging
<1>2. VariableNames \cap FunctionNames = {}
  BY DEF KindsApart, VariableNames, FunctionNames
<1>3. \A n \in DOMAIN o : o[n].kind \in {"variable", "function"}
  BY DEF IsTable, Symbol, Kinds
<1> HIDE DEF m
<1>4. Apart(m)
  BY <1>1 DEF Apart, OfKind
<1>5. ASSUME NEW n \in OfKind(m, "function")
      PROVE  \/ n \in OfKind(o, "function") /\ m[n].address = o[n].address
             \/ n \in OfKind(t, "function") /\ m[n].address = t[n].address
  <2>1. n \in DOMAIN m /\ m[n].kind = "function"
    BY DEF OfKind
  <2>2. CASE n \notin DOMAIN o
    BY <1>1, <2>1, <2>2 DEF OfKind
  <2>3. CASE n \in DOMAIN o /\ n \notin DOMAIN t
    BY <1>1, <2>1, <2>3 DEF OfKind
  <2>4. CASE n \in DOMAIN o /\ n \in DOMAIN t
    <3>1. n \in FunctionNames
      BY <1>1, <2>1, <2>4 DEF Apart, OfKind
    <3>2. o[n].kind # "variable"
      BY <1>2, <2>4, <3>1 DEF Apart, OfKind
    <3> QED BY <1>1, <1>3, <2>4, <3>2 DEF OfKind
  <2> QED BY <2>2, <2>3, <2>4
<1> QED BY <1>4, <1>5 DEF m

LEMMA CompilerResolves ==
  ASSUME KindsApart, TypeOK, NEW unit \in Units, Apart(symbols)
  PROVE  /\ Apart(Compiled(unit).table)
         /\ \A f \in OfKind(Compiled(unit).table, "function") :
              \/ \E w \in DOMAIN unit.funs :
                   unit.funs[w] = f /\ Compiled(unit).table[f].address = next_code + w
              \/ /\ f \in OfKind(symbols, "function")
                 /\ Compiled(unit).table[f].address = symbols[f].address
<1> DEFINE variables == Define(symbols, "variable", Placed(unit.vars, next_var - 1), NoParams(unit.vars))
<1> DEFINE table == Define(variables, "function", Placed(unit.funs, next_code), NoParams(unit.funs))
<1>1. /\ next_var - 1 \in Int /\ 0 <= (next_var - 1) + 1 /\ next_code \in Int /\ 0 <= next_code + 1
      /\ "variable" \in Kinds /\ "function" \in Kinds /\ IsTable(symbols)
  BY DEF Kinds, TypeOK
<1>2. Extends(variables, symbols, "variable", unit.vars, next_var - 1)
  BY <1>1, UnitTypes, Defining
<1>3. Compiled(unit).table = table
  BY DEF Compiled
<1> HIDE DEF variables
<1>4. Extends(table, variables, "function", unit.funs, next_code)
  <2>1. IsTable(variables)
    BY <1>2 DEF Extends
  <2> QED BY <1>1, <2>1, UnitTypes, Defining
<1> HIDE DEF table
<1>5. Range(unit.vars) \subseteq VariableNames /\ Range(unit.funs) \subseteq FunctionNames
      /\ VariableNames \cap FunctionNames = {}
  BY DEF KindsApart, VariableNames, FunctionNames
<1>6. Apart(table)
  BY <1>2, <1>4, <1>5 DEF Extends, Apart, OfKind
<1>7. ASSUME NEW f \in OfKind(table, "function")
      PROVE  \/ \E w \in DOMAIN unit.funs :
                  unit.funs[w] = f /\ table[f].address = next_code + w
             \/ f \in OfKind(symbols, "function") /\ table[f].address = symbols[f].address
  <2>1. f \in DOMAIN table /\ table[f].kind = "function" /\ f \in FunctionNames
    BY <1>6 DEF Apart, OfKind
  <2>2. CASE f \in Range(unit.funs)
    <3>1. table[f].address = Placed(unit.funs, next_code)[f]
      BY <1>4, <2>2 DEF Extends
    <3>2. \E w \in 1..Len(unit.funs) :
            unit.funs[w] = f /\ Placed(unit.funs, next_code)[f] = next_code + w
      BY <1>1, <2>2, UnitTypes, Placement
    <3> QED BY <3>1, <3>2, UnitTypes
  <2>3. CASE f \notin Range(unit.funs)
    <3>1. f \notin Range(unit.vars)
      BY <1>5, <2>1
    <3>2. f \in DOMAIN symbols /\ table[f].address = symbols[f].address /\ symbols[f].kind = "function"
      BY <1>2, <1>4, <2>1, <2>3, <3>1 DEF Extends
    <3> QED BY <3>2 DEF OfKind
  <2> QED BY <2>2, <2>3
<1> QED BY <1>3, <1>6, <1>7

\* What an expression defines stays defined when another one is loaded.
LEMMA DefinesKept ==
  ASSUME IInv, NEW unit \in Units, Load(unit), NEW f, NEW address,
         NEW expressions \in SUBSET kept, Defines(expressions, f, address)
  PROVE  Defines(expressions, f, address)'
<1>1. TypeOK /\ kept \subseteq DOMAIN units
  BY DEF IInv, TypeOK
<1>2. \A u \in expressions : units'[u] = units[u]
  BY <1>1, Loading
<1> QED BY <1>2 DEF Defines

LEMMA NewDefines ==
  ASSUME IInv, NEW unit \in Units, Load(unit), NEW w \in DOMAIN unit.funs,
         NEW expressions, NewUnit \in expressions, NEW address, address = next_code + w
  PROVE  Defines(expressions, unit.funs[w], address)'
<1>1. units'[NewUnit] = [source |-> unit, base |-> next_code,
               first_string |-> next_string, within |-> outer.unit]
  BY Loading DEF IInv
<1> QED BY <1>1 DEF Defines

\* Every function of a table that was compiled before a load is defined after it, by
\* what was kept or by the expression that is loaded.
LEMMA LoadedResolves ==
  ASSUME KindsApart, IInv, TablesResolve, NEW unit \in Units, Load(unit),
         NEW f \in OfKind(Compiled(unit).table, "function"),
         NEW address, address = Compiled(unit).table[f].address,
         NEW old, old = kept \ {outer.unit}, NEW all, old \subseteq all, NewUnit \in all
  PROVE  Defines(all, f, address)'
<1>1. TypeOK /\ Apart(symbols) /\ Resolves(symbols, old) /\ old \subseteq kept
  BY DEF IInv, TablesResolve
<1>2. CASE \E w \in DOMAIN unit.funs : unit.funs[w] = f /\ address = next_code + w
  BY <1>2, NewDefines
<1>3. CASE f \in OfKind(symbols, "function") /\ address = symbols[f].address
  <2>1. Defines(old, f, address)
    BY <1>1, <1>3 DEF Resolves
  <2>2. Defines(old, f, address)'
    BY <1>1, <2>1, DefinesKept
  <2> QED BY <2>2 DEF Defines
<1> QED BY <1>1, <1>2, <1>3, CompilerResolves

LEMMA SubmitResolves ==
  ASSUME KindsApart, IInv, TablesResolve, NEW unit \in Submitted, Submit(unit)
  PROVE  TablesResolve'
<1>1. unit \in Units /\ Load(unit) /\ TypeOK /\ outer = Idle
  BY DEF Units, Submit, IInv
<1>2. symbols' = symbols /\ outer' = Compiled(unit) /\ outer'.unit = NewUnit
  BY <1>1, CompilerTypes DEF Submit
<1>3. kept' = kept \cup {NewUnit} /\ NewUnit \notin kept /\ 0 \notin kept
  <2>1. kept \subseteq DOMAIN units /\ DOMAIN units = 1..Len(units) /\ Len(units) \in Nat
    BY <1>1 DEF TypeOK
  <2>2. kept' = kept \cup {NewUnit} /\ NewUnit \notin DOMAIN units
    BY <1>1, Loading
  <2> QED BY <2>1, <2>2
<1>4. kept \ {outer.unit} = kept /\ kept' \ {outer'.unit} = kept
  BY <1>1, <1>2, <1>3 DEF Idle
<1>5. Apart(symbols) /\ Resolves(symbols, kept)
  BY <1>4 DEF TablesResolve
<1>6. PICK old, all : old = kept /\ all = kept'
  OBVIOUS
<1>7. Resolves(symbols, kept \ {outer.unit})'
  <2>1. ASSUME NEW f \in OfKind(symbols, "function"), NEW address, address = symbols[f].address
        PROVE  Defines(old, f, address)'
    <3>1. Defines(old, f, address)
      BY <1>5, <1>6, <2>1 DEF Resolves
    <3> QED BY <1>1, <1>6, <3>1, DefinesKept
  <2> QED BY <1>2, <1>4, <1>6, <2>1 DEF Resolves, Defines, OfKind
<1>8. Resolves(outer.table, kept)'
  <2>1. ASSUME NEW f \in OfKind(Compiled(unit).table, "function"),
               NEW address, address = Compiled(unit).table[f].address
        PROVE  Defines(all, f, address)'
    <3>1. old = kept \ {outer.unit} /\ old \subseteq all /\ NewUnit \in all
      BY <1>3, <1>4, <1>6
    <3> QED BY <1>1, <2>1, <3>1, LoadedResolves
  <2> QED BY <1>2, <1>6, <2>1 DEF Resolves, Defines, OfKind
<1>9. Apart(symbols)' /\ Apart(outer.table)'
  BY <1>1, <1>2, <1>5, CompilerResolves DEF Apart, OfKind
<1> QED BY <1>7, <1>8, <1>9 DEF TablesResolve

LEMMA EvalStringResolves ==
  ASSUME KindsApart, IInv, TablesResolve, NEW unit \in Evaluated, EvalString(unit)
  PROVE  TablesResolve'
<1>1. unit \in Units /\ Load(unit) /\ TypeOK /\ outer # Idle /\ outer' = outer
  BY DEF Units, EvalString, IInv
<1>2. PICK table : table = Compiled(unit).table
  OBVIOUS
<1>3. symbols' = Merge(symbols, table) /\ IsTable(table) /\ Apart(table)
      /\ IsTable(symbols) /\ Apart(symbols) /\ Apart(outer.table)
  BY <1>1, <1>2, CompilerTypes, CompilerResolves DEF EvalString, Update, TypeOK, TablesResolve
<1>4. kept' = kept \cup {NewUnit} /\ outer.unit # NewUnit
  BY <1>1, Loading DEF TypeOK
<1>5. PICK old, before, all, rest :
        /\ old = kept \ {outer.unit} /\ before = kept
        /\ all = kept' /\ rest = kept' \ {outer'.unit}
  OBVIOUS
<1>6. Apart(symbols')
      /\ \A n \in OfKind(symbols', "function") :
           \/ n \in OfKind(table, "function") /\ symbols'[n].address = table[n].address
           \/ n \in OfKind(symbols, "function") /\ symbols'[n].address = symbols[n].address
  BY <1>3, MergingApart
<1>7. ASSUME NEW f \in OfKind(symbols', "function"), NEW address, address = symbols'[f].address
      PROVE  Defines(rest, f, address)'
  <2>1. old \subseteq rest /\ NewUnit \in rest
    BY <1>1, <1>4, <1>5
  <2>2. CASE f \in OfKind(table, "function") /\ address = table[f].address
    BY <1>1, <1>2, <1>5, <2>1, <2>2, LoadedResolves
  <2>3. CASE f \in OfKind(symbols, "function") /\ address = symbols[f].address
    <3>1. Defines(old, f, address)
      BY <1>5, <2>3 DEF TablesResolve, Resolves
    <3>2. Defines(old, f, address)'
      BY <1>1, <1>5, <3>1, DefinesKept
    <3> QED BY <2>1, <3>2 DEF Defines
  <2> QED BY <1>6, <1>7, <2>2, <2>3
<1>8. ASSUME NEW f \in OfKind(outer.table, "function"), NEW address, address = outer.table[f].address
      PROVE  Defines(all, f, address)'
  <2>1. Defines(before, f, address)
    BY <1>1, <1>5, <1>8 DEF TablesResolve, Resolves
  <2>2. Defines(before, f, address)'
    BY <1>1, <1>5, <2>1, DefinesKept
  <2> QED BY <1>4, <1>5, <2>2 DEF Defines
<1>9. Resolves(symbols, kept \ {outer.unit})' /\ Resolves(outer.table, kept)'
  BY <1>1, <1>5, <1>7, <1>8 DEF Resolves, Defines, OfKind
<1>10. Apart(symbols)' /\ Apart(outer.table)'
  BY <1>1, <1>3, <1>6 DEF Apart, OfKind
<1> QED BY <1>9, <1>10 DEF TablesResolve

LEMMA FinishResolves == KindsApart /\ IInv /\ TablesResolve /\ Finish => TablesResolve'
<1> SUFFICES ASSUME KindsApart, IInv, TablesResolve, Finish PROVE TablesResolve'
  OBVIOUS
<1>1. /\ IsTable(symbols) /\ IsTable(outer.table) /\ Apart(symbols) /\ Apart(outer.table)
      /\ symbols' = Merge(symbols, outer.table) /\ outer' = Idle
      /\ kept' = kept /\ units' = units
  BY DEF IInv, TypeOK, TablesResolve, Finish, Update
<1>2. 0 \notin kept
  BY DEF IInv, TypeOK
<1>3. Apart(symbols')
      /\ \A n \in OfKind(symbols', "function") :
           \/ n \in OfKind(outer.table, "function") /\ symbols'[n].address = outer.table[n].address
           \/ n \in OfKind(symbols, "function") /\ symbols'[n].address = symbols[n].address
  BY <1>1, MergingApart
<1>4. ASSUME NEW f \in OfKind(symbols', "function")
      PROVE  Defines(kept, f, symbols'[f].address)
  <2>1. CASE f \in OfKind(outer.table, "function") /\ symbols'[f].address = outer.table[f].address
    BY <2>1 DEF TablesResolve, Resolves, Finish
  <2>2. CASE f \in OfKind(symbols, "function") /\ symbols'[f].address = symbols[f].address
    <3>1. Defines(kept \ {outer.unit}, f, symbols[f].address)
      BY <2>2 DEF TablesResolve, Resolves
    <3> QED BY <2>2, <3>1 DEF Defines
  <2> QED BY <1>3, <2>1, <2>2
<1>5. kept' \ {outer'.unit} = kept
  BY <1>1, <1>2 DEF Idle
<1>6. Resolves(symbols, kept \ {outer.unit})'
  BY <1>1, <1>4, <1>5 DEF Resolves, Defines, OfKind
<1> QED BY <1>1, <1>3, <1>6 DEF TablesResolve, Apart, OfKind

LEMMA FailResolves == IInv /\ TablesResolve /\ Fail => TablesResolve'
<1> SUFFICES ASSUME IInv, TablesResolve, Fail PROVE TablesResolve'
  OBVIOUS
<1>1. /\ symbols' = symbols /\ units' = units /\ outer' = Idle
      /\ kept' = kept \ {outer.unit} /\ 0 \notin kept
  BY DEF IInv, TypeOK, Fail, sessionVars
<1>2. kept' \ {outer'.unit} = kept \ {outer.unit}
  BY <1>1 DEF Idle
<1>3. Resolves(symbols, kept \ {outer.unit})'
  BY <1>1, <1>2 DEF TablesResolve, Resolves, Defines, OfKind
<1> QED BY <1>1, <1>3 DEF TablesResolve, Apart, OfKind

LEMMA StepResolves ==
  ASSUME KindsApart
  PROVE  IInv /\ TablesResolve /\ [Next]_vars => TablesResolve'
<1> SUFFICES ASSUME IInv, TablesResolve, [Next]_vars PROVE TablesResolve'
  OBVIOUS
<1>1. CASE \E unit \in Submitted : Submit(unit)
  BY <1>1, SubmitResolves
<1>2. CASE \E unit \in Evaluated : EvalString(unit)
  BY <1>2, EvalStringResolves
<1>3. CASE Finish
  BY <1>3, FinishResolves
<1>4. CASE Fail
  BY <1>4, FailResolves
<1>5. CASE ResetSession
  BY <1>5 DEF ResetSession, TablesResolve, Resolves, Apart, OfKind, Empty
<1>6. CASE UNCHANGED vars
  BY <1>6 DEF vars, sessionVars, TablesResolve, Resolves, Defines, Apart, OfKind
<1> QED BY <1>1, <1>2, <1>3, <1>4, <1>5, <1>6 DEF Next

LEMMA ResolvingImplies == IInv /\ TablesResolve => FunctionsResolve
<1> SUFFICES ASSUME IInv, TablesResolve, NEW f \in OfKind(symbols, "function")
             PROVE  /\ symbols[f].address < CODE_SIZE
                    /\ LET there == code[symbols[f].address] IN
                       /\ there.unit \in kept
                       /\ there.word \in DOMAIN units[there.unit].source.funs
                       /\ units[there.unit].source.funs[there.word] = f
  BY DEF FunctionsResolve
<1>0. PICK u \in kept \ {outer.unit} : \E w \in DOMAIN units[u].source.funs :
        units[u].source.funs[w] = f /\ symbols[f].address = units[u].base + w
  BY DEF TablesResolve, Resolves, Defines
<1>1. PICK w \in DOMAIN units[u].source.funs :
        units[u].source.funs[w] = f /\ symbols[f].address = units[u].base + w
  BY <1>0
<1>2. units[u].source \in Units /\ units[u].base \in Nat /\ next_code <= CODE_SIZE /\ next_code \in Nat
  <2> DEFINE Entry == [source : Units, base : Nat, first_string : Nat, within : Nat]
  <2>1. units \in Seq(Entry) /\ u \in DOMAIN units
    BY DEF IInv, TypeOK, Units
  <2> HIDE DEF Entry
  <2>2. units[u] \in Entry
    BY <2>1
  <2> QED BY <2>2 DEF Entry, IInv, TypeOK
<1>3. w \in 1..Len(units[u].source.funs) /\ Len(units[u].source.funs) \in Nat
  BY <1>2, UnitTypes
<1>4. /\ code[units[u].base + w] = [unit |-> u, word |-> w]
      /\ units[u].base + Len(units[u].source.funs) < next_code
  BY <1>3 DEF IInv, CodeKept, KeptBelow
<1>5. \A base, word, size \in Nat : word \in 1..size /\ base + size < next_code => base + word < CODE_SIZE
  BY <1>2, Layout
<1>6. units[u].base + w < CODE_SIZE
  BY <1>2, <1>3, <1>4, <1>5
<1> QED BY <1>1, <1>4, <1>6

\* If no name is defined as both kinds, a function's symbol leads to code of that
\* function, whatever is evaluated, redefined, merged or fails.
THEOREM FunctionsLead ==
  ASSUME KindsApart
  PROVE  Spec => []FunctionsResolve
<1>1. Init => TablesResolve
  BY DEF Init, TablesResolve, Resolves, Apart, OfKind, Empty, Idle
<1>2. IInv /\ TablesResolve /\ [Next]_vars => TablesResolve'
  BY StepResolves
<1>3. IInv /\ TablesResolve => FunctionsResolve
  BY ResolvingImplies
<1> QED BY <1>1, <1>2, <1>3, Invariance, PTL DEF Spec
-----------------------------------------------------------------------------
(***************************************************************************)
(* Literals, as long as evaluated strings have none.                       *)
(***************************************************************************)
PlainStrings == \A u \in EvaluatedStrings : units[u].source.strings = 0

Strings(u) == units[u].source.strings
First(u) == units[u].first_string

\* The literals of u are in memory.
Intact(u) ==
  \A w \in 0..Strings(u) - 1 :
    First(u) + w \in DOMAIN literals /\ literals[First(u) + w] = [unit |-> u, word |-> w]

\* Between expressions the literals of all that is kept lie below the next string
\* address, and those of the expression that runs start there.
LiteralsBelow ==
  PlainStrings =>
    /\ \A u \in kept : Intact(u)
    /\ \A u \in kept \ {outer.unit} : First(u) + Strings(u) <= next_string
    /\ outer # Idle =>
         /\ First(outer.unit) = next_string
         /\ outer.next_string = next_string + Strings(outer.unit)

\* The expression that runs was submitted.
OuterSubmitted == outer # Idle => units[outer.unit].within = 0

LInv == OuterSubmitted /\ LiteralsBelow

LEMMA KeptTypes ==
  ASSUME TypeOK, NEW u \in DOMAIN units
  PROVE  First(u) \in Nat /\ Strings(u) \in Nat
<1> DEFINE Entry == [source : Units, base : Nat, first_string : Nat, within : Nat]
<1>1. units \in Seq(Entry)
  BY DEF TypeOK, Units
<1> HIDE DEF Entry
<1>2. units[u] \in Entry
  BY <1>1
<1>3. units[u].source \in Units /\ units[u].first_string \in Nat
  BY <1>2 DEF Entry
<1> QED BY <1>3, UnitTypes DEF First, Strings

LEMMA LoadingLiterals ==
  ASSUME TypeOK, NEW unit \in Units, Load(unit)
  PROVE  /\ \A w \in 0..unit.strings - 1 :
              /\ next_string + w \in DOMAIN literals'
              /\ literals'[next_string + w] = [unit |-> NewUnit, word |-> w]
         /\ \A a \in DOMAIN literals : a < next_string \/ unit.strings = 0 =>
              a \in DOMAIN literals' /\ literals'[a] = literals[a]
<1> DEFINE new == next_string..next_string + unit.strings - 1
<1>1. next_string \in Nat /\ unit.strings \in Nat /\ DOMAIN literals \subseteq Nat
  BY UnitTypes DEF TypeOK
<1>2. literals' = [a \in DOMAIN literals \cup new |->
                     IF a >= next_string /\ a < next_string + unit.strings
                     THEN [unit |-> NewUnit, word |-> a - next_string] ELSE literals[a]]
  BY DEF Load
<1>3. ASSUME NEW w \in 0..unit.strings - 1
      PROVE  /\ next_string + w \in DOMAIN literals'
             /\ literals'[next_string + w] = [unit |-> NewUnit, word |-> w]
  <2>1. /\ next_string + w \in new /\ (next_string + w) - next_string = w
        /\ next_string + w >= next_string /\ next_string + w < next_string + unit.strings
    BY <1>1
  <2> HIDE DEF new
  <2> QED BY <1>2, <2>1
<1>4. ASSUME NEW a \in DOMAIN literals, a < next_string \/ unit.strings = 0
      PROVE  a \in DOMAIN literals' /\ literals'[a] = literals[a]
  <2>1. ~(a >= next_string /\ a < next_string + unit.strings)
    BY <1>1, <1>4
  <2> HIDE DEF new
  <2> QED BY <1>2, <2>1
<1> QED BY <1>3, <1>4

\* What stays intact when another expression is loaded: what lies below it, and
\* everything if that expression has no literal.
LEMMA IntactKept ==
  ASSUME TypeOK, NEW unit \in Units, Load(unit), NEW u \in kept, Intact(u),
         unit.strings = 0 \/ First(u) + Strings(u) <= next_string
  PROVE  Intact(u)' /\ First(u)' = First(u) /\ Strings(u)' = Strings(u)
<1>1. u \in DOMAIN units /\ units'[u] = units[u] /\ next_string \in Nat
  BY Loading DEF TypeOK
<1>2. First(u) \in Nat /\ Strings(u) \in Nat
  BY <1>1, KeptTypes
<1>3. First(u)' = First(u) /\ Strings(u)' = Strings(u)
  BY <1>1 DEF First, Strings
<1>4. ASSUME NEW w \in 0..Strings(u) - 1
      PROVE  /\ First(u) + w \in DOMAIN literals'
             /\ literals'[First(u) + w] = [unit |-> u, word |-> w]
  <2>1. First(u) + w \in DOMAIN literals /\ literals[First(u) + w] = [unit |-> u, word |-> w]
    BY DEF Intact
  <2>2. First(u) + w < next_string \/ unit.strings = 0
    BY <1>1, <1>2
  <2> QED BY <2>1, <2>2, LoadingLiterals
<1> QED BY <1>3, <1>4 DEF Intact

\* The literals of the expression that is loaded.
LEMMA IntactNew ==
  ASSUME TypeOK, NEW unit \in Units, Load(unit), NEW u, u = NewUnit
  PROVE  Intact(u)' /\ First(u)' = next_string /\ Strings(u)' = unit.strings
<1>1. units'[u] = [source |-> unit, base |-> next_code,
                   first_string |-> next_string, within |-> outer.unit]
  BY Loading
<1>2. First(u)' = next_string /\ Strings(u)' = unit.strings
  BY <1>1 DEF First, Strings
<1> QED BY <1>2, LoadingLiterals DEF Intact

\* Loading makes the condition no weaker.
LEMMA PlainBefore ==
  ASSUME TypeOK, NEW unit \in Units, Load(unit), PlainStrings'
  PROVE  PlainStrings /\ (outer.unit # 0 => unit.strings = 0)
<1>1. /\ kept \subseteq DOMAIN units /\ kept' = kept \cup {NewUnit}
      /\ \A u \in DOMAIN units : units'[u] = units[u]
      /\ units'[NewUnit] = [source |-> unit, base |-> next_code,
                            first_string |-> next_string, within |-> outer.unit]
  BY Loading DEF TypeOK
<1>2. PlainStrings
  BY <1>1 DEF PlainStrings, EvaluatedStrings
<1>3. outer.unit # 0 => unit.strings = 0
  BY <1>1 DEF PlainStrings, EvaluatedStrings
<1> QED BY <1>2, <1>3

LEMMA SubmitLiterals ==
  ASSUME TypeOK, LInv, NEW unit \in Submitted, Submit(unit)
  PROVE  LInv'
<1>1. unit \in Units /\ Load(unit) /\ outer = Idle /\ next_string' = next_string
      /\ outer' = Compiled(unit) /\ outer'.unit = NewUnit
  BY CompilerTypes DEF Units, Submit
<1>2. kept' = kept \cup {NewUnit} /\ outer'.next_string = next_string + unit.strings
  BY <1>1, Loading DEF Compiled
<1>3. OuterSubmitted'
  <2>1. units'[NewUnit] = [source |-> unit, base |-> next_code,
                           first_string |-> next_string, within |-> outer.unit]
    BY <1>1, Loading
  <2> QED BY <1>1, <2>1 DEF OuterSubmitted, Idle
<1>4. ASSUME PlainStrings' PROVE LiteralsBelow'
  <2>1. /\ \A u \in kept : Intact(u)
        /\ \A u \in kept : First(u) + Strings(u) <= next_string
    <3>1. 0 \notin kept
      BY DEF TypeOK
    <3> QED BY <1>1, <1>4, <3>1, PlainBefore DEF LInv, LiteralsBelow, Idle
  <2>2. PICK new : new = NewUnit
    OBVIOUS
  <2>3. Intact(new)' /\ First(new)' = next_string /\ Strings(new)' = unit.strings
    BY <1>1, <2>2, IntactNew
  <2>4. ASSUME NEW u \in kept
        PROVE  Intact(u)' /\ (First(u) + Strings(u) <= next_string)'
    BY <1>1, <2>1, IntactKept
  <2>5. /\ \A u \in kept' : Intact(u)'
        /\ \A u \in kept' \ {outer'.unit} : (First(u) + Strings(u) <= next_string)'
    BY <1>1, <1>2, <2>2, <2>3, <2>4
  <2>6. (First(outer.unit) = next_string /\ outer.next_string = next_string + Strings(outer.unit))'
    BY <1>1, <1>2, <2>2, <2>3 DEF First, Strings
  <2> QED BY <2>5, <2>6 DEF LiteralsBelow
<1> QED BY <1>3, <1>4 DEF LInv, LiteralsBelow

LEMMA EvalStringLiterals ==
  ASSUME TypeOK, LInv, NEW unit \in Evaluated, EvalString(unit)
  PROVE  LInv'
<1>1. unit \in Units /\ Load(unit) /\ outer # Idle /\ outer' = outer
      /\ outer.unit \in DOMAIN units /\ outer.unit # 0
  <2>1. unit \in Units /\ Load(unit) /\ outer # Idle /\ outer' = outer
    BY DEF Units, EvalString
  <2>2. outer.unit \in DOMAIN units
    BY <2>1 DEF TypeOK
  <2>3. 0 \notin DOMAIN units
    <3> DEFINE Entry == [source : Units, base : Nat, first_string : Nat, within : Nat]
    <3>1. units \in Seq(Entry)
      BY DEF TypeOK, Units
    <3> HIDE DEF Entry
    <3> QED BY <3>1
  <2> QED BY <2>1, <2>2, <2>3
<1>2. /\ kept' = kept \cup {NewUnit} /\ next_string' = next_string + unit.strings
      /\ units'[outer.unit] = units[outer.unit] /\ outer.unit # NewUnit
      /\ next_string \in Nat /\ kept \subseteq DOMAIN units
  BY <1>1, Loading DEF EvalString, Update, Compiled, TypeOK
<1>3. OuterSubmitted'
  BY <1>1, <1>2 DEF OuterSubmitted, LInv
<1>4. ASSUME PlainStrings' PROVE LiteralsBelow'
  <2>1. unit.strings = 0 /\ next_string' = next_string
    BY <1>1, <1>2, <1>4, PlainBefore
  <2>2. /\ \A u \in kept : Intact(u)
        /\ \A u \in kept \ {outer.unit} : First(u) + Strings(u) <= next_string
        /\ First(outer.unit) = next_string
        /\ outer.next_string = next_string + Strings(outer.unit)
    BY <1>1, <1>4, PlainBefore DEF LInv, LiteralsBelow
  <2>3. PICK new, old : new = NewUnit /\ old = outer.unit
    OBVIOUS
  <2>4. Intact(new)' /\ First(new)' = next_string /\ Strings(new)' = unit.strings
    BY <1>1, <2>3, IntactNew
  <2>5. ASSUME NEW u \in kept
        PROVE  Intact(u)' /\ First(u)' = First(u) /\ Strings(u)' = Strings(u)
    BY <1>1, <2>1, <2>2, IntactKept
  <2>6. \A u \in kept' : Intact(u)'
    BY <1>2, <2>3, <2>4, <2>5
  <2>7. \A u \in kept' \ {outer'.unit} : (First(u) + Strings(u) <= next_string)'
    BY <1>1, <1>2, <2>1, <2>2, <2>3, <2>4, <2>5
  <2>8. First(old)' = First(old) /\ Strings(old)' = Strings(old)
    BY <1>2, <2>3 DEF First, Strings
  <2>9. (First(outer.unit) = next_string /\ outer.next_string = next_string + Strings(outer.unit))'
    BY <1>1, <2>1, <2>2, <2>3, <2>8 DEF First, Strings
  <2> QED BY <2>6, <2>7, <2>9 DEF LiteralsBelow
<1> QED BY <1>3, <1>4 DEF LInv, LiteralsBelow

LEMMA FinishLiterals == TypeOK /\ LInv /\ Finish => LInv'
<1> SUFFICES ASSUME TypeOK, LInv, Finish PROVE LInv'
  OBVIOUS
<1>1. /\ outer # Idle /\ outer' = Idle /\ next_string' = outer.next_string
      /\ kept' = kept /\ units' = units /\ literals' = literals
      /\ next_string \in Nat /\ outer.unit \in DOMAIN units /\ kept \subseteq DOMAIN units
  BY DEF TypeOK, Finish, Update, memoryVars
<1>2. ASSUME PlainStrings' PROVE LiteralsBelow'
  <2>1. PlainStrings
    BY <1>1, <1>2 DEF PlainStrings, EvaluatedStrings
  <2>2. \A u \in kept : First(u) + Strings(u) <= outer.next_string
    <3>1. \A u \in kept : First(u) \in Nat /\ Strings(u) \in Nat
      BY <1>1, KeptTypes
    <3>2. Strings(outer.unit) \in Nat
      BY <1>1, KeptTypes
    <3> QED BY <1>1, <2>1, <3>1, <3>2 DEF LInv, LiteralsBelow
  <2> QED BY <1>1, <2>1, <2>2 DEF LInv, LiteralsBelow, Intact, First, Strings
<1> QED BY <1>1, <1>2 DEF LInv, LiteralsBelow, OuterSubmitted

LEMMA FailLiterals == TypeOK /\ LInv /\ Fail => LInv'
<1> SUFFICES ASSUME TypeOK, LInv, Fail PROVE LInv'
  OBVIOUS
<1>1. /\ outer # Idle /\ outer' = Idle /\ next_string' = next_string
      /\ kept' = kept \ {outer.unit} /\ units' = units /\ literals' = literals
  BY DEF Fail, sessionVars, memoryVars
<1>2. ASSUME PlainStrings' PROVE LiteralsBelow'
  <2>1. PlainStrings
    BY <1>1, <1>2 DEF PlainStrings, EvaluatedStrings, LInv, OuterSubmitted
  <2> QED BY <1>1, <2>1 DEF LInv, LiteralsBelow, Intact, First, Strings
<1> QED BY <1>1, <1>2 DEF LInv, LiteralsBelow, OuterSubmitted

LEMMA StepLiterals == IInv /\ LInv /\ [Next]_vars => LInv'
<1> SUFFICES ASSUME TypeOK, LInv, [Next]_vars PROVE LInv'
  BY DEF IInv
<1>1. CASE \E unit \in Submitted : Submit(unit)
  BY <1>1, SubmitLiterals
<1>2. CASE \E unit \in Evaluated : EvalString(unit)
  BY <1>2, EvalStringLiterals
<1>3. CASE Finish
  BY <1>3, FinishLiterals
<1>4. CASE Fail
  BY <1>4, FailLiterals
<1>5. CASE ResetSession
  BY <1>5 DEF ResetSession, LInv, LiteralsBelow, OuterSubmitted
<1>6. CASE UNCHANGED vars
  BY <1>6 DEF vars, sessionVars, memoryVars, LInv, LiteralsBelow, OuterSubmitted, PlainStrings,
              EvaluatedStrings, Intact, First, Strings
<1> QED BY <1>1, <1>2, <1>3, <1>4, <1>5, <1>6 DEF Next

\* As long as no evaluated string has had a literal, the literals of all that the
\* session keeps stay intact, across failures and resets.
THEOREM SessionLiteralsKept == Spec => []LiteralsKept
<1>1. Init => LInv
  BY DEF Init, LInv, LiteralsBelow, OuterSubmitted
<1>2. LInv => LiteralsKept
  BY DEF LInv, LiteralsBelow, PlainStrings, LiteralsKept, Intact, First, Strings
<1> QED BY <1>1, <1>2, StepLiterals, Invariance, PTL DEF Spec
-----------------------------------------------------------------------------
(***************************************************************************)
(* Variables, as long as evaluated strings bind none.                      *)
(***************************************************************************)
PlainVariables ==
  \A u \in EvaluatedStrings : units[u].source.vars = <<>> /\ units[u].source.lets = 0

Variables(table) == OfKind(table, "variable")

\* The variables of a table have words of their own below limit.
Separate(table, limit) ==
  \A x \in Variables(table) :
    /\ table[x].address < limit
    /\ \A y \in Variables(table) : x # y => table[x].address # table[y].address

\* The variables of larger are those of table, and more.
Includes(larger, table) ==
  \A x \in Variables(table) :
    x \in Variables(larger) /\ larger[x].address = table[x].address

VariablesBelow ==
  PlainVariables =>
    /\ Separate(symbols, next_var)
    /\ outer # Idle =>
         /\ outer.first_var = next_var
         /\ Separate(outer.table, outer.next_var) /\ Includes(outer.table, symbols)

VInv == OuterSubmitted /\ VariablesBelow

LEMMA MergingVariables ==
  ASSUME KindsApart, NEW t, NEW o, IsTable(t), IsTable(o), Apart(t), Apart(o), Includes(o, t)
  PROVE  /\ Variables(Merge(t, o)) = Variables(o)
         /\ \A n \in Variables(o) : Merge(t, o)[n].address = o[n].address
<1> DEFINE m == Merge(t, o)
<1>1. /\ DOMAIN m = DOMAIN t \cup DOMAIN o
      /\ \A n \in DOMAIN t \cup DOMAIN o :
           /\ m[n].kind = IF n \in DOMAIN t THEN t[n].kind ELSE o[n].kind
           /\ m[n].address = IF n \in DOMAIN o THEN o[n].address ELSE t[n].address
  BY Merging
<1>2. VariableNames \cap FunctionNames = {}
  BY DEF KindsApart, VariableNames, FunctionNames
<1>3. \A n \in DOMAIN t : t[n].kind \in {"variable", "function"}
  BY DEF IsTable, Symbol, Kinds
<1> HIDE DEF m
<1>4. ASSUME NEW n \in Variables(m) PROVE n \in Variables(o)
  <2>1. n \in DOMAIN m /\ m[n].kind = "variable"
    BY DEF Variables, OfKind
  <2>2. CASE n \in DOMAIN t
    BY <1>1, <2>1, <2>2 DEF Variables, OfKind, Includes
  <2>3. CASE n \notin DOMAIN t
    BY <1>1, <2>1, <2>3 DEF Variables, OfKind
  <2> QED BY <2>2, <2>3
<1>5. ASSUME NEW n \in Variables(o) PROVE n \in Variables(m) /\ m[n].address = o[n].address
  <2>1. n \in DOMAIN o /\ o[n].kind = "variable" /\ n \in VariableNames
    BY DEF Variables, OfKind, Apart
  <2>2. n \in DOMAIN t => t[n].kind = "variable"
    BY <1>2, <1>3, <2>1 DEF Apart, OfKind
  <2> QED BY <1>1, <2>1, <2>2 DEF Variables, OfKind
<1> QED BY <1>4, <1>5 DEF m

LEMMA CompilerVariables ==
  ASSUME KindsApart, TypeOK, NEW unit \in Units, Apart(symbols), Compiles(unit)
  PROVE  /\ Includes(Compiled(unit).table, symbols)
         /\ Variables(Compiled(unit).table) = Variables(symbols) \cup Range(unit.vars)
         /\ \A n \in Range(unit.vars) :
              Compiled(unit).table[n].address = Placed(unit.vars, next_var - 1)[n]
<1> DEFINE variables == Define(symbols, "variable", Placed(unit.vars, next_var - 1), NoParams(unit.vars))
<1> DEFINE table == Define(variables, "function", Placed(unit.funs, next_code), NoParams(unit.funs))
<1>1. /\ next_var - 1 \in Int /\ 0 <= (next_var - 1) + 1 /\ next_code \in Int /\ 0 <= next_code + 1
      /\ "variable" \in Kinds /\ "function" \in Kinds /\ IsTable(symbols)
  BY DEF Kinds, TypeOK
<1>2. Extends(variables, symbols, "variable", unit.vars, next_var - 1)
  BY <1>1, UnitTypes, Defining
<1>3. Compiled(unit).table = table
  BY DEF Compiled
<1> HIDE DEF variables
<1>4. Extends(table, variables, "function", unit.funs, next_code)
  <2>1. IsTable(variables)
    BY <1>2 DEF Extends
  <2> QED BY <1>1, <2>1, UnitTypes, Defining
<1> HIDE DEF table
<1>5. Range(unit.vars) \subseteq VariableNames /\ Range(unit.funs) \subseteq FunctionNames
      /\ VariableNames \cap FunctionNames = {}
      /\ Variables(symbols) \subseteq VariableNames
      /\ Variables(symbols) \cap Range(unit.vars) = {}
  BY DEF KindsApart, VariableNames, FunctionNames, Apart, Variables, Compiles
<1>6. ASSUME NEW n \in Variables(symbols)
      PROVE  n \in Variables(table) /\ table[n].address = symbols[n].address
  <2>1. n \in DOMAIN symbols /\ symbols[n].kind = "variable"
    BY DEF Variables, OfKind
  <2>2. n \notin Range(unit.vars) /\ n \notin Range(unit.funs)
    BY <1>5
  <2> QED BY <1>2, <1>4, <2>1, <2>2 DEF Extends, Variables, OfKind
<1>7. OfKind(symbols, "function") \subseteq FunctionNames
  BY DEF Apart
<1>8. ASSUME NEW n \in Range(unit.vars)
      PROVE  n \in Variables(table) /\ table[n].address = Placed(unit.vars, next_var - 1)[n]
  <2>1. n \notin Range(unit.funs) /\ n \notin OfKind(symbols, "function")
    BY <1>5, <1>7
  <2>2. n \notin DOMAIN symbols \/ symbols[n].kind = "variable"
    BY <1>1, <2>1 DEF OfKind, IsTable, Symbol, Kinds
  <2> QED BY <1>2, <1>4, <2>1, <2>2 DEF Extends, Variables, OfKind
<1>9. ASSUME NEW n \in Variables(table)
      PROVE  n \in Variables(symbols) \cup Range(unit.vars)
  <2>1. n \in DOMAIN table /\ table[n].kind = "variable"
    BY DEF Variables, OfKind
  <2>2. n \in DOMAIN variables /\ variables[n].kind = "variable"
    BY <1>4, <2>1 DEF Extends
  <2> QED BY <1>2, <2>2 DEF Extends, Variables, OfKind
<1> QED BY <1>3, <1>6, <1>8, <1>9 DEF Includes

\* A compiler's new variables lie behind all that are there.
LEMMA CompilerSeparates ==
  ASSUME KindsApart, TypeOK, NEW unit \in Units, Apart(symbols), Compiles(unit),
         Separate(symbols, next_var)
  PROVE  Separate(Compiled(unit).table, Compiled(unit).next_var)
<1> DEFINE table == Compiled(unit).table
<1>1. /\ next_var \in Nat /\ IsTable(symbols) /\ unit.vars \in Seq(Names)
      /\ unit.lets \in Nat /\ Len(unit.vars) \in Nat
  BY UnitTypes DEF TypeOK
<1>2. Compiled(unit).next_var = next_var + Len(unit.vars) + unit.lets
  BY DEF Compiled
<1>3. /\ Variables(table) = Variables(symbols) \cup Range(unit.vars)
      /\ \A n \in Variables(symbols) : table[n].address = symbols[n].address
      /\ \A n \in Range(unit.vars) : table[n].address = Placed(unit.vars, next_var - 1)[n]
  BY CompilerVariables DEF Includes
<1> HIDE DEF table
<1>4. \A n \in Variables(symbols) : symbols[n].address \in Nat
  BY <1>1 DEF Variables, OfKind, IsTable, Symbol
<1>5. \A n \in Range(unit.vars) : \E i \in 1..Len(unit.vars) :
        unit.vars[i] = n /\ table[n].address = (next_var - 1) + i
  <2>1. next_var - 1 \in Int
    BY <1>1
  <2>2. PICK start \in Int : start = next_var - 1
    BY <2>1
  <2>3. \A n \in Range(unit.vars) : \E i \in 1..Len(unit.vars) :
          unit.vars[i] = n /\ Placed(unit.vars, start)[n] = start + i
    BY <1>1, Placement
  <2> QED BY <1>3, <2>2, <2>3
<1>6. \A i \in 1..Len(unit.vars) :
        /\ (next_var - 1) + i >= next_var
        /\ (next_var - 1) + i < next_var + Len(unit.vars) + unit.lets
        /\ \A j \in 1..Len(unit.vars) : (next_var - 1) + i = (next_var - 1) + j => i = j
  BY <1>1
<1>7. next_var <= next_var + Len(unit.vars) + unit.lets
  BY <1>1
<1>8. ASSUME NEW x \in Variables(table)
      PROVE  /\ table[x].address < next_var + Len(unit.vars) + unit.lets
             /\ \A y \in Variables(table) : x # y => table[x].address # table[y].address
  <2>1. CASE x \in Variables(symbols)
    <3>1. table[x].address = symbols[x].address /\ symbols[x].address < next_var
          /\ symbols[x].address \in Nat
      BY <1>3, <1>4, <2>1 DEF Separate
    <3>2. ASSUME NEW y \in Variables(symbols), x # y PROVE table[x].address # table[y].address
      BY <1>3, <2>1, <3>2 DEF Separate
    <3>3. ASSUME NEW y \in Range(unit.vars) PROVE table[x].address # table[y].address
      <4>1. PICK i \in 1..Len(unit.vars) : table[y].address = (next_var - 1) + i
        BY <1>5
      <4> QED BY <1>1, <1>6, <3>1, <4>1
    <3>4. table[x].address < next_var + Len(unit.vars) + unit.lets
      BY <1>1, <1>7, <3>1
    <3> QED BY <1>3, <3>2, <3>3, <3>4
  <2>2. CASE x \in Range(unit.vars)
    <3>1. PICK i \in 1..Len(unit.vars) : unit.vars[i] = x /\ table[x].address = (next_var - 1) + i
      BY <1>5, <2>2
    <3>2. ASSUME NEW y \in Variables(symbols) PROVE table[x].address # table[y].address
      <4>1. table[y].address < next_var /\ table[y].address \in Nat
        BY <1>3, <1>4 DEF Separate
      <4> QED BY <1>1, <1>6, <3>1, <4>1
    <3>3. ASSUME NEW y \in Range(unit.vars), x # y PROVE table[x].address # table[y].address
      <4>1. PICK j \in 1..Len(unit.vars) : unit.vars[j] = y /\ table[y].address = (next_var - 1) + j
        BY <1>5
      <4> QED BY <1>6, <3>1, <3>3, <4>1
    <3> QED BY <1>3, <1>6, <3>1, <3>2, <3>3
  <2> QED BY <1>3, <2>1, <2>2
<1> QED BY <1>2, <1>8 DEF Separate, table

LEMMA PlainVariablesBefore ==
  ASSUME TypeOK, NEW unit \in Units, Load(unit), PlainVariables'
  PROVE  PlainVariables /\ (outer.unit # 0 => unit.vars = <<>> /\ unit.lets = 0)
<1>1. /\ kept \subseteq DOMAIN units /\ kept' = kept \cup {NewUnit}
      /\ \A u \in DOMAIN units : units'[u] = units[u]
      /\ units'[NewUnit] = [source |-> unit, base |-> next_code,
                            first_string |-> next_string, within |-> outer.unit]
  BY Loading DEF TypeOK
<1>2. PlainVariables
  BY <1>1 DEF PlainVariables, EvaluatedStrings
<1>3. outer.unit # 0 => unit.vars = <<>> /\ unit.lets = 0
  BY <1>1 DEF PlainVariables, EvaluatedStrings
<1> QED BY <1>2, <1>3

LEMMA SubmitVariables ==
  ASSUME KindsApart, IInv, TablesResolve, LInv, VInv, NEW unit \in Submitted, Submit(unit)
  PROVE  VariablesBelow'
<1> SUFFICES ASSUME PlainVariables' PROVE VariablesBelow'
  BY DEF VariablesBelow
<1>1. /\ unit \in Units /\ Load(unit) /\ Compiles(unit) /\ TypeOK /\ Apart(symbols)
      /\ symbols' = symbols /\ next_var' = next_var /\ outer' = Compiled(unit)
  BY DEF Units, Submit, IInv, TablesResolve
<1>2. Separate(symbols, next_var)
  BY <1>1, PlainVariablesBefore DEF VInv, VariablesBelow
<1>3. /\ outer'.first_var = next_var /\ Separate(outer'.table, outer'.next_var)
      /\ Includes(outer'.table, symbols)
  BY <1>1, <1>2, CompilerSeparates, CompilerVariables DEF Compiled
<1> QED BY <1>1, <1>2, <1>3 DEF VariablesBelow, Separate, Includes, Variables, OfKind

LEMMA EvalStringVariables ==
  ASSUME KindsApart, IInv, TablesResolve, LInv, VInv, NEW unit \in Evaluated, EvalString(unit)
  PROVE  VariablesBelow'
<1> SUFFICES ASSUME PlainVariables' PROVE VariablesBelow'
  BY DEF VariablesBelow
<1>1. /\ unit \in Units /\ Load(unit) /\ Compiles(unit) /\ TypeOK /\ Apart(symbols)
      /\ outer # Idle /\ outer' = outer /\ outer.unit # 0 /\ IsTable(symbols)
      /\ next_var \in Nat
  <2>1. unit \in Units /\ Load(unit) /\ Compiles(unit) /\ outer # Idle /\ outer' = outer
    BY DEF Units, EvalString
  <2>2. TypeOK /\ IsTable(symbols) /\ next_var \in Nat /\ outer.unit \in DOMAIN units
    BY <2>1 DEF IInv, TypeOK
  <2>3. DOMAIN units = 1..Len(units)
    BY <2>2 DEF TypeOK
  <2> QED BY <2>1, <2>2, <2>3 DEF TablesResolve
<1>2. /\ Separate(symbols, next_var) /\ outer.first_var = next_var
      /\ Separate(outer.table, outer.next_var) /\ Includes(outer.table, symbols)
      /\ unit.vars = <<>> /\ unit.lets = 0
  BY <1>1, PlainVariablesBefore DEF VInv, VariablesBelow
<1>3. PICK table : table = Compiled(unit).table
  OBVIOUS
<1>4. /\ IsTable(table) /\ Apart(table) /\ Includes(table, symbols)
      /\ Variables(table) = Variables(symbols)
  <2>1. Range(unit.vars) = {}
    BY <1>2 DEF Range
  <2> QED BY <1>1, <1>3, <2>1, CompilerTypes, CompilerResolves, CompilerVariables
<1>5. symbols' = Merge(symbols, table) /\ next_var' = next_var
  BY <1>1, <1>2, <1>3 DEF EvalString, Update, Compiled
<1>6. /\ Variables(symbols') = Variables(symbols)
      /\ \A n \in Variables(symbols) : symbols'[n].address = symbols[n].address
  BY <1>1, <1>4, <1>5, MergingVariables DEF Includes
<1>7. Separate(symbols', next_var) /\ Includes(outer.table, symbols')
  BY <1>2, <1>6 DEF Separate, Includes
<1> QED BY <1>1, <1>2, <1>5, <1>7 DEF VariablesBelow, Separate, Includes, Variables, OfKind

LEMMA FinishVariables ==
  KindsApart /\ IInv /\ TablesResolve /\ VInv /\ Finish => VariablesBelow'
<1> SUFFICES ASSUME KindsApart, IInv, TablesResolve, VInv, Finish, PlainVariables'
             PROVE  VariablesBelow'
  BY DEF VariablesBelow
<1>1. /\ outer # Idle /\ outer' = Idle /\ next_var' = outer.next_var
      /\ symbols' = Merge(symbols, outer.table) /\ kept' = kept /\ units' = units
      /\ IsTable(symbols) /\ IsTable(outer.table) /\ Apart(symbols) /\ Apart(outer.table)
  BY DEF IInv, TypeOK, TablesResolve, Finish, Update
<1>2. Separate(outer.table, outer.next_var) /\ Includes(outer.table, symbols)
  BY <1>1 DEF VInv, VariablesBelow, PlainVariables, EvaluatedStrings
<1>3. /\ Variables(symbols') = Variables(outer.table)
      /\ \A n \in Variables(outer.table) : symbols'[n].address = outer.table[n].address
  BY <1>1, <1>2, MergingVariables
<1>4. Separate(symbols', next_var')
  BY <1>1, <1>2, <1>3 DEF Separate
<1> QED BY <1>1, <1>4 DEF VariablesBelow, Separate, Variables, OfKind

LEMMA FailVariables == LInv /\ VInv /\ Fail => VariablesBelow'
<1> SUFFICES ASSUME LInv, VInv, Fail, PlainVariables' PROVE VariablesBelow'
  BY DEF VariablesBelow
<1>1. /\ outer # Idle /\ outer' = Idle /\ next_var' = next_var /\ symbols' = symbols
      /\ kept' = kept \ {outer.unit} /\ units' = units
  BY DEF Fail, sessionVars
<1>2. PlainVariables
  BY <1>1 DEF PlainVariables, EvaluatedStrings, LInv, OuterSubmitted
<1> QED BY <1>1, <1>2 DEF VInv, VariablesBelow, Separate, Variables, OfKind

LEMMA StepVariables ==
  ASSUME KindsApart
  PROVE  IInv /\ TablesResolve /\ LInv /\ VInv /\ [Next]_vars => VInv'
<1> SUFFICES ASSUME IInv, TablesResolve, LInv, VInv, [Next]_vars PROVE VariablesBelow'
  BY StepLiterals DEF VInv, LInv
<1>1. CASE \E unit \in Submitted : Submit(unit)
  BY <1>1, SubmitVariables
<1>2. CASE \E unit \in Evaluated : EvalString(unit)
  BY <1>2, EvalStringVariables
<1>3. CASE Finish
  BY <1>3, FinishVariables
<1>4. CASE Fail
  BY <1>4, FailVariables
<1>5. CASE ResetSession
  BY <1>5 DEF ResetSession, VariablesBelow, Separate, Variables, OfKind, Empty
<1>6. CASE UNCHANGED vars
  BY <1>6 DEF vars, sessionVars, VInv, VariablesBelow, PlainVariables, EvaluatedStrings,
              Separate, Includes, Variables, OfKind
<1> QED BY <1>1, <1>2, <1>3, <1>4, <1>5, <1>6 DEF Next

\* If no name is defined as both kinds and no evaluated string binds a variable, the
\* words of variables are distinct, and distinct from those about to be added.
THEOREM SessionVariablesApart ==
  ASSUME KindsApart
  PROVE  Spec => []VariablesApart
<1>1. Init => TablesResolve /\ LInv /\ VInv
  BY DEF Init, TablesResolve, Resolves, Apart, OfKind, Empty, Idle, LInv, LiteralsBelow,
         OuterSubmitted, VInv, VariablesBelow, Separate, Variables
<1>2. IInv /\ VInv => VariablesApart
  <2> SUFFICES ASSUME IInv, VInv, PlainVariables PROVE VariablesApart
    BY DEF VariablesApart, PlainVariables
  <2>1. IsTable(symbols) /\ next_var \in Nat /\ (outer # Idle => outer.next_var \in Nat)
    BY DEF IInv, TypeOK
  <2>2. Separate(symbols, next_var) /\ (outer # Idle => outer.first_var = next_var)
    BY DEF VInv, VariablesBelow
  <2>3. \A x \in OfKind(symbols, "variable") : symbols[x].address \in Nat
    BY <2>1 DEF OfKind, IsTable, Symbol
  <2>4. UniqueVariableAddress
    BY <2>2 DEF UniqueVariableAddress, Separate, Variables
  <2>5. ASSUME outer # Idle, NEW x \in OfKind(symbols, "variable")
        PROVE  symbols[x].address \notin outer.first_var..outer.next_var - 1
    BY <2>1, <2>2, <2>3, <2>5 DEF Separate, Variables
  <2> QED BY <2>4, <2>5 DEF VariablesApart
<1>3. IInv /\ TablesResolve /\ LInv /\ VInv /\ [Next]_vars => (TablesResolve /\ LInv /\ VInv)'
  BY StepResolves, StepLiterals, StepVariables
<1> QED BY <1>1, <1>2, <1>3, Invariance, PTL DEF Spec

-----------------------------------------------------------------------------
(***************************************************************************)
(* What a name stands for: names persist, and a function's name stands for *)
(* its latest definition.                                                  *)
(***************************************************************************)
\* Whatever is submitted, evaluated or fails, a name that the session has keeps its
\* kind: a merge only adds names, and moves those it finds.
THEOREM SessionNamesKept == Spec => NamesKept
<1> DEFINE Step == symbols' = Empty \/ \A n \in DOMAIN symbols :
                                         n \in DOMAIN symbols' /\ symbols'[n].kind = symbols[n].kind
<1>1. ASSUME IInv, [Next]_vars PROVE Step
  <2>1. IsTable(symbols)
    BY <1>1 DEF IInv, TypeOK
  <2>2. ASSUME NEW table, IsTable(table), symbols' = Merge(symbols, table) PROVE Step
    <3>1. /\ DOMAIN Merge(symbols, table) = DOMAIN symbols \cup DOMAIN table
          /\ \A n \in DOMAIN symbols \cup DOMAIN table :
               Merge(symbols, table)[n].kind = IF n \in DOMAIN symbols THEN symbols[n].kind ELSE table[n].kind
      BY <2>1, <2>2, Merging
    <3> QED BY <2>2, <3>1
  <2>3. CASE \E unit \in Submitted : Submit(unit)
    BY <2>3 DEF Submit
  <2>4. CASE \E unit \in Evaluated : EvalString(unit)
    <3>1. PICK unit \in Evaluated : EvalString(unit)
      BY <2>4
    <3>2. IsTable(Compiled(unit).table)
      BY <1>1, CompilerTypes DEF IInv, Units
    <3> QED BY <2>2, <3>1, <3>2 DEF EvalString, Update
  <2>5. CASE Finish
    <3>1. IsTable(outer.table)
      BY <1>1, <2>5 DEF IInv, TypeOK, Finish
    <3> QED BY <2>2, <2>5, <3>1 DEF Finish, Update
  <2>6. CASE Fail
    BY <2>6 DEF Fail, sessionVars
  <2>7. CASE ResetSession
    BY <2>7 DEF ResetSession
  <2>8. CASE UNCHANGED vars
    BY <2>8 DEF vars, sessionVars
  <2> QED BY <1>1, <2>3, <2>4, <2>5, <2>6, <2>7, <2>8 DEF Next
<1>2. IInv /\ [Next]_vars => [Step]_vars
  BY <1>1
<1> QED BY <1>2, Invariance, PTL DEF Spec, NamesKept

-----------------------------------------------------------------------------
(***************************************************************************)
(* The latest definition, as long as evaluated strings define no function: *)
(* otherwise the expression that runs puts its older ones back when it     *)
(* ends.                                                                   *)
(***************************************************************************)
PlainFunctions == \A u \in EvaluatedStrings : units[u].source.funs = <<>>

Funs(u) == units[u].source.funs
Base(u) == units[u].base

\* For the table, no function is older than what u has for it.
NoOlder(table, u) ==
  \A f \in Range(Funs(u)) :
    f \in OfKind(table, "function") /\ table[f].address >= Placed(Funs(u), Base(u))[f]

\* The definitions of the expression that runs are known to its compiler, and not yet
\* to the session.
LatestKnown ==
  PlainFunctions =>
    /\ \A u \in kept \ {outer.unit} : NoOlder(symbols, u)
    /\ outer # Idle => \A u \in kept : NoOlder(outer.table, u)

FInv == OuterSubmitted /\ LatestKnown

LEMMA KeptFunctions ==
  ASSUME TypeOK, NEW u \in kept
  PROVE  /\ u \in DOMAIN units /\ Funs(u) \in Seq(Names) /\ Base(u) \in Nat
         /\ Range(Funs(u)) \subseteq FunctionNames /\ Len(Funs(u)) \in Nat
<1> DEFINE Entry == [source : Units, base : Nat, first_string : Nat, within : Nat]
<1>1. units \in Seq(Entry) /\ u \in DOMAIN units
  BY DEF TypeOK, Units
<1> HIDE DEF Entry
<1>2. units[u] \in Entry
  BY <1>1
<1>3. units[u].source \in Units /\ units[u].base \in Nat
  BY <1>2 DEF Entry
<1> QED BY <1>1, <1>3, UnitTypes DEF Funs, Base, FunctionNames

\* What is kept was placed below what is loaded next.
LEMMA PlacedBelow ==
  ASSUME IInv, NEW u \in kept, NEW f \in Range(Funs(u))
  PROVE  Placed(Funs(u), Base(u))[f] \in Nat /\ Placed(Funs(u), Base(u))[f] < next_code
<1>1. TypeOK /\ next_code \in Nat /\ Base(u) + Len(Funs(u)) < next_code
  BY DEF IInv, TypeOK, KeptBelow, Funs, Base
<1>2. Funs(u) \in Seq(Names) /\ Base(u) \in Nat /\ Len(Funs(u)) \in Nat
  BY <1>1, KeptFunctions
<1> DEFINE names == Funs(u)
<1> DEFINE start == Base(u)
<1>3. names \in Seq(Names) /\ start \in Int /\ f \in Range(names)
  BY <1>2
<1> HIDE DEF names, start
<1>4. \E i \in 1..Len(names) : names[i] = f /\ Placed(names, start)[f] = start + i
  BY <1>3, Placement
<1>5. PICK i \in 1..Len(Funs(u)) : Placed(Funs(u), Base(u))[f] = Base(u) + i
  BY <1>4 DEF names, start
<1> QED BY <1>1, <1>2, <1>5

\* A name of functions is a function's in every table.
LEMMA FunctionsAreFunctions ==
  ASSUME KindsApart, NEW t, IsTable(t), Apart(t), NEW f \in FunctionNames, f \in DOMAIN t
  PROVE  f \in OfKind(t, "function")
<1>1. f \notin VariableNames
  BY DEF KindsApart, VariableNames, FunctionNames
<1>2. t[f].kind \in {"variable", "function"}
  BY DEF IsTable, Symbol, Kinds
<1> QED BY <1>1, <1>2 DEF Apart, OfKind

\* What a compiler adds is placed where its program will be loaded.
LEMMA CompilerPlaces ==
  ASSUME TypeOK, NEW unit \in Units
  PROVE  /\ DOMAIN symbols \cup Range(unit.funs) \subseteq DOMAIN Compiled(unit).table
         /\ \A f \in Range(unit.funs) :
              Compiled(unit).table[f].address = Placed(unit.funs, next_code)[f]
<1> DEFINE variables == Define(symbols, "variable", Placed(unit.vars, next_var - 1), NoParams(unit.vars))
<1> DEFINE table == Define(variables, "function", Placed(unit.funs, next_code), NoParams(unit.funs))
<1>1. /\ next_var - 1 \in Int /\ 0 <= (next_var - 1) + 1 /\ next_code \in Int /\ 0 <= next_code + 1
      /\ "variable" \in Kinds /\ "function" \in Kinds /\ IsTable(symbols)
  BY DEF Kinds, TypeOK
<1>2. Extends(variables, symbols, "variable", unit.vars, next_var - 1)
  BY <1>1, UnitTypes, Defining
<1>3. Compiled(unit).table = table
  BY DEF Compiled
<1> HIDE DEF variables
<1>4. Extends(table, variables, "function", unit.funs, next_code)
  <2>1. IsTable(variables)
    BY <1>2 DEF Extends
  <2> QED BY <1>1, <2>1, UnitTypes, Defining
<1> HIDE DEF table
<1> QED BY <1>2, <1>3, <1>4 DEF Extends

\* A compiler's table is no older than the session's, and than its own program.
LEMMA CompilerLatest ==
  ASSUME KindsApart, IInv, Apart(symbols), NEW unit \in Units
  PROVE  /\ \A f \in Range(unit.funs) :
              /\ f \in OfKind(Compiled(unit).table, "function")
              /\ Compiled(unit).table[f].address >= Placed(unit.funs, next_code)[f]
         /\ \A u \in kept : NoOlder(symbols, u) => NoOlder(Compiled(unit).table, u)
<1>1. PICK table : table = Compiled(unit).table
  OBVIOUS
<1>2. /\ TypeOK /\ IsTable(symbols) /\ IsTable(table) /\ Apart(table) /\ next_code \in Nat
      /\ DOMAIN symbols \cup Range(unit.funs) \subseteq DOMAIN table
      /\ \A f \in Range(unit.funs) : table[f].address = Placed(unit.funs, next_code)[f]
      /\ \A f \in OfKind(table, "function") :
           \/ \E w \in DOMAIN unit.funs : unit.funs[w] = f /\ table[f].address = next_code + w
           \/ f \in OfKind(symbols, "function") /\ table[f].address = symbols[f].address
  BY <1>1, CompilerTypes, CompilerResolves, CompilerPlaces DEF IInv, TypeOK
<1>3. ASSUME NEW f \in Range(unit.funs)
      PROVE  f \in OfKind(table, "function") /\ table[f].address >= Placed(unit.funs, next_code)[f]
  <2>1. f \in FunctionNames
    BY DEF FunctionNames
  <2>2. PICK i \in 1..Len(unit.funs) : Placed(unit.funs, next_code)[f] = next_code + i
    BY <1>2, UnitTypes, Placement
  <2> QED BY <1>2, <2>1, <2>2, FunctionsAreFunctions
<1>4. ASSUME NEW u \in kept, NoOlder(symbols, u), NEW f \in Range(Funs(u))
      PROVE  f \in OfKind(table, "function") /\ table[f].address >= Placed(Funs(u), Base(u))[f]
  <2>1. f \in OfKind(symbols, "function") /\ symbols[f].address >= Placed(Funs(u), Base(u))[f]
    BY <1>4 DEF NoOlder
  <2>2. f \in OfKind(table, "function")
    BY <1>2, <1>4, <2>1, KeptFunctions, FunctionsAreFunctions DEF OfKind
  <2>3. CASE table[f].address = symbols[f].address
    BY <2>1, <2>2, <2>3
  <2>4. ASSUME NEW w \in DOMAIN unit.funs, table[f].address = next_code + w
        PROVE  table[f].address >= Placed(Funs(u), Base(u))[f]
    <3>1. w \in Nat
      BY UnitTypes
    <3>2. Placed(Funs(u), Base(u))[f] \in Nat /\ Placed(Funs(u), Base(u))[f] < next_code
      BY <1>4, PlacedBelow
    <3> QED BY <1>2, <2>4, <3>1, <3>2
  <2> QED BY <1>2, <2>2, <2>3, <2>4
<1> QED BY <1>1, <1>3, <1>4 DEF NoOlder

\* A merge takes the other table's functions.
LEMMA MergingLatest ==
  ASSUME KindsApart, TypeOK, NEW t, NEW o, IsTable(t), IsTable(o), Apart(t), Apart(o),
         NEW u \in kept, NoOlder(o, u)
  PROVE  NoOlder(Merge(t, o), u)
<1> SUFFICES ASSUME NEW f \in Range(Funs(u))
             PROVE  /\ f \in OfKind(Merge(t, o), "function")
                    /\ Merge(t, o)[f].address >= Placed(Funs(u), Base(u))[f]
  BY DEF NoOlder
<1>1. f \in OfKind(o, "function") /\ o[f].address >= Placed(Funs(u), Base(u))[f]
  BY DEF NoOlder
<1>2. f \in DOMAIN o /\ f \in FunctionNames
  BY <1>1, KeptFunctions DEF OfKind
<1>3. IsTable(Merge(t, o)) /\ f \in DOMAIN Merge(t, o) /\ Merge(t, o)[f].address = o[f].address
  <2>1. /\ IsTable(Merge(t, o)) /\ DOMAIN Merge(t, o) = DOMAIN t \cup DOMAIN o
        /\ \A n \in DOMAIN t \cup DOMAIN o :
             Merge(t, o)[n].address = IF n \in DOMAIN o THEN o[n].address ELSE t[n].address
    BY Merging
  <2> QED BY <1>2, <2>1
<1>4. Apart(Merge(t, o))
  BY MergingApart
<1> QED BY <1>1, <1>2, <1>3, <1>4, FunctionsAreFunctions

\* Loading makes the condition no weaker.
LEMMA PlainFunctionsBefore ==
  ASSUME TypeOK, NEW unit \in Units, Load(unit), PlainFunctions'
  PROVE  PlainFunctions /\ (outer.unit # 0 => unit.funs = <<>>)
<1>1. /\ kept \subseteq DOMAIN units /\ kept' = kept \cup {NewUnit}
      /\ \A u \in DOMAIN units : units'[u] = units[u]
      /\ units'[NewUnit] = [source |-> unit, base |-> next_code,
                            first_string |-> next_string, within |-> outer.unit]
  BY Loading DEF TypeOK
<1>2. PlainFunctions
  BY <1>1 DEF PlainFunctions, EvaluatedStrings
<1>3. outer.unit # 0 => unit.funs = <<>>
  BY <1>1 DEF PlainFunctions, EvaluatedStrings
<1> QED BY <1>2, <1>3

\* The functions of what is kept, and of what is loaded, after a load.
LEMMA LoadedFunctions ==
  ASSUME TypeOK, NEW unit \in Units, Load(unit)
  PROVE  /\ \A u \in kept : Funs(u)' = Funs(u) /\ Base(u)' = Base(u)
         /\ \A u : u = NewUnit => Funs(u)' = unit.funs /\ Base(u)' = next_code
<1>1. /\ kept \subseteq DOMAIN units
      /\ \A u \in DOMAIN units : units'[u] = units[u]
      /\ units'[NewUnit] = [source |-> unit, base |-> next_code,
                            first_string |-> next_string, within |-> outer.unit]
  BY Loading DEF TypeOK
<1> QED BY <1>1 DEF Funs, Base

LEMMA SubmitLatest ==
  ASSUME KindsApart, IInv, TablesResolve, FInv, NEW unit \in Submitted, Submit(unit), PlainFunctions'
  PROVE  LatestKnown'
<1>1. /\ unit \in Units /\ Load(unit) /\ TypeOK /\ Apart(symbols) /\ outer = Idle
      /\ symbols' = symbols /\ outer' = Compiled(unit) /\ outer'.unit = NewUnit
  BY CompilerTypes DEF Units, Submit, IInv, TablesResolve
<1>2. kept' = kept \cup {NewUnit} /\ 0 \notin kept /\ NewUnit \notin kept
  <2>1. kept \subseteq DOMAIN units /\ DOMAIN units = 1..Len(units) /\ Len(units) \in Nat
    BY <1>1 DEF TypeOK
  <2>2. kept' = kept \cup {NewUnit} /\ NewUnit \notin DOMAIN units
    BY <1>1, Loading
  <2> QED BY <2>1, <2>2
<1>3. \A u \in kept : NoOlder(symbols, u)
  BY <1>1, <1>2, PlainFunctionsBefore DEF FInv, LatestKnown, Idle
<1>4. PICK table, new : table = Compiled(unit).table /\ new = NewUnit
  OBVIOUS
<1>5. \A u \in kept : Funs(u)' = Funs(u) /\ Base(u)' = Base(u)
  BY <1>1, LoadedFunctions
<1>6. Funs(new)' = unit.funs /\ Base(new)' = next_code
  BY <1>1, <1>4, LoadedFunctions
<1>7. \A u \in kept' \ {outer'.unit} : NoOlder(symbols, u)'
  BY <1>1, <1>2, <1>3, <1>5 DEF NoOlder, OfKind
<1>8. ASSUME NEW u \in kept PROVE NoOlder(outer.table, u)'
  <2>1. NoOlder(table, u)
    BY <1>1, <1>3, <1>4, CompilerLatest
  <2> QED BY <1>1, <1>4, <1>5, <2>1 DEF NoOlder, OfKind
<1>9. NoOlder(outer.table, new)'
  <2>1. \A f \in Range(unit.funs) :
          f \in OfKind(table, "function") /\ table[f].address >= Placed(unit.funs, next_code)[f]
    BY <1>1, <1>4, CompilerLatest
  <2> QED BY <1>1, <1>4, <1>6, <2>1 DEF NoOlder, OfKind
<1> QED BY <1>2, <1>4, <1>7, <1>8, <1>9 DEF LatestKnown

LEMMA EvalStringLatest ==
  ASSUME KindsApart, IInv, TablesResolve, FInv, NEW unit \in Evaluated, EvalString(unit), PlainFunctions'
  PROVE  LatestKnown'
<1>1. /\ unit \in Units /\ Load(unit) /\ TypeOK /\ outer # Idle /\ outer' = outer
      /\ Apart(symbols) /\ IsTable(symbols) /\ outer.unit # 0
  <2>1. unit \in Units /\ Load(unit) /\ outer # Idle /\ outer' = outer
    BY DEF Units, EvalString
  <2>2. TypeOK /\ IsTable(symbols) /\ outer.unit \in DOMAIN units
    BY <2>1 DEF IInv, TypeOK
  <2>3. DOMAIN units = 1..Len(units)
    BY <2>2 DEF TypeOK
  <2> QED BY <2>1, <2>2, <2>3 DEF TablesResolve
<1>2. kept' = kept \cup {NewUnit}
  BY <1>1, Loading
<1>3. /\ unit.funs = <<>>
      /\ \A u \in kept \ {outer.unit} : NoOlder(symbols, u)
      /\ \A u \in kept : NoOlder(outer.table, u)
  BY <1>1, PlainFunctionsBefore DEF FInv, LatestKnown
<1>4. PICK table, new : table = Compiled(unit).table /\ new = NewUnit
  OBVIOUS
<1>5. symbols' = Merge(symbols, table) /\ IsTable(table) /\ Apart(table)
  BY <1>1, <1>4, CompilerTypes, CompilerResolves DEF EvalString, Update
<1>6. \A u \in kept : Funs(u)' = Funs(u) /\ Base(u)' = Base(u)
  BY <1>1, LoadedFunctions
<1>7. Funs(new)' = <<>> /\ Range(<<>>) = {}
  BY <1>1, <1>3, <1>4, LoadedFunctions DEF Range
<1>8. ASSUME NEW u \in kept \ {outer.unit} PROVE NoOlder(symbols, u)'
  <2>1. NoOlder(table, u)
    BY <1>1, <1>3, <1>4, CompilerLatest
  <2>2. NoOlder(Merge(symbols, table), u)
    BY <1>1, <1>5, <2>1, MergingLatest
  <2> QED BY <1>5, <1>6, <2>2 DEF NoOlder, OfKind
<1>9. ASSUME NEW u \in kept PROVE NoOlder(outer.table, u)'
  BY <1>1, <1>3, <1>6 DEF NoOlder, OfKind
<1>10. NoOlder(symbols, new)' /\ NoOlder(outer.table, new)'
  BY <1>7 DEF NoOlder
<1> QED BY <1>1, <1>2, <1>4, <1>8, <1>9, <1>10 DEF LatestKnown

LEMMA FinishLatest ==
  ASSUME KindsApart, IInv, TablesResolve, FInv, Finish, PlainFunctions'
  PROVE  LatestKnown'
<1>1. /\ TypeOK /\ outer # Idle /\ outer' = Idle /\ kept' = kept /\ units' = units
      /\ symbols' = Merge(symbols, outer.table)
      /\ IsTable(symbols) /\ IsTable(outer.table) /\ Apart(symbols) /\ Apart(outer.table)
  BY DEF IInv, TypeOK, TablesResolve, Finish, Update
<1>2. \A u \in kept : NoOlder(outer.table, u)
  BY <1>1 DEF FInv, LatestKnown, PlainFunctions, EvaluatedStrings
<1>3. \A u \in kept : NoOlder(symbols', u)
  BY <1>1, <1>2, MergingLatest
<1> QED BY <1>1, <1>3 DEF LatestKnown, NoOlder, OfKind, Funs, Base

LEMMA FailLatest ==
  ASSUME FInv, Fail, PlainFunctions'
  PROVE  LatestKnown'
<1>1. /\ outer # Idle /\ outer' = Idle /\ symbols' = symbols
      /\ kept' = kept \ {outer.unit} /\ units' = units
  BY DEF Fail, sessionVars
<1>2. PlainFunctions
  BY <1>1 DEF PlainFunctions, EvaluatedStrings, FInv, OuterSubmitted
<1>3. \A u \in kept' : NoOlder(symbols, u)
  BY <1>1, <1>2 DEF FInv, LatestKnown
<1> QED BY <1>1, <1>3 DEF LatestKnown, NoOlder, OfKind, Funs, Base

LEMMA StepLatest ==
  ASSUME KindsApart
  PROVE  IInv /\ TablesResolve /\ LInv /\ FInv /\ [Next]_vars => FInv'
<1> SUFFICES ASSUME IInv, TablesResolve, LInv, FInv, [Next]_vars, PlainFunctions' PROVE LatestKnown'
  BY StepLiterals DEF FInv, LInv, LatestKnown
<1>1. CASE \E unit \in Submitted : Submit(unit)
  BY <1>1, SubmitLatest
<1>2. CASE \E unit \in Evaluated : EvalString(unit)
  BY <1>2, EvalStringLatest
<1>3. CASE Finish
  BY <1>3, FinishLatest
<1>4. CASE Fail
  BY <1>4, FailLatest
<1>5. CASE ResetSession
  BY <1>5 DEF ResetSession, LatestKnown
<1>6. CASE UNCHANGED vars
  BY <1>6 DEF vars, sessionVars, FInv, LatestKnown, PlainFunctions, EvaluatedStrings, NoOlder,
              OfKind, Funs, Base
<1> QED BY <1>1, <1>2, <1>3, <1>4, <1>5, <1>6 DEF Next

\* If no name is defined as both kinds, and no evaluated string defines a function, a
\* function's name stands for its latest definition whenever no expression runs, also
\* after definitions that failed.
THEOREM SessionLatestDefinition ==
  ASSUME KindsApart
  PROVE  Spec => []LatestDefinition
<1>1. Init => TablesResolve /\ LInv /\ FInv
  BY DEF Init, TablesResolve, Resolves, Apart, OfKind, Empty, Idle, LInv, LiteralsBelow,
         OuterSubmitted, FInv, LatestKnown
<1>2. IInv /\ FInv => LatestDefinition
  <2> SUFFICES ASSUME IInv, FInv, outer = Idle, PlainFunctions,
                      NEW f \in OfKind(symbols, "function"), NEW u \in kept,
                      f \in Range(units[u].source.funs)
               PROVE  symbols[f].address >= Placed(units[u].source.funs, units[u].base)[f]
    BY DEF LatestDefinition, PlainFunctions
  <2>1. 0 \notin kept
    BY DEF IInv, TypeOK
  <2> QED BY <2>1 DEF FInv, LatestKnown, Idle, NoOlder, Funs, Base
<1>3. IInv /\ TablesResolve /\ LInv /\ FInv /\ [Next]_vars => (TablesResolve /\ LInv /\ FInv)'
  BY StepResolves, StepLiterals, StepLatest
<1> QED BY <1>1, <1>2, <1>3, Invariance, PTL DEF Spec
=============================================================================
