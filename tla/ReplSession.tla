----------------------------- MODULE ReplSession ----------------------------
(***************************************************************************)
(* The persistent state of the REPL (REPLState of main.cpp) while users    *)
(* submit expressions, and the code they run evaluates or compiles others  *)
(* (EVAL and COMPILE).  Every expression gets a compiler of its own, which *)
(* imports the session's symbols and its next free addresses.              *)
(*                                                                         *)
(* Of an expression the model keeps what it adds to the session: the       *)
(* globals and functions it defines, the variables its lets bind, and its  *)
(* string literals.  The main code, a function and a literal each take one *)
(* word.                                                                   *)
(***************************************************************************)
EXTENDS SymbolTable, Sequences, FiniteSets, Functions

CONSTANTS CODE_SIZE, STRING_TABLE_START, VAR_START,
          Submitted,   \* the expressions that users type or load from files
          Evaluated,   \* the expressions that running code evaluates
          MaxUnits     \* bound: how many expressions are loaded

Unit == [vars : Seq(Names), funs : Seq(Names), lets : Nat, strings : Nat]

ASSUME LayoutAssumption ==
  /\ {CODE_SIZE, STRING_TABLE_START, VAR_START} \subseteq Nat
  /\ CODE_SIZE <= STRING_TABLE_START /\ STRING_TABLE_START <= VAR_START
  /\ MaxUnits \in Nat

\* A compiler refuses an expression that defines a global twice, and of two
\* functions with a name it keeps one.
ASSUME UnitsAssumption ==
  \A unit \in Submitted \cup Evaluated :
    unit \in Unit /\ IsInjective(unit.vars) /\ IsInjective(unit.funs)

VARIABLES symbols, next_var, next_string, next_code,
          code,      \* for each address, the unit whose word it holds, and which
          literals,  \* the same for the addresses of string literals
          outer,     \* the compiler of the expression that runs, or Idle
          units,     \* history: the expressions loaded, where, and within which that runs
          kept       \* history: those whose definitions the session keeps

sessionVars == <<symbols, next_var, next_string, next_code>>
memoryVars == <<code, literals>>
vars == <<sessionVars, memoryVars, outer, units, kept>>

Idle == [unit |-> 0]
Nobody == [unit |-> 0, word |-> 0]
Word == [unit : Nat, word : Nat]

TypeOK ==
  /\ IsTable(symbols) /\ {next_var, next_string, next_code} \subseteq Nat
  /\ next_code <= CODE_SIZE
  /\ code \in [0..CODE_SIZE-1 -> Word]
  /\ literals \in [DOMAIN literals -> Word] /\ DOMAIN literals \subseteq Nat
  /\ outer # Idle =>
       /\ outer.unit \in DOMAIN units /\ IsTable(outer.table)
       /\ {outer.first_var, outer.next_var, outer.next_string} \subseteq Nat
  /\ units \in Seq([source : Submitted \cup Evaluated, base : Nat, first_string : Nat, within : Nat])
  /\ kept \subseteq DOMAIN units

Init ==
  /\ symbols = Empty
  /\ next_var = VAR_START /\ next_string = STRING_TABLE_START /\ next_code = 0
  /\ code = [a \in 0..CODE_SIZE-1 |-> Nobody] /\ literals = [a \in {} |-> Nobody]
  /\ outer = Idle /\ units = <<>> /\ kept = {}

-----------------------------------------------------------------------------
(***************************************************************************)
(* A compiler: imports symbols and next addresses, and adds what the       *)
(* expression defines.  An imported global may not be defined again.       *)
(***************************************************************************)
NewUnit == Len(units) + 1

\* Fault: the size of the code without its functions.
SizeOfMain(unit) == 1

Size(unit) == 1 + Len(unit.funs)

\* The i-th of names is at start + i.
Placed(names, start) == [n \in Range(names) |-> start + AntiFunction(names)[n]]

Compiles(unit) ==
  Range(unit.vars) \cap OfKind(symbols, "variable") = {}

NoParams(names) == [n \in Range(names) |-> 0]

Compiled(unit) ==
  [unit |-> NewUnit,
   table |-> Define(Define(symbols, "variable", Placed(unit.vars, next_var - 1), NoParams(unit.vars)),
                    "function", Placed(unit.funs, next_code), NoParams(unit.funs)),
   first_var |-> next_var,
   next_var |-> next_var + Len(unit.vars) + unit.lets,
   next_string |-> next_string + unit.strings]

\* Fault: only the first word is checked.
FitsStart(unit) == next_code < CODE_SIZE

Fits(unit) == next_code + Size(unit) <= CODE_SIZE

\* load_program_at() and write_strings_to_memory(), then the next code address:
\* before the code runs, so that what it evaluates is loaded behind it.
Load(unit) ==
  /\ NewUnit <= MaxUnits
  /\ Fits(unit)
  /\ code' = [a \in 0..CODE_SIZE-1 |->
                IF a - next_code \in 0..Len(unit.funs)
                THEN [unit |-> NewUnit, word |-> a - next_code] ELSE code[a]]
  /\ literals' = [a \in DOMAIN literals \cup next_string..next_string + unit.strings - 1 |->
                    IF a >= next_string /\ a < next_string + unit.strings
                    THEN [unit |-> NewUnit, word |-> a - next_string] ELSE literals[a]]
  /\ next_code' = next_code + Size(unit)
  /\ units' = Append(units, [source |-> unit, base |-> next_code,
                             first_string |-> next_string, within |-> outer.unit])
  /\ kept' = kept \cup {NewUnit}

\* Fault: the next addresses stay.
UpdateSymbols(compiler) ==
  symbols' = Merge(symbols, compiler.table) /\ UNCHANGED <<next_var, next_string>>

\* Fault: the compiler's symbols replace the session's.
UpdateReplacing(compiler) ==
  /\ symbols' = compiler.table
  /\ next_var' = compiler.next_var /\ next_string' = compiler.next_string

\* merge() the compiler's symbols, and take its next addresses
Update(compiler) ==
  /\ symbols' = Merge(symbols, compiler.table)
  /\ next_var' = compiler.next_var
  /\ next_string' = compiler.next_string

\* compile_and_execute(), up to the execution.  An expression that does not compile
\* or does not fit changes nothing.
Submit(unit) ==
  /\ outer = Idle /\ Compiles(unit) /\ Load(unit)
  /\ outer' = Compiled(unit)
  /\ UNCHANGED <<symbols, next_var, next_string>>

\* compile_code_for_call(), when it succeeds
EvalString(unit) ==
  /\ outer # Idle /\ Compiles(unit) /\ Load(unit)
  /\ Update(Compiled(unit))
  /\ UNCHANGED outer

\* The execution returns, at its end or at the instruction limit.
Finish ==
  /\ outer # Idle /\ outer' = Idle
  /\ Update(outer)
  /\ UNCHANGED <<next_code, memoryVars, units, kept>>

\* The execution throws, in an instruction or in compile_code_for_call().
Fail ==
  /\ outer # Idle /\ outer' = Idle
  /\ kept' = kept \ {outer.unit}
  /\ UNCHANGED <<sessionVars, memoryVars, units>>

\* reset(), the command :reset
ResetSession ==
  /\ outer = Idle
  /\ symbols' = Empty
  /\ next_var' = VAR_START /\ next_string' = STRING_TABLE_START /\ next_code' = 0
  /\ kept' = {}
  /\ UNCHANGED <<memoryVars, outer, units>>

Next ==
  \/ \E unit \in Submitted : Submit(unit)
  \/ \E unit \in Evaluated : EvalString(unit)
  \/ Finish \/ Fail \/ ResetSession

Spec == Init /\ [][Next]_vars

-----------------------------------------------------------------------------
\* The code of every expression that the session keeps is still where it was
\* loaded: the functions it defined may be called by any later expression, and the
\* expression that runs is not overwritten by what it evaluates.
CodeKept ==
  \A u \in kept : \A w \in 0..Len(units[u].source.funs) :
    code[units[u].base + w] = [unit |-> u, word |-> w]

\* A function's symbol leads to code of a function of that name, also after
\* failures, nested evaluations and merges of older tables.
FunctionsResolve ==
  \A f \in OfKind(symbols, "function") :
    /\ symbols[f].address < CODE_SIZE
    /\ LET there == code[symbols[f].address] IN
       /\ there.unit \in kept
       /\ there.word \in DOMAIN units[there.unit].source.funs
       /\ units[there.unit].source.funs[there.word] = f

\* Only a reset forgets a name, or makes it a symbol of the other kind: what code
\* defines by evaluating it persists when the expression that ran it is over.
NamesKept ==
  [][\/ symbols' = Empty
     \/ \A n \in DOMAIN symbols : n \in DOMAIN symbols' /\ symbols'[n].kind = symbols[n].kind]_vars

\* "Each variable gets a unique 64-bit memory location." (docs/VARIABLES.md:281)
UniqueVariableAddress ==
  \A x, y \in OfKind(symbols, "variable") :
    x # y => symbols[x].address # symbols[y].address

\* The strings that running code evaluated and whose definitions the session keeps.
EvaluatedStrings == {u \in kept : units[u].within # 0}

\* As long as no evaluated string has bound a variable, no two variables share a
\* memory word, and none has a word that the running expression is about to add:
\* across failures, which take their words back, and resets.
VariablesApart ==
  (\A u \in EvaluatedStrings : units[u].source.vars = <<>> /\ units[u].source.lets = 0) =>
    /\ UniqueVariableAddress
    /\ outer # Idle =>
         \A x \in OfKind(symbols, "variable") :
           symbols[x].address \notin outer.first_var..outer.next_var - 1

\* As long as no evaluated string has had a literal, the literals of every expression
\* that the session keeps are intact.
LiteralsKept ==
  (\A u \in EvaluatedStrings : units[u].source.strings = 0) =>
    \A u \in kept : \A w \in 0..units[u].source.strings - 1 :
      literals[units[u].first_string + w] = [unit |-> u, word |-> w]

\* As long as no evaluated string has defined a function, a function's symbol stands
\* for its latest definition whenever no expression runs.
LatestDefinition ==
  (outer = Idle /\ \A u \in EvaluatedStrings : units[u].source.funs = <<>>) =>
    \A f \in OfKind(symbols, "function"), u \in kept :
      f \in Range(units[u].source.funs) =>
        symbols[f].address >= Placed(units[u].source.funs, units[u].base)[f]

\* The next code address advances before the execution "so that any nested
\* compile_for_eval calls don't overwrite the current program" (main.cpp:125), and a
\* program has code and strings (compiled_program.hpp:15).
CurrentProgramKept ==
  outer # Idle =>
    \A w \in 0..units[outer.unit].source.strings - 1 :
      literals[units[outer.unit].first_string + w] = [unit |-> outer.unit, word |-> w]
=============================================================================
