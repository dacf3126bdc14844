--------------------------- MODULE TranspileTool ----------------------------
(***************************************************************************)
(* make tokenizer, as for any file: transpile_tokenizer.cpp reads a file,  *)
(* parses its first expression, and writes the C++ program of it, which    *)
(* is compiled and run.                                                    *)
(***************************************************************************)
EXTENDS LispReader, CppProgram, LispMeaning

VARIABLES stage, program, printed

toolVars == <<file, ast, stage, program, printed>>

\* A file has the tree that it was written from, as LispMeaning has it.
ToolInit == ReaderInit /\ stage = "read" /\ program = Nothing /\ printed = Nothing

ReadFile ==
  /\ stage = "read" /\ ParseFile
  /\ stage' = IF ast' = Nothing THEN "failed" ELSE "parsed"
  /\ UNCHANGED <<program, printed>>

\* A tree that does not compile leaves no program.
Transpile ==
  /\ stage = "parsed"
  /\ LET compiled == Compile(ast) IN
     IF compiled.thrown THEN stage' = "failed" /\ program' = Nothing
     ELSE stage' = "written" /\ program' = compiled
  /\ UNCHANGED <<file, ast, printed>>

Build ==
  /\ stage = "written"
  /\ stage' = IF WellFormed(program) THEN "built" ELSE "rejected"
  /\ UNCHANGED <<file, ast, program, printed>>

RunProgram ==
  /\ stage = "built" /\ stage' = "ran"
  /\ printed' = Printed(program)
  /\ UNCHANGED <<file, ast, program>>

ToolNext == ReadFile \/ Transpile \/ Build \/ RunProgram

ToolSpec == ToolInit /\ [][ToolNext]_toolVars

-----------------------------------------------------------------------------
(***************************************************************************)
(* What a program may do that its translation does not follow.             *)
(***************************************************************************)
Subforms(n) ==
  CASE n[1] \in {"number", "symbol", "string", "define-struct"} -> <<>>
    [] n[1] = "let" -> [k \in DOMAIN n[2] |-> n[2][k][2]] \o SubSeq(n, 3, Len(n))
    [] n[1] = "for" -> Tail(n[2]) \o SubSeq(n, 3, Len(n))
    [] n[1] \in {"define-func", "define-var", "set", "list-set!", "member"} -> SubSeq(n, 3, Len(n))
    [] n[1] \in {"make", "set-member!"} -> SubSeq(n, 4, Len(n))
    [] OTHER -> Tail(n)

RECURSIVE Everywhere(_)
Everywhere(n) == {n} \cup UNION {Everywhere(m) : m \in Range(Subforms(n))}

\* The variables that the text of n names, the C++ expression that is left of it
RECURSIVE Reads(_)
Reads(n) ==
  CASE n[1] \in {"symbol", "set"} -> {n[2]}
    [] n[1] \in {"do", "list-set!", "set-member!"} -> Reads(Last(n))
    [] n[1] \in {"number", "string", "if", "let", "while", "for", "list", "make",
                 "define-var", "define-func", "define-struct"} -> {}
    [] OTHER -> UNION {Reads(m) : m \in Range(Subforms(n))}

\* The variables from outside n that it assigns
RECURSIVE Writes(_)
Writes(n) ==
  LET inside == UNION {Writes(m) : m \in Range(Subforms(n))}
  IN CASE n[1] \in {"set", "define-var", "list-set!"} -> {n[2]} \cup inside
       [] n[1] = "set-member!" -> {n[3]} \cup inside
       [] n[1] = "let" -> UNION {Writes(n[2][k][2]) : k \in DOMAIN n[2]} \cup (inside \ {n[2][k][1] : k \in DOMAIN n[2]})
       [] n[1] = "for" -> UNION {Writes(n[2][k]) : k \in {2, 3}} \cup (inside \ {n[2][1]})
       [] n[1] = "define-func" -> {}
       [] OTHER -> inside

\* Parts whose texts stand in one C++ expression, which is evaluated after all that
\* the parts hoist
Operands(n) ==
  CASE n[1] = "for" -> Tail(n[2])
    [] n[1] \in {"list-set!", "set-member!"} -> <<<<"symbol", IF n[1] = "list-set!" THEN n[2] ELSE n[3]>>>> \o Subforms(n)
    [] n[1] \in {"let", "if", "while", "do", "set", "define-var", "define-func"} -> <<>>
    [] OTHER -> Subforms(n)

\* A variable is assigned between the place where its value is wanted and the one
\* where it is taken.
Overtaken(n) ==
  LET operands == Operands(n) IN
  \/ \E j \in DOMAIN operands, i \in 1..Len(operands) : i < j /\ Reads(operands[i]) \cap Writes(operands[j]) # {}
  \/ n[1] = "for" /\ \/ Reads(n[2][3]) \cap UNION {Writes(n[k]) : k \in 3..Len(n)} # {}
                     \/ <<"symbol", n[2][1]>> \in Everywhere(n[2][3]) \/ n[2][1] \in Writes(n[2][3])
  \/ n[1] \in {"list-set!", "set-member!"} /\ Reads(Head(operands)) \cap Reads(Last(n)) # {}

\* A variable's initialiser names the variable itself.
SelfInitialised(n) ==
  \/ n[1] = "let" /\ \E k \in DOMAIN n[2] : n[2][k][1] \in Reads(n[2][k][2])
  \/ n[1] = "for" /\ n[2][1] \in Reads(n[2][2])

Names(n) ==
  CASE n[1] = "let" -> {n[2][k][1] : k \in DOMAIN n[2]}
    [] n[1] = "for" -> {n[2][1]}
    [] n[1] = "define-var" -> {n[2]}
    [] n[1] = "define-func" -> Range(n[2][2])
    [] OTHER -> {}

\* The names that n defines in the scope it stands in
RECURSIVE NewNames(_)
NewNames(n) ==
  IF n[1] \in {"let", "for", "define-func"} THEN {}
  ELSE Names(n) \cup UNION {NewNames(m) : m \in Range(Subforms(n))}

\* An inner scope defines a name that is known around it.
RECURSIVE Redefines(_, _)
Redefines(n, known) ==
  IF n[1] \in {"let", "for", "define-func"}
  THEN LET new == UNION {NewNames(m) : m \in Range(Subforms(n))} IN
       new \cap known # {} \/ \E m \in Range(Subforms(n)) : Redefines(m, known \cup new \cup Names(n))
  ELSE \E m \in Range(Subforms(n)) : Redefines(m, known)

\* The machine divides and shifts words without a sign.
OfNegative(n) ==
  n[1] \in {"/", "%", "bit-shr"} /\ \E m \in Range(Tail(n)) : m[1] # "number" \/ m[2] < 0

Overflows(n) ==
  n[1] \in OperatorForms /\ Len(n) = 3 /\ n[2][1] = "number" /\ n[3][1] = "number"
  /\ ~HasBehaviour(IF n[1] = "bit-shr" THEN "bit-ashr" ELSE n[1], n[2][2], n[3][2])

\* A definition's value is used, which is 0 in C++.
TakesDefinition(n) ==
  \E m \in CASE n[1] \in {"do", "let"} -> {Last(n)}
             [] n[1] \in {"while", "for"} -> Range(Operands(n))
             [] OTHER -> Range(Subforms(n)) : m[1] = "define-var"

\* Does the C++ of n declare a variable with a value, where it stands?
RECURSIVE Initialising(_)
Initialising(n) ==
  n[1] \in {"let", "define-var", "list", "make"}
  \/ \E m \in CASE n[1] = "if" -> {n[2]} [] n[1] = "for" -> {n[2][2], n[2][3]} [] n[1] = "define-func" -> {}
                [] OTHER -> Range(Subforms(n)) : Initialising(m)

\* A goto passes an initialisation.
JumpsOver(n) == n[1] = "while" /\ \E k \in 3..Len(n) : Initialising(n[k])

\* A name outlives the C++ block that it is declared in.
DefinesInBlock(n) ==
  \E m \in CASE n[1] = "if" -> {n[3], n[4]} [] n[1] = "for" -> {n[k] : k \in 3..Len(n)} [] OTHER -> {} :
     NewNames(m) # {}

\* A function sees more than its parameters.
SeesGlobals(n) ==
  n[1] = "define-func" /\
  LET inside == Everywhere(n[3])
      bound == Range(n[2][2]) \cup UNION {Names(m) : m \in inside}
  IN \E m \in inside : m[1] \in {"symbol", "set"} /\ m[2] \notin bound

BindsTwice(n) == n[1] = "let" /\ ~IsInjective([k \in DOMAIN n[2] |-> n[2][k][1]])

BeyondNumbers(n) == n[1] \in {"string", "list", "define-struct"}

-----------------------------------------------------------------------------
Meant == Means(Blank, file.tree)

\* What is printed, as a word of the machine
PrintedWord == IF printed # Undefined /\ program.result_type = Int64 THEN printed[2] % WordSize ELSE printed[2]

Has(P(_)) == \E n \in Everywhere(file.tree) : P(n)

RECURSIVE SymbolsOf(_)
SymbolsOf(node) ==
  CASE IsList(node) -> UNION {SymbolsOf(m) : m \in Range(Items(node))}
    [] IsSymbol(node) -> {NameOf(node)} \ (Arithmetic \cup Comparisons)
    [] OTHER -> {}

\* In C++ the names are as different from each other, and from the transpiler's own.
NamesApart ==
  \A x, y \in SymbolsOf(ast) :
    /\ SanitizeName(x) = SanitizeName(y) => x = y
    /\ SanitizeName(x) \notin Keywords \cup {<<"result">>, <<"argc">>, <<"argv">>}
    /\ ~\E word \in {"var", "str", "vec"} : Begins(NameText(SanitizeName(x)), word)

\* A program prints what the tree means to the virtual machine, unless it assigns a
\* variable between the operands of one expression, redefines a name in an inner scope,
\* uses a definition's value, divides or shifts what may be negative, or has names that
\* are the same in C++.
Agrees ==
  /\ stage = "ran" /\ printed # Undefined /\ ~Failed(Meant)
  /\ ~Has(Overtaken) /\ ~Redefines(file.tree, NewNames(file.tree)) /\ ~Has(TakesDefinition)
  /\ ~Has(OfNegative) /\ NamesApart
  => PrintedWord = Meant.value

\* What the machine computes is defined in C++, unless a variable is initialised with
\* itself or numbers leave their range.
Defined ==
  stage = "ran" /\ ~Failed(Meant) /\ ~Has(SelfInitialised) /\ ~Has(Overflows) => printed # Undefined

\* What the transpiler writes for a program over numbers is C++, unless a loop's body
\* declares something, a definition stands in a block that its use is not in, a function
\* sees a global, or names clash.
Builds ==
  /\ stage = "rejected" /\ ~Failed(Meant)
  => \/ Has(JumpsOver) \/ Has(DefinesInBlock) \/ Has(SeesGlobals) \/ Has(BindsTwice)
     \/ ~NamesApart \/ Has(BeyondNumbers)
=============================================================================
