---------------------------- MODULE CppProgram ------------------------------
(***************************************************************************)
(* What C++17 says of the programs that LispToCpp writes: which of them    *)
(* are well-formed, and what those print.  The int64_t has WORD_BITS bits. *)
(* Strings are sequences of the numbers of their characters.  Native code  *)
(* has no meaning here.                                                    *)
(***************************************************************************)
EXTENDS LispToCpp, MachineWord

CONSTANTS Ascii,        \* the number of a character
          Keywords,     \* names that C++ keeps for itself
          MaxTurns      \* bound: turns of one loop; more stand for ever

InRange(n) == -(2^(WORD_BITS - 1)) <= n /\ n < 2^(WORD_BITS - 1)

\* String literals, between their quotes
Rest(literal) == SubSeq(literal, 3, Len(literal))

RECURSIVE Terminated(_)
Terminated(literal) ==
  CASE literal = <<>> -> TRUE
    [] literal[1] = "\\" -> Len(literal) > 1 /\ Terminated(Rest(literal))
    [] OTHER -> literal[1] \notin {"\"", "\n"} /\ Terminated(Tail(literal))

RECURSIVE Unescaped(_)
Unescaped(literal) ==
  CASE literal = <<>> -> <<>>
    [] literal[1] = "\\" -> <<CASE literal[2] = "n" -> "\n" [] literal[2] = "t" -> "\t" [] OTHER -> literal[2]>>
                            \o Unescaped(Rest(literal))
    [] OTHER -> <<literal[1]>> \o Unescaped(Tail(literal))

(***************************************************************************)
(* Well-formed programs.  A block maps the names that it declares to their *)
(* types; functions are those declared so far.                             *)
(***************************************************************************)
Wrong == <<"wrong">>

DeclaredIn(blocks, x) == \E i \in DOMAIN blocks : x \in DOMAIN blocks[i]
Innermost(blocks, x) ==
  blocks[CHOOSE i \in DOMAIN blocks : /\ x \in DOMAIN blocks[i]
                                      /\ \A j \in i + 1..Len(blocks) : x \notin DOMAIN blocks[j]]

IsIdentifier(x) == x # <<>> /\ ~Contains(Decimals, x[1]) /\ x \notin Keywords

\* A variable hides a struct of its name.
TypeNamed(blocks, type) == type[1] = "struct" => ~DeclaredIn(blocks, type[2])

Fields(program, S) == (CHOOSE d \in Range(program.structs) : d.name = S).fields
OneField(program, type) == type[1] = "struct" /\ Len(Fields(program, type[2])) = 1

\* Can an expression of one type be taken for another?  The literal 0 is a null pointer,
\* which a string can be made of, and a struct of one field can be made of an int64_t.
Converts(program, to, from, e) ==
  \/ to = from /\ to # Wrong
  \/ from = Int64 /\ ((to = String /\ e = Zero) \/ OneField(program, to))

\* The function that is called: all arguments convert, and of those that take some as
\* they are it takes the most.
Overload(program, f, es, types) ==
  LET viable == {g \in Range(program.functions) :
                   /\ g.name = f /\ Len(g.param_types) = Len(es)
                   /\ \A i \in DOMAIN es : Converts(program, g.param_types[i], types[i], es[i])}
      exact(g) == {i \in DOMAIN es : g.param_types[i] = types[i]}
  IN {g \in viable : \A h \in viable \ {g} : exact(h) \subseteq exact(g) /\ exact(h) # exact(g)}

\* The type of an expression whose parts have these types
TypeOver(program, e, types) ==
  LET all(S, needed, result) == IF \A i \in S : types[i] = needed THEN result ELSE Wrong
  IN CASE e[1] = "member" ->
            IF types[2][1] = "struct" /\ e[3] \in Range(Fields(program, types[2][2])) THEN Int64 ELSE Wrong
       [] e[1] = "length" -> all({2}, String, Int64)
       [] e[1] = "size" -> IF types[2] \in {String, Vector} THEN Int64 ELSE Wrong
       [] e[1] \in {"index", "char"} -> IF types[2] \in {String, Vector} THEN all({3}, Int64, Int64) ELSE Wrong
       [] e[1] = "substr" -> IF types[2] = String THEN all({3, 4}, Int64, String) ELSE Wrong
       [] e[1] = "concat" -> all({2, 3}, String, String)
       [] types[2] = String /\ e[1] \in {"=", "<", ">", "<=", ">="} -> all({2, 3}, String, Int64)
       [] types[2] = String /\ e[1] = "+" -> all({2, 3}, String, String)
       [] OTHER -> all({2, 3}, Int64, Int64)

ResultType(called) == IF called = {} THEN Wrong ELSE (CHOOSE g \in called : TRUE).type

RECURSIVE TypeOf(_, _, _)
TypeOf(program, blocks, e) ==
  LET each(es) == [i \in DOMAIN es |-> TypeOf(program, blocks, es[i])]
  IN CASE e[1] = "number" -> Int64
       [] e[1] = "string" -> IF Terminated(e[2]) THEN String ELSE Wrong
       [] e[1] = "name" -> IF DeclaredIn(blocks, e[2]) THEN Innermost(blocks, e[2])[e[2]] ELSE Wrong
       [] e[1] = "call" -> ResultType(Overload(program, e[2], e[3], each(e[3])))
       [] e[1] = "native" -> Wrong
       [] OTHER -> TypeOver(program, e, each(e))

\* A string is assigned an int64_t as its character; the literal 0 is ambiguous.
Assignable(program, to, from, e) ==
  IF to = String /\ from = Int64 THEN e # Zero ELSE Converts(program, to, from, e)

\* A field of what a function returns cannot be assigned.
IsLValue(e) == e[1] # "member" \/ e[2][1] = "name"

HasDefault(type) == type \in {Int64, String, Vector} \/ type[1] = "struct"

\* Does a jump over the statement pass an initialisation?
RECURSIVE Initialises(_)
Initialises(statement) ==
  CASE statement[1] \in {"init", "construct"} -> TRUE
    [] statement[1] = "declare" -> statement[2] # Int64
    [] statement[1] = "loop" -> \E part \in {statement[2], statement[4]} : \E i \in DOMAIN part : Initialises(part[i])
    [] OTHER -> FALSE

\* What has been checked: the blocks that are open, and whether all was right.
Declared(c, type, x, right) ==
  [c EXCEPT !.blocks[Len(c.blocks)] = (x :> type) @@ @,
            !.right = @ /\ right /\ x \notin DOMAIN Last(c.blocks) /\ IsIdentifier(x)]
Right(c, right) == [c EXCEPT !.right = @ /\ right]

RECURSIVE Checked(_, _, _)

CheckedBlock(program, c, block, statements) ==
  [Checked(program, [c EXCEPT !.blocks = Append(@, block)], statements) EXCEPT !.blocks = c.blocks]

CheckedStatement(program, c, s) ==
  LET type(e) == TypeOf(program, c.blocks, e)
      inside(d, statements) == CheckedBlock(program, d, None, statements)
      \* a name is in scope in its own initialiser
      own(t, e) == TypeOf(program, Append(c.blocks, s[3] :> t), e)
      named == HasDefault(s[2]) /\ TypeNamed(c.blocks, s[2])
      copies == Len(s[4]) = 1 /\ type(s[4][1]) = s[2]
  IN CASE s[1] = "declare" -> Declared(c, s[2], s[3], named)
       [] s[1] = "init" /\ s[2] = Auto -> Declared(c, type(s[4]), s[3], own(Wrong, s[4]) # Wrong)
       [] s[1] = "init" -> Declared(c, s[2], s[3], named /\ Converts(program, s[2], own(s[2], s[4]), s[4]))
       [] s[1] = "construct" ->
            Declared(c, s[2], s[3], named /\ (copies \/ \A i \in DOMAIN s[4] : type(s[4][i]) = Int64))
       [] s[1] = "assign" -> Right(c, IsLValue(s[2]) /\ Assignable(program, type(s[2]), type(s[3]), s[3]))
       [] s[1] = "evaluate" -> Right(c, type(s[2]) # Wrong)
       [] s[1] = "if" -> inside(inside(Right(c, type(s[2]) = Int64), s[3]), s[4])
       [] s[1] = "block" -> inside(c, s[2])
       [] s[1] = "loop" ->
            LET test == Checked(program, c, s[2])
                body == Checked(program, Right(test, TypeOf(program, test.blocks, s[3]) = Int64), s[4])
            IN Right(body, \A i \in DOMAIN s[4] : ~Initialises(s[4][i]))
       [] s[1] = "for" ->
            LET head == Append(c.blocks, s[2] :> Int64) IN
            CheckedBlock(program,
              Right(c, IsIdentifier(s[2]) /\ \A i \in {3, 4} : TypeOf(program, head, s[i]) = Int64),
              s[2] :> Int64, s[5])
       [] OTHER -> Right(c, FALSE)

Checked(program, c, statements) ==
  FoldLeft(LAMBDA d, s : CheckedStatement(program, d, s), c, statements)

CheckedFunction(program, f) ==
  LET params == [x \in Range(f.params) |-> f.param_types[CHOOSE i \in DOMAIN f.params : f.params[i] = x]]
      body == Checked(program, [blocks |-> <<params>>, right |-> TRUE], f.code)
  IN /\ body.right /\ IsInjective(f.params) /\ \A x \in Range(f.params) : IsIdentifier(x)
     /\ \A i, j \in DOMAIN f.params : i < j => f.param_types[j] # <<"struct", f.params[i]>>
     /\ Converts(program, f.type, TypeOf(program, body.blocks, f.result), f.result)

\* A function sees itself and those before it.
UpTo(program, i) == [program EXCEPT !.functions = SubSeq(@, 1, i)]

WellFormed(program) ==
  LET all == program.functions
      main == Checked(program, [blocks |-> <<(<<"argc">> :> Int64) @@ (<<"argv">> :> Wrong)>>, right |-> TRUE],
                      Append(program.code, <<"init", program.result_type, <<"result">>, program.result>>))
  IN /\ ~program.thrown
     /\ \A i, j \in DOMAIN program.structs : program.structs[i].name = program.structs[j].name => i = j
     /\ \A S \in Range(program.structs) :
          /\ S.fields # <<>> /\ IsInjective(S.fields) /\ S.name \notin Range(S.fields)
          /\ \A x \in {S.name} \cup Range(S.fields) : IsIdentifier(x) /\ SanitizeName(x) = x
     /\ \A i, j \in DOMAIN all : all[i].name = all[j].name /\ all[i].param_types = all[j].param_types => i = j
     /\ \A i \in DOMAIN all : CheckedFunction(UpTo(program, i), all[i])
     /\ main.right /\ program.result_type \in {Int64, String}

(***************************************************************************)
(* Execution.  A value comes with its type, and the variables of the open  *)
(* blocks have a type and hold a value; what the standard gives no         *)
(* behaviour makes the rest undefined.                                     *)
(***************************************************************************)
Typed(type, v) == <<"value", v, type>>
Integer(n) == Typed(Int64, n)
Undefined == <<"undefined">>   \* also what an int64_t holds that was never assigned

SomeUndefined(values) == \E i \in DOMAIN values : values[i] = Undefined

Cell(type, held) == [type |-> type, held |-> held]

Magnitude(n) == IF n < 0 THEN -n ELSE n
Quotient(a, b) == LET q == Magnitude(a) \div Magnitude(b) IN IF (a < 0) = (b < 0) THEN q ELSE -q

WrappedInt(n) == ((n + 2^(WORD_BITS - 1)) % 2^WORD_BITS) - 2^(WORD_BITS - 1)
Bitwise2(op, a, b) ==
  LET bit(x, y) == CASE op = "bit-and" -> x * y [] op = "bit-or" -> x + y - x * y [] op = "bit-xor" -> (x + y) % 2
  IN WrappedInt(FoldLeft(LAMBDA s, i : s + bit(Bit(i, a), Bit(i, b)) * 2^i, 0, [i \in 1..WORD_BITS |-> i - 1]))

Compared(op, a, b) ==
  CASE op = "=" -> a = b [] op = "<" -> a < b [] op = ">" -> a > b [] op = "<=" -> a <= b [] op = ">=" -> a >= b

Exact(op, a, b) == CASE op = "+" -> a + b [] op = "-" -> a - b [] op = "*" -> a * b

Computed(op, a, b) ==
  CASE op \in {"+", "-", "*"} -> Exact(op, a, b)
    [] op = "/" -> Quotient(a, b)
    [] op = "%" -> a - b * Quotient(a, b)
    [] op \in {"bit-and", "bit-or", "bit-xor"} -> Bitwise2(op, a, b)
    [] op = "bit-shl" -> WrappedInt(a * 2^b)
    [] op = "bit-ashr" -> a \div 2^b
    [] OTHER -> IF Compared(op, a, b) THEN 1 ELSE 0

\* Not division by zero, overflow, or shifts by or of what they must not
HasBehaviour(op, a, b) ==
  CASE op \in {"+", "-", "*"} -> InRange(Exact(op, a, b))
    [] op \in {"/", "%"} -> b # 0 /\ InRange(Quotient(a, b))
    [] op = "bit-shl" -> b \in 0..WORD_BITS - 1 /\ a >= 0 /\ a * 2^b < 2^WORD_BITS
    [] op = "bit-ashr" -> b \in 0..WORD_BITS - 1
    [] OTHER -> TRUE

\* Characters i to j of a string, counted from 0, as far as it has them
Part(string, i, j) == SubSeq(string, i + 1, IF j < Len(string) THEN j ELSE Len(string))

RECURSIVE Value(_, _, _)
RECURSIVE Executed(_, _, _)

\* What is made of a value where another type is wanted; of a null pointer, nothing is.
Converted(program, to, held) ==
  CASE held = Undefined -> Undefined
    [] to = held[3] -> held
    [] to = String -> Undefined
    [] OTHER -> Typed(to, [f \in Range(Fields(program, to[2])) |-> held[2]])

Returned(program, g, m) ==
  IF m.defined THEN Converted(program, g.type, Value(program, m.blocks, g.result)) ELSE Undefined

Applied(program, g, passed) ==
  LET position(x) == CHOOSE i \in DOMAIN g.params : g.params[i] = x
      frame == [x \in Range(g.params) |-> Cell(g.param_types[position(x)], passed[position(x)])]
  IN IF SomeUndefined(passed) THEN Undefined
     ELSE Returned(program, g, Executed(program, [blocks |-> <<frame>>, defined |-> TRUE], g.code))

Called(program, i, arguments) ==
  LET g == program.functions[i] IN
  Applied(UpTo(program, i), g, [k \in DOMAIN arguments |-> Converted(program, g.param_types[k], arguments[k])])

CalledWith(program, f, es, arguments) ==
  IF SomeUndefined(arguments) THEN Undefined
  ELSE Called(program, CHOOSE i \in DOMAIN program.functions :
                program.functions[i] \in Overload(program, f, es, [k \in DOMAIN es |-> arguments[k][3]]), arguments)

\* The value of an expression whose parts have these values
ValueOver(e, values) ==
  LET v(i) == values[i][2]
      parts == CASE e[1] \in {"length", "size", "member"} -> {2} [] e[1] = "substr" -> {2, 3, 4} [] OTHER -> {2, 3}
  IN CASE \E i \in parts : values[i] = Undefined -> Undefined
       [] e[1] \in {"length", "size"} -> Integer(Len(v(2)))
       [] e[1] = "member" -> Integer(v(2)[e[3]])
       [] e[1] \in {"index", "char"} -> IF v(3) + 1 \in DOMAIN v(2) THEN Integer(v(2)[v(3) + 1]) ELSE Undefined
       [] e[1] = "substr" ->
            IF v(3) \in 0..Len(v(2)) /\ v(3) <= v(4) THEN Typed(String, Part(v(2), v(3), v(4))) ELSE Undefined
       [] e[1] = "concat" -> Typed(String, v(2) \o v(3))
       [] OTHER -> IF HasBehaviour(e[1], v(2), v(3)) THEN Integer(Computed(e[1], v(2), v(3))) ELSE Undefined

\* Expressions change nothing, so the order of their operands does not matter.
Value(program, blocks, e) ==
  LET each(es) == [i \in DOMAIN es |-> Value(program, blocks, es[i])]
  IN CASE e[1] = "number" -> Integer(e[2])
       [] e[1] = "string" ->
            LET literal == Unescaped(e[2]) IN Typed(String, [i \in DOMAIN literal |-> Ascii[literal[i]]])
       [] e[1] = "name" -> Innermost(blocks, e[2])[e[2]].held
       [] e[1] = "call" -> CalledWith(program, e[2], e[3], each(e[3]))
       [] OTHER -> ValueOver(e, each(e))

Stop(m) == [m EXCEPT !.defined = FALSE]
Bound(m, x, type, held) == [m EXCEPT !.blocks[Len(m.blocks)] = (x :> Cell(type, held)) @@ @]

\* What the innermost variable x holds becomes what change makes of its cell.
Changed(m, x, change(_)) ==
  LET block == CHOOSE i \in DOMAIN m.blocks : /\ x \in DOMAIN m.blocks[i]
                                             /\ \A j \in i + 1..Len(m.blocks) : x \notin DOMAIN m.blocks[j]
  IN [m EXCEPT !.blocks[block][x].held = change(m.blocks[block][x])]

Default(program, type) ==
  CASE type = Int64 -> Undefined
    [] type[1] = "struct" -> Typed(type, [f \in Range(Fields(program, type[2])) |-> 0])
    [] OTHER -> Typed(type, <<>>)

Opening(m) == [m EXCEPT !.blocks = Append(@, None)]
Closing(m) == [m EXCEPT !.blocks = Front(@)]

ExecutedBlock(program, m, statements) == Closing(Executed(program, Opening(m), statements))

Initialised(program, m, type, x, e) ==
  LET value == Value(program, Append(m.blocks, x :> Cell(type, Undefined)), e)
      held == IF type = Auto THEN value ELSE Converted(program, type, value)
  IN IF held = Undefined THEN Stop(m) ELSE Bound(m, x, held[3], held)

Constructed(program, m, type, x, es) ==
  LET held == [i \in DOMAIN es |-> Value(program, m.blocks, es[i])]
      part(f) == held[SelectInSeq(Fields(program, type[2]), LAMBDA g : g = f)][2]
  IN CASE SomeUndefined(held) -> Stop(m)
       [] Len(es) = 1 /\ held[1][3] = type -> Bound(m, x, type, held[1])
       [] type = Vector -> Bound(m, x, type, Typed(type, [i \in DOMAIN es |-> held[i][2]]))
       [] OTHER -> Bound(m, x, type, Typed(type, [f \in Range(Fields(program, type[2])) |-> part(f)]))

AsCharacter(n) == ((n + 128) % 256) - 128

\* An int64_t that is assigned to a string becomes its only character.  A part of what
\* is no variable is a temporary.
Assignment(program, m, target, e) ==
  LET held == Value(program, m.blocks, e)
      index == Value(program, m.blocks, target[3])
      position == index[2] + 1
  IN CASE held = Undefined -> Stop(m)
       [] target[1] = "name" ->
            Changed(m, target[2], LAMBDA c :
              IF c.type = String /\ held[3] = Int64 THEN Typed(String, <<AsCharacter(held[2])>>)
              ELSE Converted(program, c.type, held))
       [] target[2][1] # "name" -> m
       [] target[1] = "member" ->
            Changed(m, target[2][2], LAMBDA c : Typed(c.type, [c.held[2] EXCEPT ![target[3]] = held[2]]))
       [] index = Undefined -> Stop(m)
       [] position \notin DOMAIN Value(program, m.blocks, target[2])[2] -> Stop(m)
       [] OTHER -> Changed(m, target[2][2], LAMBDA c :
              Typed(c.type, [c.held[2] EXCEPT
                               ![position] = IF c.type = String THEN AsCharacter(held[2]) ELSE held[2]]))

\* Turns of a loop, whose statements are no block
RECURSIVE Looped(_, _, _, _)
Looped(program, m, s, turns) ==
  LET test == Executed(program, m, s[2])
      held == Value(program, test.blocks, s[3])
  IN CASE ~test.defined \/ held = Undefined \/ turns = 0 -> Stop(m)
       [] held[2] = 0 -> test
       [] OTHER -> Looped(program, Executed(program, test, s[4]), s, turns - 1)

\* The end is computed before every turn, with the variable in scope.
RECURSIVE Counting(_, _, _, _)
Counting(program, m, s, turns) ==
  LET test == Value(program, m.blocks, <<"<", <<"name", s[2]>>, s[4]>>)
      body == ExecutedBlock(program, m, s[5])
      next == Assignment(program, body, <<"name", s[2]>>, <<"+", <<"name", s[2]>>, <<"number", 1>>>>)
  IN CASE ~m.defined \/ test = Undefined \/ turns = 0 -> Stop(m)
       [] test[2] = 0 -> m
       [] ~body.defined -> body
       [] OTHER -> Counting(program, next, s, turns - 1)

ExecutedStatement(program, m, s) ==
  LET held == Value(program, m.blocks, s[2])
  IN CASE ~m.defined -> m
       [] s[1] = "declare" -> Bound(m, s[3], s[2], Default(program, s[2]))
       [] s[1] = "init" -> Initialised(program, m, s[2], s[3], s[4])
       [] s[1] = "construct" -> Constructed(program, m, s[2], s[3], s[4])
       [] s[1] = "assign" -> Assignment(program, m, s[2], s[3])
       [] s[1] = "evaluate" -> IF s[2][1] # "name" /\ held = Undefined THEN Stop(m) ELSE m
       [] s[1] = "if" -> IF held = Undefined THEN Stop(m)
                         ELSE ExecutedBlock(program, m, IF held[2] # 0 THEN s[3] ELSE s[4])
       [] s[1] = "block" -> ExecutedBlock(program, m, s[2])
       [] s[1] = "loop" -> Looped(program, m, s, MaxTurns)
       [] s[1] = "for" ->
            Closing(Counting(program, Initialised(program, Opening(m), Int64, s[2], s[3]), s, MaxTurns))

Executed(program, m, statements) ==
  FoldLeft(LAMBDA n, s : ExecutedStatement(program, n, s), m, statements)

\* What a well-formed program prints
Printed(program) ==
  LET m == Executed(program, [blocks |-> <<None>>, defined |-> TRUE],
                    Append(program.code, <<"init", program.result_type, <<"result">>, program.result>>))
  IN IF m.defined THEN m.blocks[1][<<"result">>].held ELSE Undefined
=============================================================================
