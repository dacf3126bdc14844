---------------------------- MODULE LispMeaning -----------------------------
(***************************************************************************)
(* What the trees of LispCompiler mean, without code, stack or addresses:  *)
(* lexical scopes, a fresh location for every binding, operands from left  *)
(* to right, a failure that stops everything.  Words of the heap are       *)
(* locations of their own.  Strings, lists and structs are values, which   *)
(* a variable has for itself; a struct's parts are                         *)
(*   <<"make", S, <<field, ...>>, value, ...>>, <<"member", field, value>> *)
(*   and <<"set-member!", field, x, value>>.                               *)
(* System calls, abort, the addresses of strings and symbols, and code     *)
(* kept by compile have no meaning here.                                   *)
(***************************************************************************)
EXTENDS MachineWord, SequencesExt, Bitwise, TLC

CONSTANT Texts   \* from the strings that can be parsed to their trees

Nowhere == [x \in {} |-> <<"variable", 0>>]

NoFunctions == [f \in {} |-> <<>>]

\* Nothing defined, nothing stored.  Every expression has a world, the functions it
\* calls; a function calls those of the world it was defined in.  The names that the
\* next expression, or an evaluated string, will see are shared.
Blank == [value |-> 0, error |-> "none", store |-> [l \in {} |-> 0], fresh |-> 0,
          scopes |-> <<Nowhere>>, worlds |-> <<NoFunctions>>, world |-> 1,
          shared |-> [globals |-> Nowhere, functions |-> NoFunctions]]

Give(s, v) == [s EXCEPT !.value = v]
Yield(s, v) == Give(s, v % WordSize)
Fail(s, error) == [s EXCEPT !.error = error]
Failed(s) == s.error # "none"

Functions(s) == s.worlds[s.world]

Begun(s) == [s EXCEPT !.scopes = <<s.shared.globals>>,
                      !.worlds = Append(@, s.shared.functions), !.world = Len(s.worlds) + 1]

\* The names of an expression count from its end; a failed one has none.
Shared(s) == [s EXCEPT !.shared.globals = s.scopes[1] @@ @,
                       !.shared.functions = Functions(s) @@ @]

HeapCell(a) == <<"cell", a>>
Stored(s, l) == IF l \in DOMAIN s.store THEN s.store[l] ELSE 0
Assign(s, l, v) == [s EXCEPT !.store = (l :> v) @@ @]

Location(s, x) ==
  LET i == CHOOSE j \in DOMAIN s.scopes :
             /\ x \in DOMAIN s.scopes[j]
             /\ \A k \in DOMAIN s.scopes : x \in DOMAIN s.scopes[k] => k <= j
  IN s.scopes[i][x]

Bind(s, x, v) ==
  LET l == <<"variable", s.fresh>> IN
  [s EXCEPT !.fresh = @ + 1, !.store = (l :> v) @@ @,
            !.scopes[Len(s.scopes)] = (x :> l) @@ @]

Result(form, a, b) ==
  CASE form = "+" -> a + b
    [] form = "-" -> a - b
    [] form = "*" -> a * b
    [] form = "/" -> a \div b
    [] form = "%" -> a % b
    [] form = "=" -> Truth(a = b)
    [] form = "<" -> Truth(Signed(a) < Signed(b))
    [] form = ">" -> Truth(Signed(a) > Signed(b))
    [] form = "<=" -> Truth(Signed(a) <= Signed(b))
    [] form = ">=" -> Truth(Signed(a) >= Signed(b))
    [] form = "bit-and" -> a & b
    [] form = "bit-or" -> a | b
    [] form = "bit-xor" -> a ^^ b
    [] form = "bit-shl" -> a * 2^b
    [] form = "bit-shr" -> a \div 2^b
    [] form = "bit-ashr" -> Signed(a) \div 2^b

OperatorForms == {"+", "-", "*", "/", "%", "=", "<", ">", "<=", ">=",
                  "bit-and", "bit-or", "bit-xor", "bit-shl", "bit-shr", "bit-ashr"}

Operate(s, form, a, b) ==
  IF form \in {"/", "%"} /\ b = 0 THEN Fail(s, "DivisionByZero") ELSE Yield(s, Result(form, a, b))

\* Part i of a heap word, which has as many parts as n says
PartOf(word, i, n) == (word \div 2^(i * (WORD_BITS \div n))) % 2^(WORD_BITS \div n)
WithPart(word, i, n, v) ==
  word + ((v % 2^(WORD_BITS \div n)) - PartOf(word, i, n)) * 2^(i * (WORD_BITS \div n))

\* How many addresses a word has, and in how many parts a form sees it
Addresses(form) == IF form \in {"peek", "poke"} THEN 1 ELSE BYTES_PER_WORD
Parts(form) == CASE form \in {"peek", "poke"} -> 1
                 [] form \in {"peek32", "poke32"} -> 2
                 [] OTHER -> BYTES_PER_WORD
CellAt(form, a) == HeapCell(a \div Addresses(form))
PartAt(form, a) == ((a % Addresses(form)) * Parts(form)) \div Addresses(form)

RECURSIVE Means(_, _)
RECURSIVE MeansLoop(_, _, _)

\* The expressions one after another
MeansAll(s, nodes) == FoldLeft(LAMBDA t, n : Means(t, n), s, nodes)

\* The values of the expressions too
MeansEach(s, nodes) ==
  FoldLeft(LAMBDA r, n : LET t == Means(r.state, n) IN
                         [state |-> t, values |-> Append(r.values, t.value)],
           [state |-> s, values |-> <<>>], nodes)

MeansOperator(s, node) ==
  FoldLeft(LAMBDA t, n : LET u == Means(t, n) IN
                         IF Failed(u) THEN u ELSE Operate(u, node[1], t.value, u.value),
           Means(s, node[2]), SubSeq(node, 3, Len(node)))

MeansLet(s, node) ==
  LET bound == FoldLeft(LAMBDA t, b : LET u == Means(t, b[2]) IN Bind(u, b[1], u.value),
                        [s EXCEPT !.scopes = Append(@, Nowhere)], node[2])
  IN [MeansAll(bound, SubSeq(node, 3, Len(node))) EXCEPT !.scopes = s.scopes]

MeansLoop(s, test, body) ==
  LET t == Means(s, test) IN
  IF Failed(t) THEN t ELSE IF t.value = 0 THEN Yield(t, 0) ELSE MeansLoop(MeansAll(t, body), test, body)

\* The end is computed once, with the variable in scope.
MeansFor(s, node) ==
  LET x == <<"symbol", node[2][1]>>
      step == <<"set", node[2][1], <<"+", x, <<"number", 1>>>>>>
      loop == <<"while", <<"<", x, <<"symbol", "__end__">>>>>> \o SubSeq(node, 3, Len(node)) \o <<step>>
  IN Means(s, <<"let", <<<<node[2][1], node[2][2]>>, <<"__end__", node[2][3]>>>>, loop>>)

MeansDefinition(s, node) ==
  LET function == [params |-> node[2][2], body |-> node[3], world |-> s.world] IN
  Yield([s EXCEPT !.worlds[s.world] = (node[2][1] :> function) @@ @], 0)

\* The body sees the globals and its arguments.
MeansCall(s, f, nodes) ==
  LET each == MeansEach(s, nodes)
      t == each.state
      called == Functions(t)[f]
      inside == FoldLeft(LAMBDA u, i : Bind(u, called.params[i], each.values[i]),
                         [t EXCEPT !.scopes = <<t.scopes[1], Nowhere>>, !.world = called.world],
                         [i \in DOMAIN called.params |-> i])
  IN IF Failed(t) THEN t
     ELSE [Means(inside, called.body) EXCEPT !.scopes = s.scopes, !.world = s.world]

\* A string is evaluated as an expression between others, for its value.
MeansEval(s, text) ==
  LET t == Means(Begun(s), Texts[text]) IN
  IF text \notin DOMAIN Texts THEN Fail(s, "RuntimeError")
  ELSE IF Failed(t) THEN t ELSE [Shared(t) EXCEPT !.scopes = s.scopes, !.world = s.world]

MeansName(s, x) ==
  IF \A i \in DOMAIN s.scopes : x \notin DOMAIN s.scopes[i] THEN Fail(s, "RuntimeError")
  ELSE Give(s, Stored(s, Location(s, x)))

MeansAssign(s, node) ==
  LET t == Means(s, node[3]) IN Assign(t, Location(t, node[2]), t.value)

MeansPoke(s, node) ==
  LET t == Means(s, node[3])
      u == Means(t, node[2])
      cell == CellAt(node[1], u.value)
  IN IF Failed(u) THEN u
     ELSE Yield(Assign(u, cell, WithPart(Stored(u, cell), PartAt(node[1], u.value),
                                         Parts(node[1]), t.value)), t.value)

\* A literal has its length in front.
MeansPeek(s, node) ==
  LET t == Means(s, node[2])
      form == node[1]
  IN IF node[2][1] = "string" THEN Yield(s, Len(node[2][2])) ELSE Yield(t, PartOf(Stored(t, CellAt(form, t.value)), PartAt(form, t.value), Parts(form)))

\* Forms that compute a value from the values of their parts
ValueForms == {"list", "list-ref", "list-length", "string-length", "char-at", "substring", "string-concat"}

MeansValue(s, node) ==
  LET each == MeansEach(s, Tail(node))
      v == each.values
      t == each.state
      form == node[1]
  IN CASE Failed(t) -> t
       [] form = "list" -> Give(t, v)
       [] form \in {"list-length", "string-length"} -> Yield(t, Len(v[1]))
       [] form = "string-concat" -> Give(t, FlattenSeq(v))
       [] form = "substring" -> IF v[2] <= v[3] /\ v[3] <= Len(v[1]) THEN Give(t, SubSeq(v[1], v[2] + 1, v[3]))
                                ELSE Fail(t, "OutOfRange")
       [] v[2] >= Len(v[1]) -> Fail(t, "OutOfRange")
       [] OTHER -> Give(t, v[1][v[2] + 1])

\* A part of the value that variable x has becomes v.
ReplacePart(s, x, part, v) ==
  LET l == Location(s, x) IN
  IF part \notin DOMAIN s.store[l] THEN Fail(s, "OutOfRange")
  ELSE Give(Assign(s, l, [s.store[l] EXCEPT ![part] = v]), v)

MeansListSet(s, node) ==
  LET i == Means(s, node[3])
      t == Means(i, node[4])
  IN IF Failed(t) THEN t ELSE ReplacePart(t, node[2], i.value + 1, t.value)

MeansStruct(s, node) ==
  LET each == MeansEach(s, SubSeq(node, 4, Len(node)))
      value == [f \in Range(node[3]) |-> each.values[SelectInSeq(node[3], LAMBDA g : g = f)]]
  IN IF Failed(each.state) THEN each.state ELSE Give(each.state, value)

MeansMember(s, node) ==
  LET t == Means(s, node[3]) IN IF Failed(t) THEN t ELSE Give(t, t.value[node[2]])

MeansSetMember(s, node) ==
  LET t == Means(s, node[4]) IN IF Failed(t) THEN t ELSE ReplacePart(t, node[3], node[2], t.value)

\* A name in quotes means the global of that name, if there is one.
Quoted(s, x) == IF x \in DOMAIN s.scopes[1] THEN s.scopes[1][x] ELSE Location(s, x)

Means(s, node) ==
  LET form == node[1] IN
  CASE Failed(s) -> s
    [] form = "number" -> Yield(s, node[2])
    [] form = "string" -> Give(s, node[2])
    [] form = "symbol" -> MeansName(s, node[2])
    [] form \in DOMAIN Functions(s) -> MeansCall(s, form, Tail(node))
    [] form = "eval" -> MeansEval(s, node[2][2])
    [] form = "funcall" /\ node[2][1] = "compile" -> MeansEval(s, node[2][2][2])
    [] form = "funcall" -> MeansCall(s, node[2][2], SubSeq(node, 3, Len(node)))
    [] form = "define-func" -> MeansDefinition(s, node)
    [] form = "define-int" -> Yield(s, 0)
    [] form = "define-var" ->
         LET t == Means(s, node[3]) IN IF Failed(t) THEN t ELSE Bind(t, node[2], t.value)
    [] form = "set" -> MeansAssign(s, node)
    [] form = "let" -> MeansLet(s, node)
    [] form = "while" -> MeansLoop(s, node[2], SubSeq(node, 3, Len(node)))
    [] form = "for" -> MeansFor(s, node)
    [] form = "do" -> MeansAll(s, Tail(node))
    [] form = "if" ->
         LET t == Means(s, node[2]) IN Means(t, IF t.value # 0 THEN node[3] ELSE node[4])
    [] form \in {"print", "print-int", "print-string"} -> Means(s, node[2])
    [] form \in {"peek", "peek-byte", "peek32"} -> MeansPeek(s, node)
    [] form \in {"poke", "poke-byte", "poke32"} -> MeansPoke(s, node)
    [] form \in OperatorForms -> MeansOperator(s, node)
    [] form \in ValueForms -> MeansValue(s, node)
    [] form = "list-set!" -> MeansListSet(s, node)
    [] form = "define-struct" -> Yield(s, 0)
    [] form = "make" -> MeansStruct(s, node)
    [] form = "member" -> MeansMember(s, node)
    [] form = "set-member!" -> MeansSetMember(s, node)
    [] form = "symbol-value" -> Yield(s, Stored(s, Quoted(s, node[2])))
    [] form = "symbol-set!" ->
         LET t == Means(s, node[3]) IN Assign(t, Quoted(t, node[2]), t.value)
=============================================================================
