----------------------------- MODULE LispToCpp ------------------------------
(***************************************************************************)
(* lisp_to_cpp.hpp: from a tree of LispParser to a C++ program.            *)
(*                                                                         *)
(* A name is a sequence of characters.  A C++ expression is                *)
(*   <<"number", n>>, <<"string", characters>>, <<"name", x>>,             *)
(*   <<"native", characters>>, <<operator, a, b>>, <<"call", f, <<a, ...>>>>,*)
(*   <<"index", a, i>>, <<"char", a, i>>, <<"length", a>>, <<"size", a>>,  *)
(*   <<"substr", a, i, j>> or <<"member", a, field>>.                      *)
(* A statement is                                                          *)
(*   <<"init", type, x, e>>, <<"construct", type, x, <<e, ...>>>>,         *)
(*   <<"declare", type, x>>, <<"assign", target, e>>, <<"evaluate", e>>,   *)
(*   <<"if", e, statements, statements>>, <<"block", statements>>,         *)
(*   <<"for", x, from, to, statements>>, or <<"loop", statements, e,       *)
(*   statements>>: label, statements, if (!e) goto end, statements, goto   *)
(*   label, end, which is no block.                                        *)
(* Spoiled stands for statements in the middle of another.                 *)
(***************************************************************************)
EXTENDS LispParser, TLC

CONSTANTS Capital,       \* what toupper makes of a small letter
          Punctuation    \* what is neither a letter nor a digit

None == [x \in {} |-> <<>>]
Spoiled == <<"spoiled">>

Int64 == <<"int64_t">>
String == <<"std::string">>
Vector == <<"std::vector">>
Auto == <<"auto">>

StructTypeName(name) ==
  IF name # <<>> /\ Head(name) \in DOMAIN Capital THEN <<Capital[Head(name)]>> \o Tail(name) ELSE name

Struct(name) == <<"struct", StructTypeName(name)>>
Unknown(name) == <<"unknown", name>>   \* a type that C++ does not have

\* code is that of the function or block that is written; text is what the last
\* expression returned.
Transpiler ==
  [code |-> <<>>, functions |-> <<>>, struct_decls |-> <<>>,
   variables |-> None, variable_types |-> None,
   struct_defs |-> None, function_signatures |-> None, function_names |-> {},
   custom_includes |-> {}, var_counter |-> 0, struct_counter |-> 0,
   text |-> <<"number", 0>>, thrown |-> FALSE]

Throw(t) == [t EXCEPT !.thrown = TRUE]
Returning(t, text) == [t EXCEPT !.text = text]
Zero == <<"number", 0>>
Put(t, statement) == [t EXCEPT !.code = Append(@, statement)]
Evaluate(t) == Put(t, <<"evaluate", t.text>>)
Opened(t) == [t EXCEPT !.code = <<>>]

SanitizedCharacter(c) ==
  CASE c = "?" -> <<"_", "p">> [] c = "!" -> <<"_", "bang">> [] c \in Punctuation -> <<"_">> [] OTHER -> <<c>>
SanitizeName(x) == FlattenSeq([i \in DOMAIN x |-> SanitizedCharacter(x[i])])
SanitizeFunctionName(f) == <<"fn", "_">> \o SanitizeName(f)

Counted(name, n) == name \o <<"_", ToString(n)>>
NameText(x) == <<"name", x>>
ResultVar(t) == Counted(<<"var">>, t.var_counter)

\* Fault: the counter stays.
SameVar(t) == t

FreshVar(t) == [t EXCEPT !.var_counter = @ + 1]

EscapeString(characters) ==
  FlattenSeq([i \in DOMAIN characters |->
    LET c == characters[i] IN
    CASE c \in {"\"", "\\"} -> <<"\\", c>> [] c = "\n" -> <<"\\", "n">> [] c = "\t" -> <<"\\", "t">>
      [] OTHER -> <<c>>])

IsSymbol(node) == node[1] = "symbol"
IsList(node) == node[1] = "list"
Items(node) == node[2]
NameOf(node) == node[2]
Variable(t, x) == t.variables[x]
Known(t, x) == x \in DOMAIN t.variables

LispTypeToCpp(t, type) ==
  CASE type \in {<<"string">>, <<"str">>} -> String
    [] type \in DOMAIN t.struct_defs -> Struct(type)
    [] OTHER -> Int64

(***************************************************************************)
(* Names that speak of a struct: make-S, S-field and set-S-field!, split   *)
(* at the first dash.                                                      *)
(***************************************************************************)
MadeStruct(op) == IF Len(op) > 2 /\ SubSeq(op, 1, 2) = <<"make", "-">> THEN SubSeq(op, 3, Len(op)) ELSE <<>>

Dashed(op) ==
  IF "-" \notin Range(op) THEN [struct |-> <<>>, field |-> <<>>]
  ELSE LET i == SelectInSeq(op, LAMBDA c : c = "-")
       IN [struct |-> SubSeq(op, 1, i - 1), field |-> SubSeq(op, i + 1, Len(op))]

Mutated(op) ==
  IF Len(op) > 3 /\ SubSeq(op, 1, 2) = <<"set", "-">> /\ Last(op) = "!"
  THEN Dashed(SubSeq(op, 3, Len(op) - 1)) ELSE [struct |-> <<>>, field |-> <<>>]

IsField(t, part) ==
  part.struct \in DOMAIN t.struct_defs /\ part.field \in Range(t.struct_defs[part.struct])

Comparisons == {<<"=">>, <<"<">>, <<">">>, <<"<=">>, <<">=">>}
Arithmetic == {<<"+">>, <<"-">>, <<"*">>, <<"/">>, <<"%">>}
Bitwise == {<<"bit-and">>, <<"bit-or">>, <<"bit-xor">>, <<"bit-shl">>, <<"bit-shr">>, <<"bit-ashr">>}

\* Both right shifts are >>.
CppOperator(op) == IF op = <<"bit-shr">> THEN "bit-ashr" ELSE op[1]

RECURSIVE InferExprType(_, _)
InferExprType(t, node) ==
  LET items == Items(node)
      op == NameOf(items[1])
      listed == IsList(node) /\ items # <<>> /\ IsSymbol(items[1])
  IN CASE node[1] = "string" -> String
       [] IsSymbol(node) /\ NameOf(node) \in DOMAIN t.variable_types -> t.variable_types[NameOf(node)]
       [] ~listed -> Int64
       [] op \in {<<"string-concat">>, <<"substring">>} -> String
       [] op \in Comparisons \cup Arithmetic -> Int64
       [] op = <<"if">> /\ Len(items) >= 3 -> InferExprType(t, items[3])
       [] op = <<"do">> /\ Len(items) >= 2 -> InferExprType(t, Last(items))
       [] op = <<"set">> /\ Len(items) = 3 /\ NameOf(items[2]) \in DOMAIN t.variable_types ->
            t.variable_types[NameOf(items[2])]
       [] op = <<"list">> -> Vector
       [] MadeStruct(op) \in DOMAIN t.struct_defs -> Struct(MadeStruct(op))
       [] IsField(t, Dashed(op)) -> Int64
       [] op \in DOMAIN t.function_signatures -> t.function_signatures[op].return_type
       [] OTHER -> Int64

RECURSIVE CompileExpr(_, _)

(***************************************************************************)
(* The texts of several expressions; what they hoist goes before the       *)
(* statement their texts will stand in.                                    *)
(***************************************************************************)
CompileEach(t, nodes) ==
  FoldLeft(LAMBDA r, n : LET u == CompileExpr(r.t, n) IN [t |-> u, texts |-> Append(r.texts, u.text)],
           [t |-> t, texts |-> <<>>], nodes)

\* Of the parts of a list that must have n, the texts as an expression of that kind
CompileParts(t, items, n, kind, field) ==
  IF Len(items) # n THEN Throw(t)
  ELSE LET each == CompileEach(t, Tail(items)) IN Returning(each.t, <<kind>> \o each.texts \o field)

Statements(t, nodes) == FoldLeft(LAMBDA u, n : Evaluate(CompileExpr(u, n)), t, nodes)

\* All but the last become statements, the last is the result.
CompileBody(t, nodes) == CompileExpr(Statements(t, Front(nodes)), Last(nodes))

CompileBinaryOp(t, items, op) ==
  LET each == CompileEach(t, Tail(items))
      join(a, b) == <<CppOperator(op), a, b>>
  IN IF Len(items) < 2 \/ (op \notin Arithmetic /\ Len(items) # 3) THEN Throw(t)
     ELSE Returning(each.t, FoldLeft(join, Head(each.texts), Tail(each.texts)))

Assigned(t, x) == Put(t, <<"assign", NameText(x), t.text>>)

\* Fault: only one branch has a result.
CompileOneArmedIf(t, items) ==
  LET result == ResultVar(t)
      test == CompileExpr(FreshVar(t), items[2])
      then == Assigned(CompileExpr(Opened(test), items[3]), result)
      else == CompileExpr(Opened(then), items[4])
  IN [else EXCEPT !.code = test.code \o <<<<"declare", InferExprType(t, items[3]), result>>,
                                            <<"if", test.text, then.code, else.code>>>>,
                  !.text = NameText(result)]

CompileIf(t, items) ==
  LET result == ResultVar(t)
      test == CompileExpr(FreshVar(t), items[2])
      then == Assigned(CompileExpr(Opened(test), items[3]), result)
      else == Assigned(CompileExpr(Opened(then), items[4]), result)
  IN IF Len(items) # 4 THEN Throw(t)
     ELSE [else EXCEPT !.code = test.code \o <<<<"declare", InferExprType(t, items[3]), result>>,
                                               <<"if", test.text, then.code, else.code>>>>,
                       !.text = NameText(result)]

\* Fault: what the test hoists stays before the loop.
CompileWhileTestedOnce(t, items) ==
  LET test == CompileExpr(t, items[2])
      body == Statements(Opened(test), SubSeq(items, 3, Len(items)))
  IN [body EXCEPT !.code = Append(test.code, <<"loop", <<>>, test.text, body.code>>), !.text = Zero]

CompileWhile(t, items) ==
  LET test == CompileExpr(Opened(t), items[2])
      body == Statements(Opened(test), SubSeq(items, 3, Len(items)))
  IN IF Len(items) < 2 THEN Throw(t)
     ELSE [body EXCEPT !.code = Append(t.code, <<"loop", test.code, test.text, body.code>>),
                       !.text = Zero]

\* The bounds are compiled before the variable is known, and stand in the loop's head.
\* The variable may be written as a string.
CompileFor(t, items) ==
  LET spec == Items(items[2])
      x == NameOf(spec[1])
      bounds == CompileEach(t, Tail(spec))
      begun == [Opened(bounds.t) EXCEPT !.variables = (x :> SanitizeName(x)) @@ @]
      body == Statements(begun, SubSeq(items, 3, Len(items)))
  IN IF Len(items) < 3 \/ ~IsList(items[2]) \/ Len(spec) # 3 \/ spec[1][1] \in {"number", "list"}
     THEN Throw(t)
     ELSE [body EXCEPT
             !.code = Append(bounds.t.code, <<"for", SanitizeName(x), bounds.texts[1],
                                              bounds.texts[2], body.code>>),
             !.variables = IF Known(bounds.t, x) THEN (x :> Variable(bounds.t, x)) @@ @
                           ELSE [y \in DOMAIN @ \ {x} |-> @[y]],
             !.text = Zero]

RECURSIVE MentionsType(_, _)
MentionsType(text, kind) ==
  CASE text[1] = kind -> TRUE
    [] text[1] \in {"number", "string", "name", "native"} -> FALSE
    [] text[1] = "call" -> \E i \in DOMAIN text[3] : MentionsType(text[3][i], kind)
    [] text[1] = "member" -> MentionsType(text[2], kind)
    [] OTHER -> \E i \in 2..Len(text) : MentionsType(text[i], kind)

\* Does the text begin with the word and an underscore?
RECURSIVE Begins(_, _)
Begins(text, word) ==
  CASE text[1] = "name" -> Len(text[2]) > 1 /\ SubSeq(text[2], 1, 2) = <<word, "_">>
    [] text[1] \in {"index", "member"} -> Begins(text[2], word)
    [] OTHER -> FALSE

\* The type of a binding is guessed from the value's text.
BindingType(text) ==
  CASE Begins(text, "str") \/ MentionsType(text, "string") -> [cpp |-> String, known |-> Unknown("string")]
    [] Begins(text, "vec") -> [cpp |-> Auto, known |-> Unknown("vector")]
    [] OTHER -> [cpp |-> Int64, known |-> Int64]

CompileBinding(t, binding) ==
  LET x == NameOf(Items(binding)[1])
      u == CompileExpr(t, Items(binding)[2])
      type == BindingType(u.text)
      bound == Put(u, <<"init", type.cpp, SanitizeName(x), u.text>>)
  IN IF ~IsList(binding) \/ Len(Items(binding)) # 2 \/ ~IsSymbol(Items(binding)[1]) THEN Throw(t)
     ELSE [bound EXCEPT !.variables = (x :> SanitizeName(x)) @@ @,
                        !.variable_types = (x :> type.known) @@ @]

\* A block, whose result goes to an int64_t that is declared before it
CompileLet(t, items) ==
  LET result == ResultVar(t)
      bound == FoldLeft(CompileBinding, Opened(FreshVar(t)), Items(items[2]))
      body == Assigned(CompileBody(bound, SubSeq(items, 3, Len(items))), result)
  IN IF Len(items) < 3 \/ ~IsList(items[2]) THEN Throw(t)
     ELSE [body EXCEPT !.code = t.code \o <<<<"init", Int64, result, Zero>>, <<"block", body.code>>>>,
                       !.variables = t.variables, !.variable_types = t.variable_types,
                       !.text = NameText(result)]

\* A name that is known already is assigned, wherever it was declared.
CompileDefineVariable(t, items) ==
  LET x == NameOf(items[2])
      type == InferExprType(t, items[3])
      u == CompileExpr(t, items[3])
      new == [Put(u, <<"init", type, SanitizeName(x), u.text>>) EXCEPT
                !.variable_types = (x :> type) @@ @, !.variables = (x :> SanitizeName(x)) @@ @]
  IN IF Known(u, x) THEN Assigned(u, Variable(u, x)) ELSE new

CompileSet(t, items) ==
  LET x == NameOf(items[2])
      u == CompileExpr(t, items[3])
  IN IF Len(items) # 3 \/ ~IsSymbol(items[2]) \/ ~Known(t, x) THEN Throw(t)
     ELSE Returning(Assigned(u, Variable(u, x)), NameText(Variable(u, x)))

(***************************************************************************)
(* Functions.  The names of variables around the definition stay known in  *)
(* its body.                                                               *)
(***************************************************************************)
IsTyped(p) == IsList(p) /\ Len(Items(p)) = 2 /\ IsSymbol(Items(p)[1]) /\ IsSymbol(Items(p)[2])
Parameter(t, p) ==
  IF IsSymbol(p) THEN [name |-> NameOf(p), type |-> Int64]
  ELSE [name |-> NameOf(Items(p)[1]), type |-> LispTypeToCpp(t, NameOf(Items(p)[2]))]

WithParameters(t, params) ==
  FoldLeft(LAMBDA u, p : [u EXCEPT !.variables = (p.name :> SanitizeName(p.name)) @@ @,
                                   !.variable_types = (p.name :> p.type) @@ @], t, params)

CompileFunctionDef(t, items) ==
  LET sig == Items(items[2])
      f == NameOf(Head(sig))
      params == [i \in 1..Len(sig) - 1 |-> Parameter(t, sig[i + 1])]
      body == IF Len(items) = 4 /\ IsSymbol(items[3]) THEN items[4] ELSE items[3]
      returned == CASE Len(items) = 3 -> InferExprType(WithParameters(t, params), body)
                    [] Len(items) = 4 /\ IsSymbol(items[3]) -> LispTypeToCpp(t, NameOf(items[3]))
                    [] OTHER -> Int64
      types == [i \in DOMAIN params |-> params[i].type]
      signature == [param_types |-> types, return_type |-> returned]
      begun == [t EXCEPT !.function_names = @ \cup {f},
                         !.function_signatures = (f :> signature) @@ @]
      inside == CompileExpr(WithParameters(Opened(begun), params), body)
      function == [name |-> SanitizeFunctionName(f), type |-> returned,
                   params |-> [i \in DOMAIN params |-> SanitizeName(params[i].name)],
                   param_types |-> types, code |-> inside.code, result |-> inside.text]
  IN IF sig = <<>> \/ ~IsSymbol(Head(sig)) \/ \E i \in 2..Len(sig) : ~(IsSymbol(sig[i]) \/ IsTyped(sig[i]))
     THEN Throw(t)
     ELSE [inside EXCEPT !.functions = Append(@, function), !.code = t.code,
                         !.variables = t.variables, !.variable_types = t.variable_types]

\* define-var and define-func are one form.
CompileDefine(t, items) ==
  Returning(CASE Len(items) < 3 -> Throw(t)
              [] IsList(items[2]) -> CompileFunctionDef(t, items)
              [] ~IsSymbol(items[2]) -> Throw(t)
              [] OTHER -> CompileDefineVariable(t, items), Zero)

CompileFunctionCall(t, f, items) ==
  LET each == CompileEach(t, Tail(items))
  IN Returning(each.t, <<"call", SanitizeFunctionName(f), each.texts>>)

(***************************************************************************)
(* Lists and structs are written to a variable of their own.  Its          *)
(* statement is begun before the arguments are compiled.                   *)
(***************************************************************************)
CompileConstruct(t, items, type, x) ==
  LET each == CompileEach(Opened(t), Tail(items))
      middle == IF each.t.code = <<>> THEN <<>> ELSE <<Spoiled>>
  IN [each.t EXCEPT !.code = t.code \o middle \o <<<<"construct", type, x, each.texts>>>>,
                    !.text = NameText(x)]

CompileList(t, items) == CompileConstruct(FreshVar(t), items, Vector, Counted(<<"vec">>, t.var_counter))

CompileMakeStruct(t, items, S) ==
  LET x == Counted(SanitizeName(S), t.struct_counter)
      made == CompileConstruct([t EXCEPT !.struct_counter = @ + 1], items, Struct(S), x)
  IN IF Len(items) # Len(t.struct_defs[S]) + 1 THEN Throw(t)
     ELSE [made EXCEPT !.variable_types = (x :> Unknown("struct")) @@ @]

\* What is assigned is returned as text too.
CompileMutator(t, items, n, kind, field) ==
  LET each == CompileEach(t, Tail(items))
      target == <<kind>> \o Front(each.texts) \o field
  IN IF Len(items) # n THEN Throw(t)
     ELSE Returning(Put(each.t, <<"assign", target, Last(each.texts)>>), Last(each.texts))

CompileStructDef(t, items) ==
  LET fields == [i \in DOMAIN Items(items[3]) |-> NameOf(Items(items[3])[i])]
      S == NameOf(items[2])
  IN IF Len(items) # 3 \/ ~IsSymbol(items[2]) \/ ~IsList(items[3])
        \/ \E n \in Range(Items(items[3])) : ~IsSymbol(n) THEN Throw(t)
     ELSE [t EXCEPT !.struct_defs = (S :> fields) @@ @, !.text = Zero,
                    !.struct_decls = Append(@, [name |-> StructTypeName(S), fields |-> fields])]

CompileStructForm(t, op, items) ==
  CASE MadeStruct(op) \in DOMAIN t.struct_defs -> CompileMakeStruct(t, items, MadeStruct(op))
    [] IsField(t, Mutated(op)) -> CompileMutator(t, items, 3, "member", <<Mutated(op).field>>)
    [] IsField(t, Dashed(op)) -> CompileParts(t, items, 2, "member", <<Dashed(op).field>>)
    [] op \in t.function_names -> CompileFunctionCall(t, op, items)
    [] OTHER -> Throw(t)

CompileNative(t, items, op) ==
  CASE Len(items) # 2 \/ items[2][1] # "string" -> Throw(t)
    [] op = <<"c++">> -> Returning(t, <<"native", items[2][2]>>)
    [] OTHER -> [t EXCEPT !.custom_includes = @ \cup {items[2][2]}, !.text = Zero]

CompileForm(t, op, items) ==
  CASE op \in Arithmetic \cup Comparisons \cup Bitwise -> CompileBinaryOp(t, items, op)
    [] op = <<"if">> -> CompileIf(t, items)
    [] op = <<"while">> -> CompileWhile(t, items)
    [] op = <<"for">> -> CompileFor(t, items)
    [] op = <<"do">> -> IF Len(items) < 2 THEN Throw(t) ELSE CompileBody(t, Tail(items))
    [] op \in {<<"define-var">>, <<"define-func">>} -> CompileDefine(t, items)
    [] op = <<"set">> -> CompileSet(t, items)
    [] op = <<"let">> -> CompileLet(t, items)
    [] op = <<"string-length">> -> CompileParts(t, items, 2, "length", <<>>)
    [] op = <<"char-at">> -> CompileParts(t, items, 3, "char", <<>>)
    [] op = <<"substring">> -> CompileParts(t, items, 4, "substr", <<>>)
    [] op = <<"string-concat">> ->
         LET each == CompileEach(t, Tail(items)) IN
         IF Len(items) < 2 THEN Throw(t)
         ELSE Returning(each.t, FoldLeft(LAMBDA a, b : <<"concat", a, b>>, Head(each.texts), Tail(each.texts)))
    [] op = <<"list">> -> CompileList(t, items)
    [] op = <<"list-ref">> -> CompileParts(t, items, 3, "index", <<>>)
    [] op = <<"list-length">> -> CompileParts(t, items, 2, "size", <<>>)
    [] op = <<"list-set!">> -> CompileMutator(t, items, 4, "index", <<>>)
    [] op \in {<<"c++">>, <<"c++-include">>} -> CompileNative(t, items, op)
    [] op = <<"define-struct">> -> CompileStructDef(t, items)
    [] OTHER -> CompileStructForm(t, op, items)

CompileExpr(t, node) ==
  CASE t.thrown -> t
    [] node[1] = "number" -> Returning(t, node)
    [] node[1] = "string" -> Returning(t, <<"string", EscapeString(node[2])>>)
    [] IsSymbol(node) ->
         IF Known(t, NameOf(node)) THEN Returning(t, NameText(Variable(t, NameOf(node)))) ELSE Throw(t)
    [] OTHER -> IF Items(node) = <<>> \/ ~IsSymbol(Items(node)[1]) THEN Throw(t)
                ELSE CompileForm(t, NameOf(Items(node)[1]), Items(node))

\* compile(): the program's includes are written before anything is compiled.
Compile(tree) ==
  LET t == CompileExpr(Transpiler, tree)
  IN [thrown |-> t.thrown, includes |-> Transpiler.custom_includes, structs |-> t.struct_decls,
      functions |-> t.functions, code |-> t.code, result |-> t.text,
      result_type |-> InferExprType(Transpiler, tree)]
=============================================================================
