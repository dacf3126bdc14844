--------------------------- MODULE MCLispSession ---------------------------
(***************************************************************************)
(* Sessions of a few expressions, on words of ten bits: memory 0..219      *)
(* code, then string literals, variables, heap, and a stack of 34 words.   *)
(***************************************************************************)
EXTENDS LispSession

Num(n) == <<"number", n>>
Var(x) == <<"symbol", x>>
Str(bytes) == <<"string", bytes>>
Fn(f, params, body) == <<"define-func", <<f, params>>, body>>
Def(x, value) == <<"define-var", x, value>>
Plus(a, b) == <<"+", a, b>>
Minus(a, b) == <<"-", a, b>>
Incr(x) == <<"set", x, Plus(Var(x), Num(1))>>

NamesUsed == {"x", "y", "z", "a", "b", "n", "i", "f", "g", "h", "k"}
MapOrder == <<"f", "g", "h", "k">>

\* Strings for eval and compile; <<5>> does not parse.
Evaluable ==
  (<<1>> :> Plus(Var("x"), <<"h", Num(9), Num(3)>>))
  @@ (<<1, 2>> :> <<"let", <<<<"y", <<"f", Num(1)>>>>>>, Incr("x"), Var("y")>>)
  @@ (<<1, 2, 3>> :> Fn("k", <<"n">>, <<"-", <<"f", Var("n")>>, Num(1)>>))
  @@ (<<2>> :> <<"k", <<"eval", Str(<<1>>)>>>>)
  @@ (<<3>> :> <<"/", Var("x"), Num(0)>>)
  @@ (<<4>> :> Var("y"))

(***************************************************************************)
(* Every operator on the words where signs, carries and zero matter.       *)
(***************************************************************************)
Words == {0, 1, 3, 511, 512, 1023}
Amounts == {0, 1, 9}
Shifts == {"bit-shl", "bit-shr", "bit-ashr"}

Computations ==
  {<<<<op, Num(v), Num(w)>>>> : op \in OperatorForms \ Shifts, v \in Words, w \in Words}
  \cup {<<<<op, Num(v), Num(w)>>>> : op \in Shifts, v \in Words, w \in Amounts}
  \cup {<<<<op, Num(40), Num(3), Num(w)>>>> : op \in {"+", "-", "*", "/"}, w \in {0, 5}}

(***************************************************************************)
(* Definitions that every other script begins with.                        *)
(***************************************************************************)
Opening ==
  <<Def("x", Num(5)),
    Fn("f", <<"a">>, Plus(Var("a"), Var("x"))),
    <<"do", Fn("h", <<"a", "b">>, <<"f", Minus(Var("a"), Var("b"))>>),
            Fn("g", <<"n">>, <<"if", <<"<", Var("n"), Num(2)>>, Num(1),
                              <<"*", Var("n"), <<"g", Minus(Var("n"), Num(1))>>>>>>)>>>>

Expressions ==
  {<<"f", Num(2)>>, <<"h", Num(9), <<"f", Num(1)>>>>, <<"g", Num(3)>>,
   <<"funcall", <<"function-address", "h">>, Num(7), Var("x")>>,
   <<"f">>, Var("y"), <<"set", "y", Num(1)>>, Def("x", Num(6)),
   <<"/", Var("x"), Minus(Var("x"), Num(5))>>,
   <<"do", Incr("x"), <<"%", Num(1), Num(0)>>>>,
   <<"let", <<<<"x", Num(1)>>, <<"y", Plus(Var("x"), Num(1))>>>>, Incr("x"), Plus(Var("x"), Var("y"))>>,
   <<"let", <<<<"y", Num(1)>>, <<"y", Num(2)>>>>, Var("y")>>,
   <<"let", <<<<"y", <<"let", <<<<"y", Var("x")>>>>, Incr("y")>>>>>>, <<"f", Var("y")>>>>,
   <<"for", <<"i", Num(0), Num(3)>>, <<"set", "x", Plus(Var("x"), <<"f", Var("i")>>)>>>>,
   <<"for", <<"i", Num(0), Num(2)>>, <<"for", <<"n", Var("i"), Num(2)>>, Incr("x")>>, Num(4)>>,
   <<"while", <<">", Var("x"), Num(3)>>, <<"set", "x", Minus(Var("x"), Num(1))>>>>,
   <<"let", <<<<"n", Num(2)>>>>,
     <<"while", Var("n"), <<"set", "n", Minus(Var("n"), Num(1))>>, Incr("x")>>, Var("n")>>,
   <<"if", <<"=", Var("x"), Num(5)>>, <<"do", Incr("x"), Num(8)>>, Num(9)>>,
   <<"poke", Num(260), <<"poke", Num(261), Var("x")>>>>,
   <<"poke-byte", Num(521), Plus(Num(30), Var("x"))>>,
   <<"poke32", Num(522), Num(100)>>,
   <<"symbol-set!", "x", <<"f", <<"symbol-value", "x">>>>>>,
   <<"symbol-set!", "f", Num(1)>>, <<"symbol-value", "z">>,
   <<"do", <<"print-string", Str(<<7, 8, 9>>)>>, <<"print", Var("x")>>>>,
   Fn("f", <<"a">>, <<"let", <<<<"y", <<"peek", Str(<<7, 8>>)>>>>>>, <<"*", Var("y"), Var("a")>>>>),
   <<"do", Fn("f", <<>>, Num(4)), Plus(<<"f">>, Num(1))>>,
   <<"do", Fn("f", <<"a">>, Num(4)), <<"/", Num(1), Num(0)>>>>,
   Fn("g", <<"n", "n">>, Num(0)),
   <<"do", Def("y", <<"h", Num(4), Num(3)>>), <<"define-int", 1, Incr("y")>>>>,
   <<"define-int", 32, Num(0)>>}

\* Strings that define variables are evaluated in the middle of no others, because they
\* would share their words (see Repl_variables.cfg).
Evaluations ==
  {<<"eval", Str(<<1>>)>>, <<"eval", Str(<<5>>)>>, <<"eval", Str(<<4>>)>>,
   Plus(<<"eval", Str(<<1, 2>>)>>, <<"funcall", <<"compile", Str(<<1, 2>>)>>>>),
   <<"do", <<"eval", Str(<<1, 2, 3>>)>>, <<"eval", Str(<<2>>)>>>>,
   <<"for", <<"i", Num(0), Num(2)>>, <<"set", "x", <<"eval", Str(<<1>>)>>>>>>,
   <<"do", <<"eval", Str(<<1, 2, 3>>)>>, Def("y", Num(1)), <<"eval", Str(<<3>>)>>>>}

Probes ==
  {<<"h", Var("x"), Num(1)>>,
   <<"+", <<"peek", Num(260)>>, <<"peek-byte", Num(521)>>, <<"peek32", Num(523)>>, <<"peek", Num(261)>>>>,
   <<"let", <<<<"z", Plus(Var("x"), Var("y"))>>>>, Def("n", Var("z")), Minus(Var("z"), Var("n"))>>,
   <<"do", <<"print-string", Str(<<7>>)>>, <<"g", <<"peek", Str(<<7, 8, 9>>)>>>>>>}

\* What an expression leaves behind is seen by the next two.
Changes ==
  {<<"set", "x", Num(3)>>, <<"do", Incr("x"), <<"%", Num(1), Num(0)>>>>,
   <<"do", Fn("f", <<"a">>, Num(4)), Def("z", <<"/", Num(1), Num(0)>>)>>,
   <<"do", Def("y", <<"h", Num(4), Num(3)>>), <<"define-int", 1, Incr("y")>>>>,
   Fn("h", <<"a", "b">>, <<"do", <<"set", "b", <<"f", Var("b")>>>>, Minus(Var("a"), Var("b"))>>)}

Sessions ==
  Computations
  \cup {Opening \o <<e, p>> : e \in Expressions \cup Evaluations, p \in Probes}
  \cup {Opening \o <<e, d, <<"h", Var("x"), Num(1)>>>> : e \in Changes, d \in Expressions}
  \cup {Opening \o <<e, d>> : e, d \in Evaluations}

(***************************************************************************)
(* Two sessions that do what the documentation says of them.               *)
(***************************************************************************)
HandlerSession == {<<<<"do", Def("x", Num(0)), <<"define-int", 10, Incr("x")>>, Var("x")>>>>}

ParameterSession ==
  {<<<<"do", Fn("f", <<"a", "b">>, <<"do", <<"set", p, Num(4)>>, Plus(Var("a"), Var("b"))>>),
             <<"f", Num(1), Num(2)>>>>>> : p \in {"a", "b"}}
=============================================================================
