-------------------------- MODULE MCTranspileTool ---------------------------
(***************************************************************************)
(* Files of one expression, built from a grammar, and some by hand.        *)
(***************************************************************************)
EXTENDS TranspileTool

Num(n) == <<"number", n>>
Var(x) == <<"symbol", x>>
Str(bytes) == <<"string", bytes>>
Def(x, value) == <<"define-var", x, value>>
Set(x, value) == <<"set", x, value>>
Plus(a, b) == <<"+", a, b>>

AsciiCodes == (" " :> 32) @@ ("\"" :> 34) @@ ("\\" :> 92) @@ ("a" :> 97) @@ ("\n" :> 10) @@ ("(" :> 40) @@ (";" :> 59)
CharacterOf(code) == CHOOSE c \in DOMAIN AsciiCodes : AsciiCodes[c] = code

(***************************************************************************)
(* A tree as the parser has it.                                            *)
(***************************************************************************)
Spelling == ("a-b" :> <<"a", "-", "b">>) @@ ("a_b" :> <<"a", "_", "b">>) @@ ("var-0" :> <<"var", "-", "0">>)
            @@ ("str-a" :> <<"str", "-", "a">>)
Spelled(x) == IF x \in DOMAIN Spelling THEN Spelling[x] ELSE <<x>>
Symbol(x) == IF x = "'i'" THEN <<"string", <<"i">>>> ELSE <<"symbol", Spelled(x)>>
L(items) == <<"list", items>>

RECURSIVE Source(_)
Source(n) ==
  LET parts(i) == [k \in 1..Len(n) - i |-> Source(n[k + i])]
      names(s) == [k \in DOMAIN s |-> Symbol(s[k])]
      params(f) == IF Len(f) = 2 THEN names(f[2])
                   ELSE [k \in DOMAIN f[2] |-> L(<<Symbol(f[2][k]), Symbol(f[3][k])>>)]
      form == n[1]
  IN CASE form = "number" -> n
       [] form = "symbol" -> Symbol(n[2])
       [] form = "string" -> <<"string", [k \in DOMAIN n[2] |-> CharacterOf(n[2][k])]>>
       [] form = "let" ->
            L(<<Symbol(form), L([k \in DOMAIN n[2] |-> L(<<Symbol(n[2][k][1]), Source(n[2][k][2])>>)])>> \o parts(2))
       [] form = "for" -> L(<<Symbol(form), L(<<Symbol(n[2][1]), Source(n[2][2]), Source(n[2][3])>>)>> \o parts(2))
       [] form = "define-func" -> L(<<Symbol(form), L(<<Symbol(n[2][1])>> \o params(n[2]))>> \o parts(2))
       [] form \in {"define-var", "set", "list-set!"} -> L(<<Symbol(form), Symbol(n[2])>> \o parts(2))
       [] form = "define-struct" -> L(<<Symbol(form), Symbol(n[2]), L(names(n[3]))>>)
       [] form = "make" -> L(<<<<"symbol", <<"make", "-", n[2]>>>>>> \o parts(3))
       [] form = "member" -> L(<<<<"symbol", <<"S", "-", n[2]>>>>, Source(n[3])>>)
       [] form = "set-member!" ->
            L(<<<<"symbol", <<"set", "-", "S", "-", n[2], "!">>>>, Symbol(n[3]), Source(n[4])>>)
       [] OTHER -> L(<<Symbol(form)>> \o parts(1))

(***************************************************************************)
(* And as text, with something between the items of a list.                *)
(***************************************************************************)
RECURSIVE DigitsOf(_, _)
DigitsOf(n, radix) ==
  (IF n < radix THEN <<>> ELSE DigitsOf(n \div radix, radix)) \o <<Alphabet[(n % radix) + 1]>>

NumberText(n, radix) ==
  (IF n < 0 THEN <<"-">> ELSE <<>>)
  \o (IF radix = 10 THEN <<>> ELSE DigitsOf(radix, 10) \o <<"r">>)
  \o DigitsOf(Magnitude(n), radix)

QuotedCharacter(c) == CASE c \in {"\"", "\\"} -> <<"\\", c>> [] c = "\n" -> <<"\\", "n">> [] OTHER -> <<c>>

\* Words, with what stands before each
RECURSIVE WordsOf(_, _)
WordsOf(node, layout) ==
  LET word(characters) == <<[gap |-> <<>>, word |-> characters]>>
      item(k) == LET words == WordsOf(node[2][k], layout) IN
                 IF k = 1 THEN words ELSE [words EXCEPT ![1].gap = layout.gap]
  IN CASE node[1] = "number" -> word(NumberText(node[2], layout.radix))
       [] node[1] = "symbol" -> word(node[2])
       [] node[1] = "string" ->
            word(<<Quote>> \o FlattenSeq([k \in DOMAIN node[2] |-> QuotedCharacter(node[2][k])]) \o <<Quote>>)
       [] node[1] = "list" ->
            word(<<OpenParen>>) \o FlattenSeq([k \in DOMAIN node[2] |-> item(k)]) \o word(<<CloseParen>>)

\* The text of words, their places, and the tree
Opens(word) == CASE word = <<OpenParen>> -> 1 [] word = <<CloseParen>> -> -1 [] OTHER -> 0

RECURSIVE Written(_, _)
Written(text, words) ==
  LET word == Head(words).word
      characters == text.characters \o Head(words).gap \o word
      depth == IF text.words = <<>> THEN 0 ELSE Last(text.words).depth
      place == [first |-> Len(characters) - Len(word) + 1, behind |-> Len(characters) + 1,
                depth |-> depth + Opens(word)]
  IN IF words = <<>> THEN text
     ELSE Written([text EXCEPT !.characters = characters, !.words = Append(@, place)], Tail(words))

Text(words, ending, tree) ==
  [Written([characters |-> <<>>, words |-> <<>>, tree |-> tree], words) EXCEPT !.characters = @ \o ending]

Plain == [gap |-> <<" ">>, radix |-> 10]
Layouts == {Plain, [gap |-> <<" ", ";", "(", "\"", "\n">>, radix |-> 36],
            [gap |-> <<"\n", "\t", "\f", VerticalTab, ";", "\n">>, radix |-> 2]}

File(tree, layout) == Text(WordsOf(Source(tree), layout), <<>>, tree)

(***************************************************************************)
(* Every form with every small part, and the value with what the variables *)
(* hold at the end.                                                        *)
(***************************************************************************)
Leaves == {Num(1), Var("x"), Var("y")}
Small == Leaves \cup {Set("x", Num(3)), Set("y", Plus(Var("x"), Num(1)))}
Nested ==
  Leaves \cup
  {Set("x", Num(3)), Def("x", Num(3)), <<"do", Set("y", Num(5)), Var("x")>>,
   <<"let", <<<<"z", Var("x")>>>>, Set("x", Num(5))>>, <<"let", <<<<"x", Num(1)>>>>, Set("x", Num(5))>>,
   <<"let", <<<<"z", Var("x")>>>>, Def("x", Num(5)), Var("x")>>,
   <<"if", Var("x"), Set("x", Num(3)), Var("y")>>, <<"if", Var("x"), <<"do", Def("z", Num(3)), Num(1)>>, Var("y")>>,
   <<"for", <<"x", Num(0), Num(2)>>, Set("y", Var("x"))>>, <<"while", <<"<", Var("w"), Num(1)>>, Set("w", Num(3))>>}
Forms(A, B, counters) ==
  {Plus(a, b) : a \in A, b \in B}
  \cup {Def(v, a) : v \in {"x", "z"}, a \in A}
  \cup {<<"let", <<<<v, a>>>>, b>> : v \in {"x", "z"}, a \in A, b \in B}
  \cup {<<"if", Var("x"), a, b>> : a \in A, b \in B}
  \cup {<<"do", a, b>> : a \in A, b \in B}
  \cup {<<"for", <<v, Num(0), a>>, b>> : v \in counters, a \in A, b \in B}
  \cup {<<"while", <<"<", Var("w"), a>>, Set("w", Plus(Var("w"), Num(1))), b>> : a \in A, b \in B}
  \cup {<<"f", a>> : a \in A}

Within(e) ==
  <<"do", Def("x", Num(2)), Def("y", Num(4)), Def("w", Num(0)),
          <<"define-func", <<"f", <<"a">>>>, Plus(Var("a"), Num(1))>>,
          Def("v", e), <<"+", Var("v"), <<"*", Num(8), Var("x")>>, <<"*", Num(64), Var("y")>>>>>>
Grammar == {Within(e) : e \in Forms(Small, Small, {"x", "i"}) \cup Forms(Nested, Nested, {"i"})}

Shifts == {"bit-shl", "bit-shr", "bit-ashr"}
Operators ==
  {<<form, Num(a), Num(b)>> : form \in OperatorForms \ Shifts, a, b \in {-511, -7, 0, 2, 5, 511}}
  \cup {<<form, Num(a), Num(b)>> : form \in Shifts, a \in {-7, 0, 5, 511}, b \in {0, 2, 9, 10}}

(***************************************************************************)
(* Functions, strings, lists and structs, names that meet in C++.          *)
(***************************************************************************)
Ab == Str(<<97, 34>>)
Lengthy == Str(<<92, 40, 10, 59>>)
Pair == <<"define-struct", "S", <<"h", "t">>>>
Made == Def("q", <<"make", "S", <<"h", "t">>, Num(1), Num(2)>>)
ByHand ==
  {<<"do", <<"define-func", <<"f", <<"n">>>>,
                <<"if", <<"<", Var("n"), Num(2)>>, Num(1), <<"*", Var("n"), <<"f", <<"-", Var("n"), Num(1)>>>>>>>>>>,
           <<"f", Num(5)>>>>,
   <<"do", Def("g", Num(1)), <<"define-func", <<"f", <<"n">>>>, Plus(Var("g"), Var("n"))>>, <<"f", Num(5)>>>>,
   <<"do", <<"define-func", <<"f", <<"s", "n">>, <<"string", "int">>>>, <<"char-at", Var("s"), Var("n")>>>>,
           <<"f", Ab, Num(1)>>>>,
   <<"do", <<"define-func", <<"f", <<"s">>, <<"string">>>>, <<"string-concat", Var("s"), Lengthy>>>>,
           <<"string-length", <<"f", Ab>>>>>>,
   <<"substring", <<"string-concat", Ab, Lengthy>>, Num(1), Num(4)>>,
   <<"do", Def("s", Ab), Set("s", <<"string-concat", Var("s"), Var("s")>>), <<"string-length", Var("s")>>>>,
   <<"if", Num(0), Ab, Lengthy>>,
   <<"let", <<<<"s", Ab>>>>, <<"string-length", Var("s")>>>>,
   <<"let", <<<<"n", <<"string-length", Ab>>>>>>, Var("n")>>,
   <<"=", Ab, Ab>>,
   <<"do", Def("l", <<"list", Num(1), Num(2), Num(3)>>), <<"list-set!", "l", Num(1), Num(5)>>,
           Plus(<<"list-ref", Var("l"), Num(1)>>, <<"list-length", Var("l")>>)>>,
   <<"let", <<<<"l", <<"list", Num(1), Num(2)>>>>>>,
           <<"list-set!", "l", Num(0), Plus(<<"list-ref", Var("l"), Num(0)>>, Num(1))>>>>,
   <<"let", <<<<"l", <<"list", Num(1), Num(2)>>>>>>, <<"list-set!", "l", Num(1), Num(4)>>>>,
   <<"do", Def("x", Num(1)), <<"list-length", <<"list", Var("x"), Set("x", Num(2))>>>>>>,
   <<"do", Pair, Made, <<"set-member!", "t", "q", Num(7)>>, Plus(<<"member", "h", Var("q")>>, <<"member", "t", Var("q")>>)>>,
   <<"do", Pair, Made, <<"set-member!", "t", "q", Plus(<<"member", "t", Var("q")>>, Num(1))>>>>,
   <<"do", Pair, <<"define-func", <<"f", <<"r">>, <<"S">>>>, <<"member", "t", Var("r")>>>>, Made, <<"f", Var("q")>>>>,
   <<"do", <<"define-struct", "s", <<"h">>>>, <<"make", "s", <<"h">>, Num(1)>>, Num(3)>>,
   <<"do", <<"define-struct", "s", <<"h">>>>, <<"define-struct", "S", <<"t">>>>, Num(3)>>,
   <<"do", <<"define-struct", "S", <<"h">>>>, Def("S", Num(1)), Def("q", <<"make", "S", <<"h">>, Num(1)>>), Num(3)>>,
   <<"do", <<"define-struct", "S", <<"h">>>>, <<"define-func", <<"f", <<"r">>, <<"S">>>>, Num(2)>>,
           Def("q", <<"if", Num(0), <<"make", "S", <<"h">>, Num(1)>>, Num(5)>>),
           Plus(<<"member", "h", <<"make", "S", <<"h">>, Num(7)>>>>, Plus(<<"f", Num(5)>>, <<"f", Var("q")>>))>>,
   <<"if", Num(0), Ab, Num(0)>>, <<"do", Def("s", Ab), Set("s", Num(0)), Num(1)>>,
   <<"do", Def("s", Ab), Set("s", Num(34)), <<"string-length", Ab>>>>,
   <<"do", <<"define-func", <<"f", <<"s">>, <<"string">>>>, <<"/", Num(1), Num(0)>>>>, <<"f", Num(0)>>>>,
   <<"do", <<"define-func", <<"f", <<"s">>>>, Var("string"), Num(0)>>, <<"string-length", <<"f", Num(1)>>>>>>,
   <<"do", Def("y", Num(0)), <<"for", <<"'i'", Num(0), Num(3)>>, Set("y", Plus(Var("y"), Num(2)))>>, Var("y")>>,
   <<"let", <<<<"a-b", Num(1)>>>>, <<"let", <<<<"a_b", Num(2)>>>>, Var("a-b")>>>>,
   <<"let", <<<<"a-b", Num(1)>>, <<"a_b", Num(2)>>>>, Var("a-b")>>,
   <<"let", <<<<"var-0", Num(1)>>>>, Var("var-0")>>,
   <<"do", Def("str-a", Num(1)), <<"let", <<<<"b", Var("str-a")>>>>, Num(2)>>>>,
   <<"do", Def("result", Num(1)), Var("result")>>, Def("new", Num(1)),
   <<"let", <<<<"a", Num(1)>>, <<"a", Num(2)>>>>, Var("a")>>,
   <<"do", <<"while", Num(0), <<"let", <<<<"a", Num(1)>>>>, Var("a")>>>>, Num(3)>>,
   <<"do", Def("l", <<"list", Num(1)>>), <<"list-ref", Var("l"), Num(1)>>>>, <<"/", Num(1), Num(0)>>}

(***************************************************************************)
(* Texts: in every layout, with a second expression behind, and broken.    *)
(***************************************************************************)
Laid == ByHand \cup {<<"%", Num(-7), Num(2)>>, Within(<<"f", Set("x", Num(3))>>), <<"bit-shl", Num(5), Num(2)>>}
Ending == <<" ", ";", ")">>
Followed(layout) ==
  LET first == <<"do", Num(-12), Lengthy>>
      both == WordsOf(L(<<Source(first), Num(10)>>), layout)
  IN Text(SubSeq(both, 2, Len(both) - 1), Ending, first)
Cut(text, n) ==
  [text EXCEPT !.characters = SubSeq(@, 1, n),
               !.words = [k \in {i \in DOMAIN @ : @[i].first <= n} |->
                            [@[k] EXCEPT !.behind = IF @ > n + 1 THEN n + 1 ELSE @]]]
Cuts(text) == {Cut(text, n) : n \in 0..Len(text.characters) - 1}
Words(s) == Text([k \in DOMAIN s |-> [gap |-> <<" ">>, word |-> s[k]]], Ending, Num(1))
NoNumbers ==
  {<<"5", "1", "2">>, <<"-", "5", "1", "2">>, <<"1", "6", "r", "G">>, <<"2", "r", "1", "2">>, <<"1", "r", "0">>,
   <<"3", "7", "r", "1">>, <<"1", "6", "r">>, <<"1", "6", "r", "2", "0", "0">>, <<"2", "r", "1", "x">>}
Unmatched == UNION {[1..n -> {<<OpenParen>>, <<CloseParen>>, <<"1">>}] : n \in 0..4}

McFiles ==
  {File(t, Plain) : t \in Grammar \cup Operators} \cup {File(t, layout) : t \in Laid, layout \in Layouts}
  \cup {Followed(layout) : layout \in Layouts}
  \cup {Words(<<n, <<"1">>>>) : n \in NoNumbers} \cup {Words(s) : s \in Unmatched}
  \cup UNION {Cuts(File(t, layout)) : layout \in Layouts,
                 t \in {<<"string-concat", Ab, Lengthy>>, <<"let", <<<<"x", Num(-7)>>>>, Var("x")>>}}

Capitals == [c \in Range(SmallLetters) |-> Alphabet[Len(Decimals) + SelectInSeq(SmallLetters, LAMBDA d : d = c)]]
\* Without the backquote, which a string of TLA+ cannot hold
Signs == {"!", "\"", "#", "$", "%", "&", "'", "*", "+", ",", "-", ".", "/", ":", ";", "<", "=", ">", "?", "@",
          "[", "\\", "]", "^", "_", "{", "|", "}", "~"}
CppKeywords == {<<"int">>, <<"new">>}
NoTexts == [x \in {} |-> <<>>]
=============================================================================
