----------------------------- MODULE LispParser -----------------------------
(***************************************************************************)
(* lisp_parser.hpp: from characters to trees, by recursive descent.        *)
(*                                                                         *)
(* A text is a sequence of characters.  A word that only names (while, x)  *)
(* counts as one character, a letter.  A tree is <<"number", n>>,          *)
(* <<"symbol", characters>>, <<"string", characters>> or                   *)
(* <<"list", <<tree, ...>>>>.  A reading is a tree with the position       *)
(* behind it, or has thrown.                                               *)
(***************************************************************************)
EXTENDS Integers, SequencesExt

CONSTANT MaxNumber   \* the greatest int64_t

OpenParen == "("
CloseParen == ")"
Quote == "\""
Backslash == "\\"
Semicolon == ";"
Minus == "-"
Newline == "\n"
VerticalTab == "VT"
Spaces == {" ", "\t", "\r", "\f", Newline, VerticalTab}
EndOfText == "NUL"
Delimiters == {OpenParen, CloseParen, EndOfText} \cup Spaces
Decimals == <<"0", "1", "2", "3", "4", "5", "6", "7", "8", "9">>
Alphabet == Decimals \o <<"A", "B", "C", "D", "E", "F", "G", "H", "I", "J", "K", "L", "M",
                          "N", "O", "P", "Q", "R", "S", "T", "U", "V", "W", "X", "Y", "Z">>
SmallLetters == <<"a", "b", "c", "d", "e", "f", "g", "h", "i", "j", "k", "l", "m",
                  "n", "o", "p", "q", "r", "s", "t", "u", "v", "w", "x", "y", "z">>

Peek(text, p) == IF p <= Len(text) THEN text[p] ELSE EndOfText

\* The first position from p on that holds one of the characters, or the end
Find(text, p, characters) ==
  CHOOSE q \in p..Len(text) + 1 :
    /\ Peek(text, q) \in characters \cup {EndOfText}
    /\ \A k \in p..q - 1 : Peek(text, k) \notin characters \cup {EndOfText}

Reading(p, tree) == [pos |-> p, tree |-> tree, thrown |-> FALSE]
Thrown == [pos |-> 1, tree |-> <<"list", <<>>>>, thrown |-> TRUE]

\* Comments go up to the end of their line.
SkipWhitespace(text, p) ==
  LET skip[q \in 1..Len(text) + 1] ==
        CASE Peek(text, q) \in Spaces -> skip[q + 1]
          [] Peek(text, q) = Semicolon -> skip[Find(text, q, {Newline})]
          [] OTHER -> q
  IN skip[p]

IsDigit(c) == c \in Range(Decimals)

\* What is no digit or letter, and a whole word, is as if too great for every radix.
DigitValue(c) ==
  CASE Contains(Alphabet, c) -> SelectInSeq(Alphabet, LAMBDA d : d = c) - 1
    [] Contains(SmallLetters, c) -> SelectInSeq(SmallLetters, LAMBDA d : d = c) + 9
    [] OTHER -> 36

NumberOf(digits, radix) == FoldLeft(LAMBDA n, c : n * radix + DigitValue(c), 0, digits)

\* stoll() throws when the number has no int64_t, before the sign is applied.
Signless(p, negative, n) ==
  IF n > MaxNumber THEN Thrown ELSE Reading(p, <<"number", IF negative THEN -n ELSE n>>)

ParseRadix(text, p, negative, radix) ==
  LET end == Find(text, p, Delimiters)
      digits == SubSeq(text, p, end - 1)
  IN IF radix \notin 2..36 \/ digits = <<>> \/ \E i \in DOMAIN digits : DigitValue(digits[i]) >= radix
     THEN Thrown ELSE Signless(end, negative, NumberOf(digits, radix))

\* The first position from p on that holds no digit
BehindDigits(text, p) ==
  CHOOSE q \in p..Len(text) + 1 : ~IsDigit(Peek(text, q)) /\ \A k \in p..q - 1 : IsDigit(Peek(text, k))

ParseNumber(text, p) ==
  LET negative == Peek(text, p) = Minus
      first == IF negative THEN p + 1 ELSE p
      end == BehindDigits(text, first)
      n == NumberOf(SubSeq(text, first, end - 1), 10)
  IN IF Peek(text, end) \in {"r", "R"} THEN ParseRadix(text, end + 1, negative, n)
     ELSE Signless(end, negative, n)

ParseSymbol(text, p) ==
  LET end == Find(text, p, Delimiters) IN
  IF end = p THEN Thrown ELSE Reading(end, <<"symbol", SubSeq(text, p, end - 1)>>)

Escaped(c) == CASE c = "n" -> Newline [] c = "t" -> "\t" [] c = "r" -> "\r" [] OTHER -> c

\* A reading, with something before its first part
Before(first, reading) ==
  IF reading.thrown THEN Thrown
  ELSE Reading(reading.pos, <<reading.tree[1], <<first>> \o reading.tree[2]>>)

\* The rest of a string
ParseString(text, p) ==
  LET rest[q \in 1..Len(text) + 1] ==
        LET c == Peek(text, q) IN
        CASE c = Quote -> Reading(q + 1, <<"string", <<>>>>)
          [] c = EndOfText -> Thrown
          [] c = Backslash /\ Peek(text, q + 1) # EndOfText -> Before(Escaped(Peek(text, q + 1)), rest[q + 2])
          [] OTHER -> Before(c, rest[q + 1])
  IN rest[p]

\* What is left of a list, or of the text; read has what parse_expr() returns at every
\* position.
ParseItems(text, p, read, ends) ==
  LET rest[q \in 1..Len(text) + 1] ==
        LET item == read[q] IN
        IF Peek(text, q) \in ends THEN Reading(q, <<"list", <<>>>>)
        ELSE IF item.thrown THEN Thrown
        ELSE Before(item.tree, rest[SkipWhitespace(text, item.pos)])
  IN rest[SkipWhitespace(text, p)]

\* Fault: the end of the text closes every list.
ParseUnclosedList(text, p, read) ==
  LET items == ParseItems(text, p, read, {CloseParen, EndOfText}) IN
  IF items.thrown THEN Thrown
  ELSE Reading(IF Peek(text, items.pos) = EndOfText THEN items.pos ELSE items.pos + 1, items.tree)

ParseList(text, p, read) ==
  LET items == ParseItems(text, p, read, {CloseParen, EndOfText}) IN
  IF items.thrown \/ Peek(text, items.pos) # CloseParen THEN Thrown
  ELSE Reading(items.pos + 1, items.tree)

\* parse_expr(), where the lists that it opens read their items by read
ParseExprBy(text, p, read) ==
  LET q == SkipWhitespace(text, p)
      c == Peek(text, q)
  IN CASE c = EndOfText -> Thrown
       [] c = OpenParen -> ParseList(text, q + 1, read)
       [] c = Quote -> ParseString(text, q + 1)
       [] IsDigit(c) \/ (c = Minus /\ IsDigit(Peek(text, q + 1))) -> ParseNumber(text, q)
       [] OTHER -> ParseSymbol(text, q)

\* parse_expr() at every position.  No text has lists in more lists than characters.
ParseExpr(text) ==
  LET upTo[n \in 0..Len(text)] ==
        [p \in 1..Len(text) + 1 |-> IF n = 0 THEN Thrown ELSE ParseExprBy(text, p, upTo[n - 1])]
  IN upTo[Len(text)]

\* parse(): what follows the first expression is not looked at.
Parse(text) == ParseExpr(text)[1]

\* parse_all()
ParseAll(text) == ParseItems(text, 1, ParseExpr(text), {EndOfText})
=============================================================================
