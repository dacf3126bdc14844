------------------------------ MODULE LispText -------------------------------
(***************************************************************************)
(* What a Lisp text says, written from above.  A text comes with the       *)
(* places of its words: the position of the first character, the position  *)
(* behind the last one, and how many lists are open behind the word.       *)
(* Everything else is blank.  A part of a text is known by the place of    *)
(* its first word.                                                         *)
(***************************************************************************)
EXTENDS LispParser, Places

Count(t) == Len(t.words)
Begin(t, i) == IF i <= Count(t) THEN t.words[i].first ELSE Len(t.characters) + 1
Behind(t, i) == IF i = 0 THEN 1 ELSE t.words[i].behind
Depth(t, i) == IF i = 0 THEN 0 ELSE t.words[i].depth

-----------------------------------------------------------------------------
(***************************************************************************)
(* Words, from position a to before position b                             *)
(***************************************************************************)
Kind(text, a) ==
  LET c == Peek(text, a) IN
  CASE c = OpenParen -> "open"
    [] c = CloseParen -> "close"
    [] c = Quote -> "string"
    [] IsDigit(c) \/ (c = Minus /\ IsDigit(Peek(text, a + 1))) -> "number"
    [] OTHER -> "symbol"

\* A backslash escapes what follows unless it is escaped itself: so does the last of an
\* odd number of them.
Escapes(text, k) ==
  \E m \in 1..k - 1 : text[m] # Backslash /\ (\A j \in m + 1..k : text[j] = Backslash) /\ (k - m) % 2 = 1

IsClosed(text, a, b) == a + 1 < b /\ text[b - 1] = Quote /\ ~Escapes(text, b - 2)

\* A number's digits, or its radix
FirstDigit(text, a) == IF text[a] = Minus THEN a + 1 ELSE a
HasRadix(text, a) == Peek(text, BehindDigits(text, FirstDigit(text, a))) \in {"r", "R"}

IsWord(text, a, b) ==
  /\ a < b
  /\ CASE Kind(text, a) \in {"open", "close"} -> b = a + 1
       [] Kind(text, a) = "string" ->
            /\ \A k \in a + 1..b - 2 : text[k] = Quote => Escapes(text, k - 1)
            /\ IsClosed(text, a, b) \/ b = Len(text) + 1
       [] Kind(text, a) = "number" /\ ~HasRadix(text, a) -> b = BehindDigits(text, FirstDigit(text, a))
       [] OTHER ->
            /\ text[a] \notin Spaces \cup {Semicolon}
            /\ \A k \in a..b - 1 : text[k] \notin Delimiters
            /\ Peek(text, b) \in Delimiters

StringOf(text, a, b) ==
  LET kept == {k \in a + 1..b - 2 : ~Escapes(text, k)} IN
  InOrder([k \in kept |-> IF Escapes(text, k - 1) THEN Escaped(text[k]) ELSE text[k]], b)

Radix(text, a) ==
  LET first == FirstDigit(text, a) IN
  IF HasRadix(text, a) THEN NumberOf(SubSeq(text, first, BehindDigits(text, first) - 1), 10) ELSE 10

DigitsIn(text, a, b) ==
  LET first == FirstDigit(text, a) IN
  SubSeq(text, IF HasRadix(text, a) THEN BehindDigits(text, first) + 1 ELSE first, b - 1)

MagnitudeOf(text, a, b) == NumberOf(DigitsIn(text, a, b), Radix(text, a))

IsNumber(text, a, b) ==
  LET digits == DigitsIn(text, a, b) IN
  /\ Radix(text, a) \in 2..36 /\ digits # <<>>
  /\ ~(HasRadix(text, a) /\ \E i \in DOMAIN digits : DigitValue(digits[i]) >= Radix(text, a))
  /\ ~(MagnitudeOf(text, a, b) > MaxNumber)

Atom(text, a, b) ==
  CASE Kind(text, a) = "string" -> <<"string", StringOf(text, a, b)>>
    [] Kind(text, a) = "number" ->
         LET n == MagnitudeOf(text, a, b) IN <<"number", IF text[a] = Minus THEN -n ELSE n>>
    [] Kind(text, a) = "symbol" -> <<"symbol", SubSeq(text, a, b - 1)>>

IsSpoilt(text, a, b) ==
  \/ Kind(text, a) = "string" /\ ~IsClosed(text, a, b)
  \/ Kind(text, a) = "number" /\ ~IsNumber(text, a, b)

-----------------------------------------------------------------------------
(***************************************************************************)
(* Texts                                                                   *)
(***************************************************************************)
\* A comment is open before q that begins at p or later.
Commented(text, p, q) == \E k \in p..q - 1 : text[k] = Semicolon /\ \A m \in k..q - 1 : text[m] # Newline

\* Only the last comment may go without the end of its line.
IsGap(text, p, q) ==
  /\ p <= q
  /\ \A k \in p..q - 1 : text[k] \in Spaces \cup {Semicolon} \/ Commented(text, p, k)
  /\ q <= Len(text) => ~Commented(text, p, q)

WordKind(t, i) == Kind(t.characters, t.words[i].first)

IsText(t) ==
  /\ t.characters \in Seq(STRING \ {EndOfText})
  /\ LET positions == 1..Len(t.characters) + 1 IN
     t.words \in Seq([first : positions, behind : positions, depth : Int])
  /\ \A i \in DOMAIN t.words : IsWord(t.characters, t.words[i].first, t.words[i].behind)
  /\ \A i \in 0..Count(t) : IsGap(t.characters, Behind(t, i), Begin(t, i + 1))
  /\ \A i \in DOMAIN t.words :
       Depth(t, i) = Depth(t, i - 1) + CASE WordKind(t, i) = "open" -> 1
                                         [] WordKind(t, i) = "close" -> -1
                                         [] OTHER -> 0

\* The place of the parenthesis that closes the list which the i-th word opens (or the
\* first one that closes no list, when i is 0), or the end
Match(t, i) == Lowest({j \in i + 1..Count(t) : Depth(t, j) < Depth(t, i)} \cup {Count(t) + 1})

\* The places where the items of that list begin
ItemsOf(t, i) == {j \in i + 1..Match(t, i) - 1 : Depth(t, j - 1) = Depth(t, i)}

LastOf(t, i) == IF WordKind(t, i) = "open" THEN Match(t, i) ELSE i

\* A missing item, a parenthesis too many or too few, a word that is none
IsRefused(t, i) ==
  \/ i > Count(t)
  \/ WordKind(t, i) = "close" \/ LastOf(t, i) > Count(t)
  \/ \E j \in i..LastOf(t, i) : IsSpoilt(t.characters, t.words[j].first, t.words[j].behind)

TreeOf(t, i) ==
  LET tree[j \in DOMAIN t.words] ==
        IF WordKind(t, j) = "open" THEN <<"list", InOrder([k \in ItemsOf(t, j) |-> tree[k]], Count(t))>>
        ELSE Atom(t.characters, t.words[j].first, t.words[j].behind)
  IN tree[i]

AllRefused(t) == Match(t, 0) <= Count(t) \/ \E j \in ItemsOf(t, 0) : IsRefused(t, j)
AllOf(t) == <<"list", InOrder([j \in ItemsOf(t, 0) |-> TreeOf(t, j)], Count(t))>>
=============================================================================
