---------------------- MODULE SmalltalkMessages_proofs ----------------------
(***************************************************************************)
(* Proofs that the parser of the Smalltalk runtime reads the messages that *)
(* are written, for texts of any length whose words can be told apart.     *)
(***************************************************************************)
EXTENDS SmalltalkMessages, SequenceTheorems, WellFoundedInduction, TLAPS

\* Induction over a stretch of the numbers.
LEMMA Upwards ==
  ASSUME NEW a \in Nat, NEW N \in Nat, NEW S,
         \A k \in a..N : (\A j \in a..k - 1 : j \in S) => k \in S
  PROVE  \A k \in a..N : k \in S
<1> DEFINE fails == {k \in a..N : k \notin S}
<1>1. SUFFICES ASSUME fails # {} PROVE FALSE
  OBVIOUS
<1>2. fails \in SUBSET Nat
  OBVIOUS
<1>3. PICK k \in fails : \A j \in fails : ~(<<j, k>> \in OpToRel(<, Nat))
  <2> HIDE DEF fails
  <2> QED BY <1>1, <1>2, WFMin, NatLessThanWellFounded, Zenon
<1>4. k \in a..N /\ k \notin S /\ \A j \in fails : ~(j < k)
  <2> HIDE DEF fails
  <2>1. \A j \in fails : j \in Nat /\ k \in Nat
    BY <1>2
  <2>2. \A j \in fails : ~(j < k)
    BY <1>3, <2>1, Zenon DEF OpToRel
  <2>3. k \in fails
    OBVIOUS
  <2> QED BY <2>2, <2>3 DEF fails
<1>5. \A j \in a..k - 1 : j \in S
  BY <1>4
<1> QED BY <1>4, <1>5

LEMMA Stepwise ==
  ASSUME NEW a \in Nat, NEW N \in Nat, NEW S, a <= N => a \in S, \A k \in a + 1..N : k - 1 \in S => k \in S
  PROVE  \A k \in a..N : k \in S
<1>1. ASSUME NEW k \in a..N, \A j \in a..k - 1 : j \in S PROVE k \in S
  <2>1. CASE k = a
    BY <2>1
  <2>2. CASE k # a
    <3>1. k \in a + 1..N /\ k - 1 \in a..k - 1
      BY <2>2
    <3> QED BY <1>1, <3>1
  <2> QED BY <2>1, <2>2
<1> QED BY <1>1, Upwards, Zenon

LEMMA LowestIs ==
  ASSUME NEW S \in SUBSET Nat, S # {}
  PROVE  Lowest(S) \in S /\ \A j \in S : Lowest(S) <= j
<1>1. PICK x \in S : \A y \in S : ~(<<y, x>> \in OpToRel(<, Nat))
  BY WFMin, NatLessThanWellFounded, Zenon
<1>2. \A y \in S : y \in Nat /\ x \in Nat
  OBVIOUS
<1>3. \A y \in S : ~(y < x)
  BY <1>1, <1>2, Zenon DEF OpToRel
<1>4. \A y \in S : x <= y
  BY <1>3
<1> QED BY <1>4 DEF Lowest

LEMMA HighestIs ==
  ASSUME NEW N \in Nat, NEW S \in SUBSET (0..N), S # {}
  PROVE  Highest(S) \in S /\ \A j \in S : j <= Highest(S)
<1> DEFINE T == {n \in Nat : \E s \in S : s + n = N}
<1>1. T \in SUBSET Nat /\ T # {}
  <2>1. PICK s \in S : TRUE
    OBVIOUS
  <2>2. s \in 0..N /\ N - s \in Nat /\ s + (N - s) = N
    OBVIOUS
  <2> QED BY <2>2
<1>2. Lowest(T) \in T /\ \A j \in T : Lowest(T) <= j
  <2> HIDE DEF T
  <2> QED BY <1>1, LowestIs
<1>3. PICK x \in S : x + Lowest(T) = N
  BY <1>2
<1>4. \A y \in S : y <= x
  <2>1. TAKE y \in S
  <2>2. y \in 0..N /\ N - y \in T /\ x \in 0..N
    OBVIOUS
  <2>3. Lowest(T) <= N - y
    <3> HIDE DEF T
    <3> QED BY <1>2, <2>2
  <2>4. Lowest(T) \in Nat
    BY <1>2
  <2> HIDE DEF T
  <2> QED BY <1>3, <2>2, <2>3, <2>4
<1> QED BY <1>4 DEF Highest

-----------------------------------------------------------------------------
(***************************************************************************)
(* Characters.                                                             *)
(***************************************************************************)
\* Characters by their names
SPACE == " "
COLON == ":"

LEMMA Characters ==
  /\ SPACE \in Blanks
  /\ "none" \notin Digits /\ "none" \notin Letters /\ "none" \notin BinaryOps /\ "none" \notin Blanks
  /\ COLON \notin Digits /\ COLON \notin Letters /\ SPACE # COLON /\ "none" # COLON
  /\ \A c \in Letters : c \notin Digits
  /\ \A c \in BinaryOps : c \notin Digits /\ c \notin Letters
  /\ \A c \in Blanks : c \notin Digits /\ c \notin Letters /\ c \notin BinaryOps
<1>1. \A c \in Letters : c \notin Digits
  BY DEF Digits, Letters
<1>2. \A c \in BinaryOps : c \notin Digits /\ c \notin Letters
  BY DEF Digits, Letters, BinaryOps
<1>3. \A c \in Blanks : c \notin Digits /\ c \notin Letters /\ c \notin BinaryOps
  <2>1. \A c \in Blanks : c \notin Digits
    BY DEF Digits, Blanks
  <2>2. \A c \in Blanks : c \notin Letters
    BY ZenonT(60) DEF Letters, Blanks
  <2>3. \A c \in Blanks : c \notin BinaryOps
    BY DEF BinaryOps, Blanks
  <2> QED BY <2>1, <2>2, <2>3
<1>4. SPACE \in Blanks /\ COLON \notin Digits /\ COLON \notin Letters
  BY DEF Digits, Letters, Blanks, SPACE, COLON
<1>5. "none" \notin Digits /\ "none" \notin Letters /\ "none" \notin BinaryOps /\ "none" \notin Blanks
  BY DEF Digits, Letters, BinaryOps, Blanks
<1>6. SPACE # COLON /\ "none" # COLON
  BY DEF SPACE, COLON
<1> QED BY <1>1, <1>2, <1>3, <1>4, <1>5, <1>6

\* A search for the first character that is not of a set comes to an end.
LEMMA PastExists ==
  ASSUME NEW source, Len(source) \in Nat, NEW set, "none" \notin set, NEW pos \in 0..Len(source)
  PROVE  /\ Past(source, pos, set) \in pos..Len(source)
         /\ TokPeek(source, Past(source, pos, set)) \notin set
         /\ \A r \in pos..Past(source, pos, set) - 1 : TokPeek(source, r) \in set
<1> DEFINE ends == {q \in pos..Len(source) : TokPeek(source, q) \notin set}
<1>1. TokPeek(source, Len(source)) = "none"
  BY DEF TokPeek
<1>2. ends \in SUBSET Nat /\ Len(source) \in ends
  BY <1>1
<1>3. PICK q \in ends : \A r \in ends : q <= r
  <2> HIDE DEF ends
  <2> QED BY <1>2, LowestIs
<1>4. q \in pos..Len(source) /\ TokPeek(source, q) \notin set /\ \A r \in pos..q - 1 : TokPeek(source, r) \in set
  <2>1. q \in pos..Len(source) /\ TokPeek(source, q) \notin set
    OBVIOUS
  <2>2. \A r \in pos..q - 1 : r \in pos..Len(source) /\ ~(q <= r)
    BY <2>1
  <2> QED BY <1>3, <2>1, <2>2
<1> HIDE DEF ends
<1> QED BY <1>4 DEF Past

LEMMA PastIs ==
  ASSUME NEW source, Len(source) \in Nat, NEW set, NEW pos \in 0..Len(source), NEW q \in pos..Len(source),
         TokPeek(source, q) \notin set, \A r \in pos..q - 1 : TokPeek(source, r) \in set
  PROVE  Past(source, pos, set) = q
<1> DEFINE P(x) == TokPeek(source, x) \notin set /\ \A r \in pos..x - 1 : TokPeek(source, r) \in set
<1>1. \A x \in pos..Len(source) : P(x) => x = q
  <2> SUFFICES ASSUME NEW x \in pos..Len(source), P(x), x # q PROVE FALSE
    OBVIOUS
  <2>1. CASE x < q
    BY <2>1
  <2>2. CASE q < x
    BY <2>2
  <2> QED BY <2>1, <2>2
<1>2. P(q)
  OBVIOUS
<1>3. Past(source, pos, set) = CHOOSE x \in pos..Len(source) : P(x)
  BY DEF Past
<1> HIDE DEF P
<1> QED BY <1>1, <1>2, <1>3

\* Every token but the last goes on in the text.
LEMMA TokenEnds ==
  ASSUME NEW source, Len(source) \in Nat, NEW pos \in 0..Len(source), TokNextToken(source, pos).type # "eof"
  PROVE  TokNextToken(source, pos).end \in pos + 1..Len(source)
<1> DEFINE tok == TokNextToken(source, pos)
           start == Past(source, pos, Blanks)
           end == Past(source, start, Digits)
           past == Past(source, start, Letters \cup Digits)
           c == TokPeek(source, start)
<1>1. start \in pos..Len(source)
  BY Characters, PastExists
<1>2. /\ end \in start..Len(source) /\ TokPeek(source, end) \notin Digits
      /\ past \in start..Len(source) /\ TokPeek(source, past) \notin Letters \cup Digits
  <2>1. "none" \notin Digits /\ "none" \notin Letters \cup Digits
    BY Characters
  <2> HIDE DEF start
  <2>2. start \in 0..Len(source)
    BY <1>1
  <2> QED BY <2>1, <2>2, PastExists
<1>3. \A q : TokPeek(source, q) # "none" => q < Len(source)
  BY DEF TokPeek
<1> HIDE DEF start, end, past
<1>4. tok = CASE c \in Digits -> Token("number", NumberOf(Span(source, start, end)), end)
              [] c \in Letters -> NameToken(source, start)
              [] c \in BinaryOps -> Token("binary", c, start + 1)
              [] OTHER -> Token("eof", 0, start)
  BY DEF TokNextToken, start, end
<1>5. NameToken(source, start) = IF TokPeek(source, past) = COLON THEN Token("keyword", start, past + 1)
                                 ELSE Token("identifier", start, past)
  BY DEF NameToken, past, COLON
<1>6. CASE c \in Digits
  <2>1. tok.end = end
    <3>1. tok = Token("number", NumberOf(Span(source, start, end)), end)
      BY <1>4, <1>6, Characters
    <3> QED BY <3>1 DEF Token
  <2>2. end # start
    BY <1>2, <1>6
  <2> QED BY <1>1, <1>2, <2>1, <2>2
<1>7. CASE c \in Letters
  <2>1. tok = NameToken(source, start)
    BY <1>4, <1>7, Characters
  <2>2. start # past
    BY <1>2, <1>7
  <2>3. CASE TokPeek(source, past) = COLON
    <3>1. tok.end = past + 1
      BY <1>5, <2>1, <2>3 DEF Token
    <3>2. past < Len(source)
      BY <1>3, <2>3, Characters
    <3> QED BY <1>1, <1>2, <2>2, <3>1, <3>2
  <2>4. CASE TokPeek(source, past) # COLON
    <3>1. tok.end = past
      BY <1>5, <2>1, <2>4 DEF Token
    <3> QED BY <1>1, <1>2, <2>2, <3>1
  <2> QED BY <2>3, <2>4
<1>8. CASE c \in BinaryOps
  <2>1. tok.end = start + 1
    <3>1. tok = Token("binary", c, start + 1)
      BY <1>4, <1>8, Characters
    <3> QED BY <3>1 DEF Token
  <2>2. start < Len(source)
    BY <1>3, <1>8, Characters
  <2> QED BY <1>1, <2>1, <2>2
<1>9. CASE c \notin Digits /\ c \notin Letters /\ c \notin BinaryOps
  <2>1. tok = Token("eof", 0, start)
    BY <1>4, <1>9
  <2>2. tok.type = "eof"
    BY <2>1 DEF Token
  <2> QED BY <2>2
<1> QED BY <1>6, <1>7, <1>8, <1>9
-----------------------------------------------------------------------------
(***************************************************************************)
(* How a text is spelled.                                                  *)
(***************************************************************************)
Word(text, i) == text.words[i]
Count(text) == Len(text.words)
BlanksOf(k) == [i \in 1..k |-> " "]

Signs == STRING \cup {SPACE}

HasWords(text) ==
  /\ Count(text) \in Nat /\ text.margin \in Nat /\ DOMAIN text.words = 1..Count(text)
  /\ \A i \in 1..Count(text) : /\ Word(text, i) \in Seq(Signs) /\ Len(Word(text, i)) \in Nat \ {0}
                               /\ IsWord(Word(text, i)) /\ text.gaps[i] \in Nat
  /\ \A i \in 1..Count(text) - 1 : text.gaps[i] = 0 => Apart(Word(text, i), Word(text, i + 1))

LEMMA WellWrittenHasWords == ASSUME NEW text, WellWritten(text) PROVE HasWords(text)
<1>1. text.words \in Seq(Seq(STRING) \ {<<>>}) /\ DOMAIN text.words = 1..Count(text) /\ Count(text) \in Nat
  BY DEF WellWritten, Count
<1>2. ASSUME NEW i \in 1..Count(text)
      PROVE  /\ Word(text, i) \in Seq(Signs) /\ Len(Word(text, i)) \in Nat \ {0}
             /\ IsWord(Word(text, i)) /\ text.gaps[i] \in Nat
  <2>1. Word(text, i) \in Seq(STRING) /\ Word(text, i) # <<>>
    BY <1>1 DEF Word, Count
  <2>2. Len(Word(text, i)) \in Nat \ {0}
    BY <2>1, EmptySeq
  <2>3. Word(text, i) \in Seq(Signs)
    BY <2>1, SeqMonotonic DEF Signs
  <2> QED BY <1>1, <2>2, <2>3 DEF WellWritten, Word
<1>3. ASSUME NEW i \in 1..Count(text) - 1, text.gaps[i] = 0 PROVE Apart(Word(text, i), Word(text, i + 1))
  <2>1. i \in 1..Count(text) /\ i < Count(text)
    BY <1>1
  <2> QED BY <1>1, <1>3, <2>1 DEF WellWritten, Word, Count
<1> QED BY <1>1, <1>2, <1>3 DEF HasWords, WellWritten

SpelledBy(text) ==
  /\ SpelledTo(text, 0) = BlanksOf(text.margin)
  /\ \A i \in 1..Count(text) :
       SpelledTo(text, i) = SpelledTo(text, i - 1) \o Word(text, i) \o BlanksOf(text.gaps[i])

LEMMA SpelledIs == ASSUME NEW text, HasWords(text) PROVE SpelledBy(text)
<1> DEFINE m == Count(text)
           then(i, s) == s \o Word(text, i) \o BlanksOf(text.gaps[i])
           Is(n, f) == f = [i \in 0..n |-> IF i = 0 THEN BlanksOf(text.margin) ELSE then(i, f[i - 1])]
           good == {n \in 0..m : \E f : Is(n, f)}
<1>1. m \in Nat
  BY DEF HasWords
<1> HIDE DEF m, then
<1>2. 0 \in good
  <2> DEFINE g == [i \in 0..0 |-> BlanksOf(text.margin)]
  <2>1. Is(0, g)
    OBVIOUS
  <2> HIDE DEF g, Is
  <2> QED BY <1>1, <2>1
<1>3. ASSUME NEW n \in 0 + 1..m, n - 1 \in good PROVE n \in good
  <2>1. PICK f : Is(n - 1, f)
    BY <1>3
  <2> DEFINE g == [i \in 0..n |-> IF i = n THEN then(n, f[n - 1]) ELSE f[i]]
  <2>2. Is(n, g)
    BY <1>1, <2>1
  <2> HIDE DEF g
  <2> QED BY <1>1, <2>2
<1>4. m \in good
  <2> HIDE DEF good
  <2>1. \A n \in 0..m : n \in good
    BY <1>1, <1>2, <1>3, Stepwise
  <2> QED BY <1>1, <2>1
<1> DEFINE f == CHOOSE h : Is(m, h)
<1>5. \A n : SpelledTo(text, n) = f[n]
  BY DEF SpelledTo, m, then, Count, Word, BlanksOf
<1>6. Is(m, f)
  BY <1>4
<1> HIDE DEF f
<1>7. f[0] = BlanksOf(text.margin) /\ \A i \in 1..m : f[i] = then(i, f[i - 1])
  BY <1>1, <1>6
<1> QED BY <1>5, <1>7 DEF SpelledBy, m, then

WordEnd(text, i) == IF i = 0 THEN 0 ELSE StartOf(text, i) + Len(Word(text, i))

LEMMA Repeated ==
  ASSUME NEW k \in Nat, NEW S, NEW c \in S, NEW s, s = [i \in 1..k |-> c]
  PROVE  s \in Seq(S) /\ Len(s) = k /\ \A j \in 1..k : s[j] = c
OBVIOUS

LEMMA BlankIs == ASSUME NEW k \in Nat PROVE BlanksOf(k) \in Seq(Signs) /\ Len(BlanksOf(k)) = k /\ \A j \in 1..k : BlanksOf(k)[j] = SPACE
<1>1. SPACE \in Signs
  BY DEF Signs
<1>2. BlanksOf(k) = [i \in 1..k |-> SPACE]
  BY DEF BlanksOf, SPACE
<1> QED BY <1>1, <1>2, Repeated, Zenon

Joins(S, s, t, u, all) ==
  /\ all \in Seq(S)
  /\ Len(all) = Len(s) + Len(t) + Len(u)
  /\ \A i \in 1..Len(s) : all[i] = s[i]
  /\ \A i \in 1..Len(t) : all[Len(s) + i] = t[i]
  /\ \A i \in 1..Len(u) : all[Len(s) + Len(t) + i] = u[i]

LEMMA Concatenated ==
  ASSUME NEW S, NEW s \in Seq(S), NEW t \in Seq(S), NEW u \in Seq(S)
  PROVE  Joins(S, s, t, u, s \o t \o u)
<1> DEFINE st == s \o t
<1>0. Len(s) \in Nat /\ Len(t) \in Nat /\ Len(u) \in Nat
  OBVIOUS
<1>1. /\ st \in Seq(S) /\ Len(st) = Len(s) + Len(t)
      /\ \A i \in 1..Len(s) + Len(t) : st[i] = IF i <= Len(s) THEN s[i] ELSE t[i - Len(s)]
  BY ConcatProperties
<1> HIDE DEF st
<1>2. /\ st \o u \in Seq(S) /\ Len(st \o u) = Len(st) + Len(u)
      /\ \A i \in 1..Len(st) + Len(u) : (st \o u)[i] = IF i <= Len(st) THEN st[i] ELSE u[i - Len(st)]
  <2>1. st \in Seq(S)
    BY <1>1
  <2> QED BY <2>1, ConcatProperties, Zenon
<1>3. st \o u = s \o t \o u
  BY DEF st
<1>4. \A i \in 1..Len(s) : (st \o u)[i] = s[i]
  BY <1>0, <1>1, <1>2
<1>5. \A i \in 1..Len(t) : (st \o u)[Len(s) + i] = t[i]
  <2>1. TAKE i \in 1..Len(t)
  <2>2. /\ Len(s) + i \in 1..Len(st) + Len(u) /\ Len(s) + i <= Len(st) /\ Len(s) + i \in 1..Len(s) + Len(t)
        /\ ~(Len(s) + i <= Len(s)) /\ Len(s) + i - Len(s) = i
    BY <1>0, <1>1
  <2> QED BY <1>1, <1>2, <2>2
<1>6. \A i \in 1..Len(u) : (st \o u)[Len(s) + Len(t) + i] = u[i]
  <2>1. TAKE i \in 1..Len(u)
  <2>2. /\ Len(s) + Len(t) + i \in 1..Len(st) + Len(u) /\ ~(Len(s) + Len(t) + i <= Len(st))
        /\ Len(s) + Len(t) + i - Len(st) = i
    BY <1>0, <1>1
  <2> QED BY <1>2, <2>2
<1>7. st \o u \in Seq(S) /\ Len(st \o u) = Len(s) + Len(t) + Len(u)
  BY <1>0, <1>1, <1>2
<1> HIDE <1>0, <1>1, <1>2
<1> QED BY <1>3, <1>4, <1>5, <1>6, <1>7, Zenon DEF Joins

Spells(text, i) ==
  /\ SpelledTo(text, i) \in Seq(Signs)
  /\ StartOf(text, i + 1) = Len(SpelledTo(text, i))
  /\ StartOf(text, i + 1) = WordEnd(text, i) + (IF i = 0 THEN text.margin ELSE text.gaps[i])

LEMMA SpelledEnds == ASSUME NEW text, HasWords(text), NEW i \in 0..Count(text) PROVE Spells(text, i)
<1> DEFINE good == {n \in 0..Count(text) : Spells(text, n)}
<1>0. Count(text) \in Nat /\ text.margin \in Nat
  BY DEF HasWords
<1>1. 0 \in good
  <2>1. SpelledTo(text, 0) = BlanksOf(text.margin)
    BY SpelledIs DEF SpelledBy
  <2>2. StartOf(text, 0 + 1) = Len(SpelledTo(text, 0))
    BY DEF StartOf
  <2>3. BlanksOf(text.margin) \in Seq(Signs) /\ Len(BlanksOf(text.margin)) = text.margin
    BY <1>0, BlankIs
  <2>4. SpelledTo(text, 0) \in Seq(Signs) /\ StartOf(text, 0 + 1) = 0 + text.margin
    BY <1>0, <2>1, <2>2, <2>3
  <2>5. Spells(text, 0)
    BY <2>2, <2>4 DEF Spells, WordEnd
  <2> QED BY <1>0, <2>5
<1>2. ASSUME NEW n \in 0 + 1..Count(text), n - 1 \in good PROVE n \in good
  <2>1. n \in 1..Count(text) /\ n - 1 + 1 = n /\ n # 0 /\ n \in 0..Count(text) /\ Spells(text, n - 1)
    BY <1>0, <1>2
  <2> DEFINE s == SpelledTo(text, n - 1)  w == Word(text, n)  g == text.gaps[n]
  <2>2. SpelledTo(text, n) = s \o w \o BlanksOf(g)
    BY <2>1, SpelledIs DEF SpelledBy
  <2>3. s \in Seq(Signs) /\ StartOf(text, n) = Len(s)
    BY <2>1 DEF Spells
  <2>4. w \in Seq(Signs) /\ g \in Nat
    BY <2>1 DEF HasWords
  <2>5. StartOf(text, n + 1) = Len(SpelledTo(text, n))
    BY <2>1 DEF StartOf
  <2>6. WordEnd(text, n) = StartOf(text, n) + Len(w)
    BY <2>1 DEF WordEnd
  <2> HIDE DEF s, w, g
  <2>7. BlanksOf(g) \in Seq(Signs) /\ Len(BlanksOf(g)) = g
    BY <2>4, BlankIs
  <2>8. SpelledTo(text, n) \in Seq(Signs) /\ Len(SpelledTo(text, n)) = Len(s) + Len(w) + g
    <3>1. Joins(Signs, s, w, BlanksOf(g), s \o w \o BlanksOf(g))
      BY <2>3, <2>4, <2>7, Concatenated, Zenon
    <3> QED BY <2>2, <2>7, <3>1 DEF Joins
  <2> QED BY <2>1, <2>3, <2>5, <2>6, <2>8 DEF Spells, g
<1>3. \A n \in 0..Count(text) : n \in good
  <2> HIDE DEF good
  <2> QED BY <1>0, <1>1, <1>2, Stepwise
<1> QED BY <1>3

Continues(text, i, k) ==
  LET s == SpelledTo(text, i)  t == SpelledTo(text, k)
  IN Len(s) <= Len(t) /\ \A p \in 1..Len(s) : t[p] = s[p]

\* What a word adds to the text
LEMMA WordAdds ==
  ASSUME NEW text, HasWords(text), NEW i \in 1..Count(text)
  PROVE  /\ Continues(text, i - 1, i) /\ StartOf(text, i) \in Nat
         /\ \A k \in 1..Len(Word(text, i)) : SpelledTo(text, i)[StartOf(text, i) + k] = Word(text, i)[k]
         /\ \A k \in 1..text.gaps[i] : SpelledTo(text, i)[WordEnd(text, i) + k] = SPACE
<1> DEFINE s == SpelledTo(text, i - 1)  w == Word(text, i)  g == text.gaps[i]  b == BlanksOf(g)  t == SpelledTo(text, i)
<1>1. i - 1 \in 0..Count(text) /\ i - 1 + 1 = i /\ i # 0 /\ Count(text) \in Nat
  BY DEF HasWords
<1>2. Spells(text, i - 1)
  BY <1>1, SpelledEnds
<1>3. s \in Seq(Signs) /\ StartOf(text, i) = Len(s)
  BY <1>1, <1>2 DEF Spells
<1>4. w \in Seq(Signs) /\ g \in Nat
  BY DEF HasWords
<1>5. b \in Seq(Signs) /\ Len(b) = g /\ \A k \in 1..g : b[k] = SPACE
  BY <1>4, BlankIs
<1>6. t = s \o w \o b
  BY <1>1, SpelledIs DEF SpelledBy
<1>7. WordEnd(text, i) = StartOf(text, i) + Len(w)
  BY <1>1 DEF WordEnd
<1> HIDE DEF s, w, g, b, t
<1>8. /\ Len(t) = Len(s) + Len(w) + Len(b) /\ \A k \in 1..Len(s) : t[k] = s[k]
      /\ \A k \in 1..Len(w) : t[Len(s) + k] = w[k]
      /\ \A k \in 1..Len(b) : t[Len(s) + Len(w) + k] = b[k]
  <2>1. Joins(Signs, s, w, b, s \o w \o b)
    BY <1>3, <1>4, <1>5, Concatenated, Zenon
  <2> QED BY <1>6, <2>1 DEF Joins
<1>9. Len(s) \in Nat /\ Len(w) \in Nat /\ Len(b) \in Nat
  BY <1>3, <1>4, <1>5
<1>10. Continues(text, i - 1, i)
  BY <1>8, <1>9 DEF Continues, s, t
<1>11. \A k \in 1..Len(w) : t[StartOf(text, i) + k] = w[k]
  BY <1>3, <1>8
<1>12. \A k \in 1..g : t[WordEnd(text, i) + k] = SPACE
  BY <1>3, <1>5, <1>7, <1>8
<1> QED BY <1>3, <1>9, <1>10, <1>11, <1>12 DEF t, w, g

LEMMA TextContinues ==
  ASSUME NEW text, HasWords(text), NEW i \in 0..Count(text)
  PROVE  Continues(text, i, Count(text))
<1> DEFINE good == {k \in i..Count(text) : Continues(text, i, k)}
<1>0. Count(text) \in Nat /\ i \in Nat
  BY DEF HasWords
<1>1. \A k \in 0..Count(text) : Len(SpelledTo(text, k)) \in Nat
  BY SpelledEnds DEF Spells
<1>2. i \in good
  BY <1>0, <1>1 DEF Continues
<1>3. ASSUME NEW k \in i + 1..Count(text), k - 1 \in good PROVE k \in good
  <2>1. k \in 1..Count(text) /\ k - 1 \in 0..Count(text) /\ k \in 0..Count(text) /\ k \in i..Count(text)
    BY <1>0
  <2>2. Continues(text, k - 1, k) /\ Continues(text, i, k - 1)
    BY <1>3, <2>1, WordAdds
  <2>3. Continues(text, i, k)
    BY <1>1, <2>1, <2>2 DEF Continues
  <2> QED BY <2>1, <2>3
<1>4. \A k \in i..Count(text) : k \in good
  <2> HIDE DEF good
  <2> QED BY <1>0, <1>2, <1>3, Stepwise
<1> QED BY <1>0, <1>4

\* The blanks from the end of a word to the start of the next
Spaced(text, i) ==
  /\ WordEnd(text, i) \in Nat /\ StartOf(text, i + 1) \in WordEnd(text, i)..Len(Spelled(text))
  /\ \A p \in WordEnd(text, i)..StartOf(text, i + 1) - 1 : TokPeek(Spelled(text), p) = SPACE

LEMMA BlanksBetween == ASSUME NEW text, HasWords(text), NEW i \in 0..Count(text) PROVE Spaced(text, i)
<1> DEFINE s == SpelledTo(text, i)  src == Spelled(text)
<1>0. Count(text) \in Nat /\ text.margin \in Nat /\ Count(text) \in 0..Count(text)
  BY DEF HasWords
<1>1. src = SpelledTo(text, Count(text))
  BY DEF Spelled, Count
<1>2. Len(s) <= Len(src) /\ \A p \in 1..Len(s) : src[p] = s[p]
  BY <1>1, TextContinues DEF Continues
<1>3. Len(s) \in Nat /\ Len(src) \in Nat
  BY <1>0, <1>1, SpelledEnds DEF Spells
<1>4. StartOf(text, i + 1) = Len(s)
  BY SpelledEnds DEF Spells
<1> DEFINE g == IF i = 0 THEN text.margin ELSE text.gaps[i]
<1>5. g \in Nat /\ StartOf(text, i + 1) = WordEnd(text, i) + g
  <2>1. g \in Nat
    BY <1>0 DEF HasWords
  <2> QED BY <2>1, SpelledEnds DEF Spells
<1>6. WordEnd(text, i) \in Nat /\ \A k \in 1..g : s[WordEnd(text, i) + k] = SPACE
  <2>1. CASE i = 0
    <3>1. WordEnd(text, i) = 0 /\ g = text.margin /\ s = BlanksOf(text.margin)
      BY <2>1, SpelledIs DEF WordEnd, SpelledBy
    <3>2. \A k \in 1..g : BlanksOf(g)[k] = SPACE
      BY <1>5, BlankIs
    <3> HIDE DEF s, g
    <3>3. \A k \in 1..g : 0 + k = k
      BY <1>5
    <3> QED BY <3>1, <3>2, <3>3
  <2>2. CASE i # 0
    <3>1. i \in 1..Count(text) /\ g = text.gaps[i] /\ Len(Word(text, i)) \in Nat
      BY <1>0, <2>2 DEF HasWords
    <3> HIDE DEF g
    <3> QED BY <2>2, <3>1, WordAdds DEF WordEnd
  <2> QED BY <2>1, <2>2
<1> HIDE DEF s, src, g
<1>7. \A p \in WordEnd(text, i)..StartOf(text, i + 1) - 1 : TokPeek(src, p) = SPACE
  <2>1. TAKE p \in WordEnd(text, i)..StartOf(text, i + 1) - 1
  <2>2. p + 1 - WordEnd(text, i) \in 1..g /\ p + 1 \in 1..Len(s) /\ p < Len(src)
        /\ WordEnd(text, i) + (p + 1 - WordEnd(text, i)) = p + 1
    BY <1>2, <1>3, <1>4, <1>5, <1>6
  <2>3. s[p + 1] = SPACE
    BY <1>6, <2>2
  <2> QED BY <1>2, <2>2, <2>3 DEF TokPeek
<1>8. StartOf(text, i + 1) \in WordEnd(text, i)..Len(src)
  BY <1>2, <1>3, <1>4, <1>5, <1>6
<1> QED BY <1>6, <1>7, <1>8 DEF Spaced, src

\* The characters of a word
Lettered(text, i) ==
  /\ StartOf(text, i) \in Nat /\ WordEnd(text, i) = StartOf(text, i) + Len(Word(text, i))
  /\ WordEnd(text, i) <= Len(Spelled(text))
  /\ \A k \in 1..Len(Word(text, i)) : TokPeek(Spelled(text), StartOf(text, i) + k - 1) = Word(text, i)[k]

LEMMA WordsInText == ASSUME NEW text, HasWords(text), NEW i \in 1..Count(text) PROVE Lettered(text, i)
<1> DEFINE s == SpelledTo(text, i)  src == Spelled(text)  w == Word(text, i)
<1>0. Count(text) \in Nat /\ i \in 0..Count(text) /\ i # 0 /\ Len(w) \in Nat
  BY DEF HasWords
<1>1. src = SpelledTo(text, Count(text))
  BY DEF Spelled, Count
<1>2. Len(s) <= Len(src) /\ \A p \in 1..Len(s) : src[p] = s[p]
  BY <1>0, <1>1, TextContinues DEF Continues
<1>3. StartOf(text, i) \in Nat /\ \A k \in 1..Len(w) : s[StartOf(text, i) + k] = w[k]
  BY WordAdds
<1>4. WordEnd(text, i) = StartOf(text, i) + Len(w)
  BY <1>0 DEF WordEnd
<1>5. StartOf(text, i + 1) = Len(s) /\ StartOf(text, i + 1) \in WordEnd(text, i)..Len(src)
  BY <1>0, SpelledEnds, BlanksBetween DEF Spells, Spaced
<1> HIDE DEF s, src, w
<1>6. \A k \in 1..Len(w) : TokPeek(src, StartOf(text, i) + k - 1) = w[k]
  <2>1. TAKE k \in 1..Len(w)
  <2>2. StartOf(text, i) + k \in 1..Len(s) /\ StartOf(text, i) + k - 1 + 1 = StartOf(text, i) + k
        /\ StartOf(text, i) + k - 1 < Len(src)
    BY <1>0, <1>2, <1>3, <1>4, <1>5
  <2> QED BY <1>2, <1>3, <2>2 DEF TokPeek
<1> QED BY <1>3, <1>4, <1>5, <1>6 DEF Lettered, src, w

-----------------------------------------------------------------------------
(***************************************************************************)
(* The tokens of a text are its words.                                     *)
(***************************************************************************)
Kind(text, i) == WordType(Word(text, i))

Kinds == {"number", "identifier", "binary", "keyword", "unknown"}

NumberWord(w) == \A k \in 1..Len(w) : w[k] \in Digits
NameWord(w) == w[1] \in Letters /\ \A k \in 1..Len(w) : w[k] \in Letters \cup Digits
KeywordWord(w) ==
  /\ w[1] \in Letters /\ Len(w) > 1 /\ w[Len(w)] = COLON
  /\ \A k \in 1..Len(w) - 1 : w[k] \in Letters \cup Digits
UnknownWord(w) == w[1] \notin Digits /\ w[1] \notin Letters /\ w[1] \notin BinaryOps /\ w[1] \notin Blanks

KnownWord(w, type) ==
  \/ type = "number" /\ w[1] \in Digits /\ NumberWord(w)
  \/ type = "binary" /\ w[1] \in BinaryOps /\ Len(w) = 1
  \/ type = "identifier" /\ NameWord(w)
  \/ type = "keyword" /\ KeywordWord(w)
  \/ type = "unknown" /\ UnknownWord(w)

LEMMA WordsAreKnown ==
  ASSUME NEW w \in Seq(Signs), Len(w) # 0, IsWord(w)
  PROVE  KnownWord(w, WordType(w))
<1>1. Len(w) \in Nat \ {0} /\ DOMAIN w = 1..Len(w) /\ 1 \in 1..Len(w)
  OBVIOUS
<1> DEFINE c == w[1]  t == WordType(w)
<1>2. /\ c \in Digits => t = "number"
      /\ c \in BinaryOps => t = "binary"
      /\ c \in Letters /\ Last(w) = COLON => t = "keyword"
      /\ c \in Letters /\ Last(w) # COLON => t = "identifier"
      /\ c \notin Digits /\ c \notin BinaryOps /\ c \notin Letters => t = "unknown"
  <2>1. t = CASE c \in Digits -> "number"
              [] c \in BinaryOps -> "binary"
              [] c \in Letters /\ Last(w) = COLON -> "keyword"
              [] c \in Letters /\ Last(w) # COLON -> "identifier"
              [] OTHER -> "unknown"
    BY DEF WordType, COLON
  <2> HIDE DEF t, c
  <2>2. /\ c \in Letters => c \notin Digits /\ c \notin BinaryOps
        /\ c \in BinaryOps => c \notin Digits /\ c \notin Letters
    BY Characters
  <2>3. CASE c \in Digits
    BY <2>1, <2>2, <2>3
  <2>4. CASE c \in BinaryOps
    BY <2>1, <2>2, <2>4
  <2>5. CASE c \in Letters
    BY <2>1, <2>2, <2>5
  <2>6. CASE c \notin Letters /\ c \notin BinaryOps /\ c \notin Digits
    BY <2>1, <2>6
  <2> QED BY <2>2, <2>3, <2>4, <2>5, <2>6
<1>3. /\ t = "number" => c \in Digits
      /\ t = "binary" => c \in BinaryOps
      /\ t = "keyword" => c \in Letters /\ Last(w) = COLON
      /\ t = "identifier" => c \in Letters
      /\ t = "unknown" => c \notin Digits /\ c \notin BinaryOps /\ c \notin Letters
  BY <1>2
<1> HIDE DEF c, t
<1>4. CASE t = "number" /\ \A i \in DOMAIN w : w[i] \in Digits
  BY <1>1, <1>3, <1>4 DEF KnownWord, NumberWord, c, t
<1>5. CASE t = "binary" /\ Len(w) = 1
  BY <1>1, <1>3, <1>5 DEF KnownWord, c, t
<1>6. CASE t = "identifier" /\ IsName(w)
  BY <1>1, <1>3, <1>6 DEF KnownWord, NameWord, IsName, c, t
<1>7. CASE t = "keyword" /\ IsName(Front(w))
  <2> DEFINE f == SubSeq(w, 1, Len(w) - 1)
  <2>1. f # <<>> /\ \A i \in DOMAIN f : f[i] \in Letters \cup Digits
    BY <1>7 DEF IsName, Front
  <2>2. f \in Seq(Signs) /\ Len(f) = Len(w) - 1 /\ \A i \in 1..Len(w) - 1 : f[i] = w[i]
    <3>1. 1 \in Int /\ Len(w) - 1 \in Int /\ \A i \in 1..Len(w) - 1 : w[i] \in Signs
      BY <1>1
    <3>2. /\ f \in Seq(Signs) /\ Len(f) = IF 1 <= Len(w) - 1 THEN Len(w) - 1 - 1 + 1 ELSE 0
          /\ \A i \in 1..Len(w) - 1 - 1 + 1 : f[i] = w[1 + i - 1]
      BY <3>1, SubSeqProperties
    <3> HIDE DEF f
    <3>3. Len(f) = Len(w) - 1
      <4> DEFINE n == Len(w)
      <4>1. n \in Nat \ {0} /\ Len(f) = IF 1 <= n - 1 THEN n - 1 - 1 + 1 ELSE 0
        BY <1>1, <3>2
      <4>2. Len(f) = n - 1
        <5> HIDE DEF n
        <5> QED BY <4>1
      <4> QED BY <4>2
    <3>4. \A i \in 1..Len(w) - 1 : i \in 1..Len(w) - 1 - 1 + 1 /\ 1 + i - 1 = i
      BY <1>1
    <3> QED BY <3>2, <3>3, <3>4
  <2> HIDE DEF f
  <2>3. Len(f) # 0 /\ DOMAIN f = 1..Len(f)
    BY <2>1, <2>2
  <2>4. Len(w) > 1 /\ \A i \in 1..Len(w) - 1 : w[i] \in Letters \cup Digits
    BY <1>1, <2>1, <2>2, <2>3
  <2>5. w[Len(w)] = COLON /\ w[1] \in Letters
    BY <1>3, <1>7 DEF Last, c
  <2> QED BY <1>7, <2>4, <2>5 DEF KnownWord, KeywordWord, t
<1>8. CASE t = "unknown" /\ w[1] \notin Blanks
  BY <1>3, <1>8 DEF KnownWord, UnknownWord, c, t
<1> QED BY <1>4, <1>5, <1>6, <1>7, <1>8 DEF IsWord, t

LEMMA WordsKnown ==
  ASSUME NEW text, HasWords(text), NEW i \in 1..Count(text)
  PROVE  KnownWord(Word(text, i), Kind(text, i)) /\ Word(text, i)[1] \notin Blanks /\ 1 \in 1..Len(Word(text, i))
<1>1. Word(text, i) \in Seq(Signs) /\ Len(Word(text, i)) \in Nat \ {0} /\ IsWord(Word(text, i))
  BY DEF HasWords
<1>2. KnownWord(Word(text, i), Kind(text, i)) /\ 1 \in 1..Len(Word(text, i))
  BY <1>1, WordsAreKnown DEF Kind
<1> QED BY <1>2, Characters DEF KnownWord, NumberWord, NameWord, KeywordWord, UnknownWord

\* A word ends where its token ends.
LEMMA AfterWord ==
  ASSUME NEW text, HasWords(text), NEW i \in 1..Count(text)
  PROVE  LET c == TokPeek(Spelled(text), WordEnd(text, i))
         IN /\ Kind(text, i) = "number" => c \notin Digits
            /\ Kind(text, i) = "identifier" => c \notin Letters \cup Digits /\ c # COLON
<1> DEFINE src == Spelled(text)  c == TokPeek(src, WordEnd(text, i))  e == WordEnd(text, i)
<1>0. i \in 0..Count(text) /\ Count(text) \in Nat /\ i # 0
  BY DEF HasWords
<1>1. Spaced(text, i) /\ StartOf(text, i + 1) = e + text.gaps[i] /\ text.gaps[i] \in Nat
  BY <1>0, BlanksBetween, SpelledEnds DEF HasWords, Spells
<1> HIDE DEF src, c, e
<1>2. CASE text.gaps[i] # 0
  <2>1. e \in Nat /\ e \in e..StartOf(text, i + 1) - 1
    BY <1>1, <1>2 DEF Spaced, e
  <2>2. c = SPACE
    BY <1>1, <2>1 DEF Spaced, c, e, src
  <2> QED BY <2>2, Characters DEF c, src
<1>3. CASE text.gaps[i] = 0 /\ i < Count(text)
  <2>1. i \in 1..Count(text) - 1 /\ i + 1 \in 1..Count(text)
    BY <1>0, <1>3
  <2>2. Apart(Word(text, i), Word(text, i + 1))
    BY <1>3, <2>1 DEF HasWords
  <2>3. StartOf(text, i + 1) = e /\ e \in Nat /\ 1 \in 1..Len(Word(text, i + 1))
    BY <1>1, <1>3, <2>1, WordsKnown DEF Spaced, e
  <2>4. TokPeek(src, StartOf(text, i + 1) + 1 - 1) = Word(text, i + 1)[1]
    BY <2>1, <2>3, WordsInText DEF Lettered, src
  <2>5. c = Word(text, i + 1)[1]
    BY <2>3, <2>4 DEF c, e
  <2> QED BY <2>2, <2>5, Zenon DEF Apart, Kind, c, src, COLON
<1>4. CASE text.gaps[i] = 0 /\ ~(i < Count(text))
  <2>1. i = Count(text)
    BY <1>0, <1>4
  <2>2. StartOf(text, i + 1) = Len(src) /\ e \in Nat
    BY <1>1, <2>1 DEF StartOf, Spelled, Count, Spaced, e, src
  <2>3. c = "none"
    BY <1>1, <1>4, <2>2 DEF TokPeek, c, e
  <2> QED BY <2>3, Characters DEF c, src
<1> QED BY <1>2, <1>3, <1>4

\* The token of a word, which is the end of the text if the word begins no token
TokenOf(text, i) ==
  CASE Kind(text, i) = "number" -> Token("number", NumberOf(Word(text, i)), WordEnd(text, i))
    [] Kind(text, i) = "binary" -> Token("binary", Word(text, i)[1], WordEnd(text, i))
    [] Kind(text, i) = "identifier" -> Token("identifier", StartOf(text, i), WordEnd(text, i))
    [] Kind(text, i) = "keyword" -> Token("keyword", StartOf(text, i), WordEnd(text, i))
    [] OTHER -> Token("eof", 0, StartOf(text, i))

LEMMA TokenAt ==
  ASSUME NEW text, HasWords(text), NEW i \in 1..Count(text)
  PROVE  TokNextToken(Spelled(text), WordEnd(text, i - 1)) = TokenOf(text, i)
<1> DEFINE src == Spelled(text)  pos == WordEnd(text, i - 1)  start == StartOf(text, i)  w == Word(text, i)
           end == WordEnd(text, i)  n == Len(w)  kind == Kind(text, i)
<1>0. Count(text) \in Nat /\ i - 1 \in 0..Count(text) /\ i - 1 + 1 = i /\ n \in Nat \ {0} /\ w \in Seq(Signs)
  BY DEF HasWords
<1>1. pos \in Nat /\ start \in pos..Len(src) /\ \A p \in pos..start - 1 : TokPeek(src, p) = SPACE
  BY <1>0, BlanksBetween DEF Spaced
<1>2. /\ end = start + n /\ end <= Len(src)
      /\ \A k \in 1..n : TokPeek(src, start + k - 1) = w[k]
  BY WordsInText DEF Lettered
<1>3. KnownWord(w, kind) /\ w[1] \notin Blanks
  BY WordsKnown
<1>4. /\ kind = "number" => TokPeek(src, end) \notin Digits
      /\ kind = "identifier" => TokPeek(src, end) \notin Letters \cup Digits /\ TokPeek(src, end) # COLON
  BY AfterWord
<1>5. Len(src) \in Nat
  <2>1. Count(text) \in 0..Count(text)
    BY <1>0
  <2> QED BY <2>1, SpelledEnds DEF Spells, Spelled, Count
<1> HIDE DEF src, pos, start, w, end, n, kind
<1>6. TokPeek(src, start) = w[1]
  <2>1. 1 \in 1..n /\ start + 1 - 1 = start
    BY <1>0, <1>1
  <2> QED BY <1>2, <2>1
<1>7. Past(src, pos, Blanks) = start
  <2>1. pos \in 0..Len(src) /\ TokPeek(src, start) \notin Blanks
    BY <1>1, <1>3, <1>5, <1>6
  <2>2. \A r \in pos..start - 1 : TokPeek(src, r) \in Blanks
    BY <1>1, Characters
  <2> QED BY <1>1, <1>5, <2>1, <2>2, PastIs
<1> DEFINE digits == Past(src, start, Digits)
           tok == TokNextToken(src, pos)
<1>8. tok = CASE w[1] \in Digits -> Token("number", NumberOf(Span(src, start, digits)), digits)
              [] w[1] \in Letters -> NameToken(src, start)
              [] w[1] \in BinaryOps -> Token("binary", w[1], start + 1)
              [] OTHER -> Token("eof", 0, start)
  BY <1>6, <1>7 DEF TokNextToken
<1>9. \A r \in start..end - 1 : r - start + 1 \in 1..n /\ TokPeek(src, r) = w[r - start + 1]
  <2>1. TAKE r \in start..end - 1
  <2>2. r - start + 1 \in 1..n /\ start + (r - start + 1) - 1 = r
    BY <1>0, <1>1, <1>2
  <2> QED BY <1>2, <2>2
<1>10. start \in 0..Len(src) /\ end \in start..Len(src)
  BY <1>0, <1>1, <1>2, <1>5
<1>11. TokenOf(text, i) =
         CASE kind = "number" -> Token("number", NumberOf(w), end)
           [] kind = "binary" -> Token("binary", w[1], end)
           [] kind = "identifier" -> Token("identifier", start, end)
           [] kind = "keyword" -> Token("keyword", start, end)
           [] OTHER -> Token("eof", 0, start)
  BY DEF TokenOf, kind, w, end, start
<1> HIDE DEF tok
<1>12. CASE kind = "number" /\ w[1] \in Digits /\ NumberWord(w)
  <2>1. digits = end
    <3>1. \A r \in start..end - 1 : TokPeek(src, r) \in Digits
      BY <1>9, <1>12 DEF NumberWord, n
    <3> QED BY <1>4, <1>5, <1>10, <1>12, <3>1, PastIs
  <2>2. Span(src, start, end) = w
    <3>1. start + 1 \in Int /\ end \in Int
      BY <1>1, <1>10
    <3>2. \A r \in start + 1..end : src[r] = w[r - start] /\ r - start \in 1..n
      <4>1. TAKE r \in start + 1..end
      <4>2. r - 1 \in start..end - 1 /\ r - 1 - start + 1 = r - start /\ r - 1 + 1 = r /\ r - 1 < Len(src)
        BY <1>1, <1>5, <1>10
      <4>3. TokPeek(src, r - 1) = w[r - start] /\ r - start \in 1..n
        BY <1>9, <4>2
      <4> QED BY <4>2, <4>3 DEF TokPeek
    <3>3. \A r \in start + 1..end : src[r] \in Signs
      BY <1>0, <3>2 DEF n
    <3> DEFINE s == SubSeq(src, start + 1, end)
    <3>4. /\ s \in Seq(Signs) /\ Len(s) = IF start + 1 <= end THEN end - (start + 1) + 1 ELSE 0
          /\ \A k \in 1..end - (start + 1) + 1 : s[k] = src[start + 1 + k - 1]
      BY <3>1, <3>3, SubSeqProperties
    <3> HIDE DEF s
    <3>5. Len(s) = n
      BY <1>0, <1>1, <1>2, <3>4
    <3>6. \A k \in 1..n : s[k] = w[k]
      <4>1. TAKE k \in 1..n
      <4>2. k \in 1..end - (start + 1) + 1 /\ start + 1 + k - 1 = start + k /\ start + k \in start + 1..end
            /\ start + k - start = k
        BY <1>0, <1>1, <1>2
      <4>3. s[k] = src[start + k]
        BY <3>4, <4>2
      <4>4. src[start + k] = w[k]
        <5> DEFINE r == start + k
        <5>1. r \in start + 1..end /\ r - start = k
          <6>1. r \in start + 1..end
            BY <4>2
          <6>2. r - start = k
            BY <1>0, <1>1, <1>10
          <6> QED BY <6>1, <6>2
        <5> HIDE DEF r
        <5>2. src[r] = w[k]
          BY <3>2, <5>1
        <5> QED BY <5>2 DEF r
      <4> QED BY <4>3, <4>4
    <3>7. s = w
      <4>1. s \in Seq(Signs) /\ Len(s) = Len(w)
        BY <3>4, <3>5 DEF n
      <4> QED BY <1>0, <3>6, <4>1, SeqEqual DEF n
    <3> QED BY <3>7 DEF s, Span
  <2>3. tok = Token("number", NumberOf(w), end)
    <3>1. w[1] \notin Letters /\ w[1] \notin BinaryOps
      BY <1>12, Characters
    <3> QED BY <1>8, <1>12, <2>1, <2>2, <3>1
  <2> QED BY <1>11, <1>12, <2>3 DEF tok, src, pos
<1>13. CASE kind = "binary" /\ w[1] \in BinaryOps /\ n = 1
  <2>1. tok = Token("binary", w[1], start + 1)
    BY <1>8, <1>13, Characters
  <2>2. end = start + 1
    BY <1>2, <1>13
  <2> QED BY <1>11, <1>13, <2>1, <2>2 DEF tok, src, pos
<1>14. CASE kind = "identifier" /\ NameWord(w)
  <2>1. Past(src, start, Letters \cup Digits) = end
    <3>1. \A r \in start..end - 1 : TokPeek(src, r) \in Letters \cup Digits
      BY <1>9, <1>14 DEF NameWord, n
    <3> QED BY <1>4, <1>5, <1>10, <1>14, <3>1, PastIs
  <2>2. NameToken(src, start) = Token("identifier", start, end)
    BY <1>4, <1>14, <2>1 DEF NameToken, COLON
  <2>3. tok = Token("identifier", start, end)
    <3>1. w[1] \in Letters /\ w[1] \notin Digits /\ w[1] \notin BinaryOps
      BY <1>14, Characters DEF NameWord
    <3> QED BY <1>8, <2>2, <3>1
  <2> QED BY <1>11, <1>14, <2>3 DEF tok, src, pos
<1>15. CASE kind = "keyword" /\ KeywordWord(w)
  <2>1. end - 1 \in start..Len(src) /\ end - 1 - start + 1 = n /\ end - 1 \in start..end - 1
    BY <1>0, <1>1, <1>2, <1>10
  <2>2. TokPeek(src, end - 1) = COLON
    BY <1>9, <1>15, <2>1 DEF KeywordWord, n
  <2>3. Past(src, start, Letters \cup Digits) = end - 1
    <3>1. \A r \in start..end - 1 - 1 : TokPeek(src, r) \in Letters \cup Digits
      <4>1. TAKE r \in start..end - 1 - 1
      <4>2. r \in start..end - 1 /\ r - start + 1 \in 1..n - 1
        BY <1>0, <1>1, <1>2
      <4> QED BY <1>9, <1>15, <4>2 DEF KeywordWord, n
    <3>2. TokPeek(src, end - 1) \notin Letters \cup Digits
      BY <2>2, Characters
    <3> QED BY <1>5, <1>10, <2>1, <3>1, <3>2, PastIs
  <2>4. NameToken(src, start) = Token("keyword", start, end - 1 + 1)
    BY <2>2, <2>3 DEF NameToken, COLON
  <2>5. tok = Token("keyword", start, end)
    <3>1. w[1] \in Letters /\ w[1] \notin Digits /\ w[1] \notin BinaryOps /\ end - 1 + 1 = end
      BY <1>10, <1>15, Characters DEF KeywordWord
    <3> QED BY <1>8, <2>4, <3>1
  <2> QED BY <1>11, <1>15, <2>5 DEF tok, src, pos
<1>16. CASE kind = "unknown" /\ UnknownWord(w)
  <2>1. tok = Token("eof", 0, start)
    BY <1>8, <1>16 DEF UnknownWord
  <2> QED BY <1>11, <1>16, <2>1 DEF tok, src, pos
<1> QED BY <1>3, <1>12, <1>13, <1>14, <1>15, <1>16 DEF KnownWord, n

\* Behind the words is nothing but blanks.
LEMMA NoMoreTokens ==
  ASSUME NEW text, HasWords(text)
  PROVE  TokNextToken(Spelled(text), WordEnd(text, Count(text))) = Token("eof", 0, StartOf(text, Count(text) + 1))
<1> DEFINE src == Spelled(text)  pos == WordEnd(text, Count(text))  start == StartOf(text, Count(text) + 1)
<1>0. Count(text) \in Nat /\ Count(text) \in 0..Count(text) /\ Count(text) + 1 - 1 = Count(text)
  BY DEF HasWords
<1>1. pos \in Nat /\ start \in pos..Len(src) /\ \A p \in pos..start - 1 : TokPeek(src, p) = SPACE
  BY <1>0, BlanksBetween DEF Spaced
<1>2. start = Len(src) /\ Len(src) \in Nat
  BY <1>0, SpelledEnds DEF Spells, Spelled, Count
<1> HIDE DEF src, pos, start
<1>3. TokPeek(src, start) = "none"
  BY <1>2 DEF TokPeek
<1>4. Past(src, pos, Blanks) = start
  <2>1. pos \in 0..Len(src) /\ TokPeek(src, start) \notin Blanks
    BY <1>1, <1>2, <1>3, Characters
  <2>2. \A r \in pos..start - 1 : TokPeek(src, r) \in Blanks
    BY <1>1, Characters
  <2> QED BY <1>1, <1>2, <2>1, <2>2, PastIs
<1>5. TokNextToken(src, pos) =
        CASE TokPeek(src, start) \in Digits -> Token("number", NumberOf(Span(src, start, Past(src, start, Digits))), Past(src, start, Digits))
          [] TokPeek(src, start) \in Letters -> NameToken(src, start)
          [] TokPeek(src, start) \in BinaryOps -> Token("binary", TokPeek(src, start), start + 1)
          [] OTHER -> Token("eof", 0, start)
  BY <1>4 DEF TokNextToken
<1> QED BY <1>3, <1>5, Characters DEF src, pos, start

\* The tokens of a text are those of its words up to the first one that begins no token.
Kinded(text) == {i \in 1..Count(text) : Kind(text, i) = "unknown"}
StopsAt(text) == Lowest(Kinded(text) \cup {Count(text) + 1})
Tok(text, i) == IF i = StopsAt(text) THEN Token("eof", 0, StartOf(text, i)) ELSE TokenOf(text, i)

LEMMA StopIs ==
  ASSUME NEW text, HasWords(text)
  PROVE  /\ StopsAt(text) \in 1..Count(text) + 1 /\ \A i \in 1..StopsAt(text) - 1 : Kind(text, i) # "unknown"
         /\ StopsAt(text) # Count(text) + 1 => StopsAt(text) \in 1..Count(text) /\ Kind(text, StopsAt(text)) = "unknown"
<1> DEFINE S == Kinded(text) \cup {Count(text) + 1}
<1>1. Count(text) \in Nat
  BY DEF HasWords
<1>2. S \in SUBSET Nat /\ S # {} /\ \A i \in S : i \in 1..Count(text) + 1
  BY <1>1 DEF Kinded
<1>3. StopsAt(text) \in S /\ \A j \in S : StopsAt(text) <= j
  <2> HIDE DEF S
  <2>1. Lowest(S) \in S /\ \A j \in S : Lowest(S) <= j
    BY <1>2, LowestIs
  <2> QED BY <2>1 DEF StopsAt, S
<1>4. StopsAt(text) \in 1..Count(text) + 1
  BY <1>2, <1>3
<1>5. ASSUME NEW i \in 1..StopsAt(text) - 1, Kind(text, i) = "unknown" PROVE FALSE
  <2>1. i \in 1..Count(text) /\ ~(StopsAt(text) <= i)
    BY <1>1, <1>4
  <2>2. i \in S
    BY <1>5, <2>1 DEF Kinded
  <2> QED BY <1>3, <2>1, <2>2
<1>6. StopsAt(text) # Count(text) + 1 => StopsAt(text) \in 1..Count(text) /\ Kind(text, StopsAt(text)) = "unknown"
  BY <1>3 DEF Kinded
<1> QED BY <1>4, <1>5, <1>6

TokensBy(source, f) ==
  \A pos \in 0..Len(source) :
    LET tok == TokNextToken(source, pos)
    IN f[pos] = IF tok.type = "eof" THEN <<tok>> ELSE <<tok>> \o f[tok.end]

LEMMA TokenizeIs ==
  ASSUME NEW source, Len(source) \in Nat
  PROVE  \E f : TokensBy(source, f) /\ Tokenize(source) = f[0]
<1> DEFINE tok(p) == TokNextToken(source, p)
           then(p, s) == IF tok(p).type = "eof" THEN <<tok(p)>> ELSE <<tok(p)>> \o s
           Is(n, f) == f = [p \in n..Len(source) |-> then(p, f[tok(p).end])]
           N == Len(source)
           good == {n \in 0..N : \E f : Is(N - n, f)}
<1>1. \A p \in 0..N : tok(p).type # "eof" => tok(p).end \in p + 1..N
  BY TokenEnds
<1>2. \A p, s, t : tok(p).type = "eof" => then(p, s) = then(p, t)
  OBVIOUS
<1> HIDE DEF then, tok, N
<1>3. N \in Nat
  BY DEF N
<1>4. 0 \in good
  <2> DEFINE g == [p \in N..N |-> then(p, 0)]
  <2>1. tok(N).type = "eof"
    <3>1. N \in 0..N /\ \A e : ~(e \in N + 1..N)
      BY <1>3
    <3> QED BY <1>1, <3>1
  <2>2. \A p \in N..N : p = N
    BY <1>3
  <2>3. \A p \in N..N : then(p, 0) = then(p, g[tok(p).end])
    <3> HIDE DEF g
    <3> QED BY <1>2, <2>1, <2>2
  <2>4. Is(N, g)
    <3>1. g = [p \in N..N |-> then(p, g[tok(p).end])]
      BY <2>3
    <3> QED BY <3>1 DEF N
  <2> HIDE DEF g, Is
  <2> QED BY <1>3, <2>4
<1>5. ASSUME NEW n \in 0 + 1..N, n - 1 \in good PROVE n \in good
  <2> DEFINE a == N - n
  <2>1. a \in 0..N /\ N - (n - 1) = a + 1 /\ n \in 0..N
    BY <1>3
  <2>2. PICK f : Is(a + 1, f)
    BY <1>5, <2>1
  <2> HIDE DEF a
  <2> DEFINE g == [p \in a..N |-> IF p = a THEN then(a, f[tok(a).end]) ELSE f[p]]
  <2>3. f = [p \in a + 1..N |-> then(p, f[tok(p).end])]
    BY <2>2 DEF N
  <2>4. \A p \in a..N : tok(p).type # "eof" => g[tok(p).end] = f[tok(p).end]
    <3>1. TAKE p \in a..N
    <3>2. HAVE tok(p).type # "eof"
    <3>3. tok(p).end \in p + 1..N
      BY <1>1, <1>3, <2>1, <3>2
    <3>4. tok(p).end \in a..N /\ tok(p).end # a
      BY <1>3, <2>1, <3>3
    <3> QED BY <3>4
  <2>5. \A p \in a..N : g[p] = then(p, f[tok(p).end])
    <3>1. TAKE p \in a..N
    <3>2. p # a => p \in a + 1..N
      BY <1>3, <2>1
    <3> QED BY <2>3, <3>2
  <2>6. g = [p \in a..N |-> g[p]]
    OBVIOUS
  <2> HIDE DEF g
  <2>7. \A p \in a..N : g[p] = then(p, g[tok(p).end])
    BY <1>2, <2>4, <2>5
  <2>8. Is(a, g)
    BY <2>6, <2>7 DEF N
  <2> HIDE DEF Is
  <2> QED BY <2>1, <2>8 DEF a
<1>6. N \in good
  <2> HIDE DEF good
  <2>1. \A n \in 0..N : n \in good
    BY <1>3, <1>4, <1>5, Stepwise
  <2> QED BY <1>3, <2>1
<1>7. \E f : Is(0, f)
  <2>1. N - N = 0
    BY <1>3
  <2> QED BY <1>6, <2>1
<1> DEFINE f == CHOOSE h : Is(0, h)
<1>8. Tokenize(source) = f[0]
  BY DEF Tokenize, then, tok, N
<1>9. Is(0, f)
  BY <1>7
<1> HIDE DEF f
<1>10. TokensBy(source, f)
  BY <1>9 DEF TokensBy, then, tok
<1> QED BY <1>8, <1>10

Tokened(text, tokens) ==
  /\ Len(tokens) = StopsAt(text)
  /\ \A i \in 1..StopsAt(text) : tokens[i] = Tok(text, i)

TokenStep(text, i) ==
  LET src == Spelled(text)  tok == Tok(text, i) IN
  /\ WordEnd(text, i - 1) \in 0..Len(src) /\ TokNextToken(src, WordEnd(text, i - 1)) = tok
  /\ tok.type = "eof" <=> i = StopsAt(text)
  /\ i # StopsAt(text) => tok.end = WordEnd(text, i)

LEMMA NextToken ==
  ASSUME NEW text, HasWords(text), NEW i \in 1..StopsAt(text)
  PROVE  TokenStep(text, i)
<1> DEFINE src == Spelled(text)  N == StopsAt(text)
<1>0. Count(text) \in Nat /\ Count(text) \in 0..Count(text)
  BY DEF HasWords
<1>1. N \in 1..Count(text) + 1
  BY <1>0, StopIs
<1>2. Len(src) \in Nat
  BY <1>0, SpelledEnds DEF Spells, Spelled, Count
<1>4. i - 1 \in 0..Count(text) /\ i - 1 + 1 = i
  BY <1>0, <1>1
<1>5. WordEnd(text, i - 1) \in 0..Len(src)
  BY <1>2, <1>4, BlanksBetween DEF Spaced
<1>6. CASE i = N
  <2>1. Tok(text, i) = Token("eof", 0, StartOf(text, i))
    BY <1>6 DEF Tok
  <2>2. TokNextToken(src, WordEnd(text, i - 1)) = Tok(text, i)
    <3>1. CASE i = Count(text) + 1
      <4>1. i - 1 = Count(text)
        BY <1>0, <3>1
      <4>2. TokNextToken(src, WordEnd(text, Count(text))) = Token("eof", 0, StartOf(text, Count(text) + 1))
        BY NoMoreTokens
      <4> QED BY <2>1, <3>1, <4>1, <4>2
    <3>2. CASE i # Count(text) + 1
      <4>1. i \in 1..Count(text) /\ Kind(text, i) = "unknown"
        BY <1>6, <3>2, StopIs
      <4>2. TokenOf(text, i) = Token("eof", 0, StartOf(text, i))
        BY <4>1 DEF TokenOf
      <4> QED BY <2>1, <4>1, <4>2, TokenAt
    <3> QED BY <3>1, <3>2
  <2>3. Tok(text, i).type = "eof"
    BY <2>1 DEF Token
  <2> QED BY <1>5, <1>6, <2>2, <2>3 DEF TokenStep
<1>7. CASE i # N
  <2>1. i \in 1..N - 1 /\ i \in 1..Count(text)
    BY <1>0, <1>1, <1>7
  <2>2. Tok(text, i) = TokenOf(text, i) /\ Kind(text, i) # "unknown"
    BY <1>7, <2>1, StopIs DEF Tok
  <2>3. Kind(text, i) \in {"number", "binary", "identifier", "keyword"}
    BY <2>1, <2>2, WordsKnown DEF KnownWord
  <2>4. TokenOf(text, i).type = Kind(text, i) /\ TokenOf(text, i).end = WordEnd(text, i)
    BY <2>3 DEF TokenOf, Token
  <2> QED BY <1>5, <1>7, <2>1, <2>2, <2>3, <2>4, TokenAt DEF TokenStep
<1> QED BY <1>6, <1>7

LEMMA TokensAreWords == ASSUME NEW text, HasWords(text) PROVE Tokened(text, Tokenize(Spelled(text)))
<1> DEFINE src == Spelled(text)  N == StopsAt(text)
           T == {Tok(text, i) : i \in 1..N}
           rest(i) == [k \in 1..N - i + 1 |-> Tok(text, i + k - 1)]
<1>0. Count(text) \in Nat /\ Count(text) \in 0..Count(text) /\ WordEnd(text, 0) = 0
  BY DEF HasWords, WordEnd
<1>1. N \in 1..Count(text) + 1 /\ N \in Nat
  BY <1>0, StopIs
<1>2. Len(src) \in Nat
  BY <1>0, SpelledEnds DEF Spells, Spelled, Count
<1>3. PICK f : TokensBy(src, f) /\ Tokenize(src) = f[0]
  BY <1>2, TokenizeIs
<1>4. \A i \in 1..N : TokenStep(text, i)
  BY NextToken
<1> HIDE DEF src, N
<1>5. \A i \in 1..N : f[WordEnd(text, i - 1)] = IF i = N THEN <<Tok(text, i)>>
                                              ELSE <<Tok(text, i)>> \o f[WordEnd(text, i)]
  <2>1. TAKE i \in 1..N
  <2> DEFINE p == WordEnd(text, i - 1)  tok == Tok(text, i)
  <2>2. p \in 0..Len(src) /\ TokNextToken(src, p) = tok
    BY <1>4 DEF TokenStep, src
  <2> HIDE DEF p, tok
  <2>3. f[p] = IF tok.type = "eof" THEN <<tok>> ELSE <<tok>> \o f[tok.end]
    BY <1>3, <2>2 DEF TokensBy
  <2>4. (tok.type = "eof" <=> i = N) /\ (i # N => tok.end = WordEnd(text, i))
    BY <1>4 DEF TokenStep, tok, N
  <2> QED BY <2>3, <2>4 DEF p, tok
<1>6. \A i \in 1..N : rest(i) \in Seq(T) /\ Len(rest(i)) = N - i + 1
  <2>1. TAKE i \in 1..N
  <2> DEFINE n == N - i + 1
  <2>2. n \in Nat /\ \A k \in 1..n : i + k - 1 \in 1..N
    BY <1>1
  <2>3. \A k \in 1..n : Tok(text, i + k - 1) \in T
    BY <2>2
  <2> HIDE DEF T
  <2>4. rest(i) = [k \in 1..n |-> Tok(text, i + k - 1)]
    OBVIOUS
  <2> HIDE DEF n
  <2>5. [k \in 1..n |-> Tok(text, i + k - 1)] \in [1..n -> T]
    BY <2>3
  <2>6. rest(i) \in [1..n -> T]
    BY <2>4, <2>5
  <2> HIDE DEF rest
  <2>7. rest(i) \in Seq(T) /\ Len(rest(i)) = n
    BY <2>2, <2>6
  <2> QED BY <2>7 DEF n
<1> DEFINE good == {d \in 0..N - 1 : f[WordEnd(text, N - d - 1)] = rest(N - d)}
<1>7. 0 \in good
  <2>1. N - 0 - 1 = N - 1 /\ N - 0 = N /\ N \in 1..N
    BY <1>1
  <2>2. f[WordEnd(text, N - 1)] = <<Tok(text, N)>>
    BY <1>5, <2>1
  <2>3. rest(N) = <<Tok(text, N)>>
    <3>1. N - N + 1 = 1 /\ \A k \in 1..1 : N + k - 1 = N
      BY <1>1
    <3>2. rest(N) = [k \in 1..1 |-> Tok(text, N + k - 1)]
      BY <3>1
    <3>3. \A k \in 1..1 : Tok(text, N + k - 1) = Tok(text, N)
      BY <3>1
    <3> QED BY <3>2, <3>3
  <2>4. 0 \in 0..N - 1
    BY <1>1
  <2> HIDE DEF rest
  <2>5. f[WordEnd(text, N - 0 - 1)] = rest(N - 0)
    BY <2>1, <2>2, <2>3
  <2> QED BY <2>4, <2>5
<1>8. ASSUME NEW d \in 0 + 1..N - 1, d - 1 \in good PROVE d \in good
  <2> DEFINE i == N - d
  <2>1. i \in 1..N /\ i + 1 \in 1..N /\ N - (d - 1) = i + 1 /\ N - (d - 1) - 1 = i /\ i # N /\ d \in 0..N - 1
    BY <1>1
  <2>2. f[WordEnd(text, i)] = rest(i + 1)
    <3> HIDE DEF rest, i
    <3>1. f[WordEnd(text, N - (d - 1) - 1)] = rest(N - (d - 1))
      BY <1>8
    <3> QED BY <2>1, <3>1
  <2> HIDE DEF i
  <2>3. f[WordEnd(text, i - 1)] = <<Tok(text, i)>> \o f[WordEnd(text, i)]
    BY <1>5, <2>1
  <2>4. <<Tok(text, i)>> \o rest(i + 1) = rest(i)
    <3> DEFINE s == <<Tok(text, i)>>  t == rest(i + 1)
    <3>1. Tok(text, i) \in T
      BY <2>1
    <3>2. s \in Seq(T) /\ Len(s) = 1 /\ s[1] = Tok(text, i)
      <4> HIDE DEF T
      <4> QED BY <3>1
    <3>3. t \in Seq(T) /\ Len(t) = N - (i + 1) + 1 /\ rest(i) \in Seq(T) /\ Len(rest(i)) = N - i + 1
      <4> HIDE DEF T, rest
      <4> QED BY <1>6, <2>1
    <3>4. /\ \A k \in 1..N - (i + 1) + 1 : t[k] = Tok(text, i + 1 + k - 1)
          /\ \A k \in 1..N - i + 1 : rest(i)[k] = Tok(text, i + k - 1)
      OBVIOUS
    <3> HIDE DEF T, rest, s, t
    <3>5. /\ s \o t \in Seq(T) /\ Len(s \o t) = Len(s) + Len(t)
          /\ \A k \in 1..Len(s) + Len(t) : (s \o t)[k] = IF k <= Len(s) THEN s[k] ELSE t[k - Len(s)]
      <4>1. s \in Seq(T) /\ t \in Seq(T)
        BY <3>2, <3>3
      <4> QED BY <4>1, ConcatProperties
    <3>6. Len(s \o t) = N - i + 1 /\ i \in Nat
      BY <1>1, <2>1, <3>2, <3>3, <3>5
    <3>7. ASSUME NEW k \in 1..N - i + 1 PROVE (s \o t)[k] = rest(i)[k]
      <4>1. CASE k = 1
        <5>1. i + k - 1 = i
          BY <3>6, <4>1
        <5>2. rest(i)[k] = Tok(text, i)
          BY <3>4, <5>1
        <5>3. (s \o t)[k] = s[1]
          BY <3>2, <3>5, <3>6, <4>1
        <5> QED BY <3>2, <5>2, <5>3
      <4>2. CASE k # 1
        <5>1. k - 1 \in 1..N - (i + 1) + 1 /\ i + 1 + (k - 1) - 1 = i + k - 1 /\ ~(k <= 1) /\ k \in 1..Len(s) + Len(t)
          BY <1>1, <2>1, <3>2, <3>3, <3>6, <4>2
        <5>2. (s \o t)[k] = t[k - 1]
          BY <3>2, <3>5, <5>1
        <5>3. t[k - 1] = Tok(text, i + 1 + (k - 1) - 1)
          BY <3>4, <5>1
        <5>4. rest(i)[k] = Tok(text, i + k - 1)
          BY <3>4
        <5> QED BY <5>1, <5>2, <5>3, <5>4
      <4> QED BY <4>1, <4>2
    <3>8. s \o t = rest(i)
      <4>1. \A k \in 1..Len(s \o t) : (s \o t)[k] = rest(i)[k]
        BY <3>6, <3>7
      <4> QED BY <3>3, <3>5, <3>6, <4>1, SeqEqual
    <3> QED BY <3>8 DEF s, t
  <2> HIDE DEF rest
  <2>5. f[WordEnd(text, i - 1)] = rest(i)
    BY <2>2, <2>3, <2>4
  <2> QED BY <2>1, <2>5 DEF i
<1>9. N - 1 \in good
  <2> HIDE DEF good
  <2>1. N - 1 \in Nat /\ 0 \in Nat /\ N - 1 \in 0..N - 1
    BY <1>1
  <2>2. \A d \in 0..N - 1 : d \in good
    BY <1>7, <1>8, <2>1, Stepwise
  <2> QED BY <2>1, <2>2
<1>10. f[0] = rest(1)
  <2>1. N - (N - 1) - 1 = 0 /\ N - (N - 1) = 1
    BY <1>1
  <2>2. f[WordEnd(text, N - (N - 1) - 1)] = rest(N - (N - 1))
    <3> HIDE DEF rest
    <3> QED BY <1>9
  <2> HIDE DEF rest
  <2> QED BY <1>0, <2>1, <2>2
<1>11. Len(rest(1)) = N /\ \A i \in 1..N : rest(1)[i] = Tok(text, i)
  <2>1. 1 \in 1..N /\ N - 1 + 1 = N /\ \A i \in 1..N : 1 + i - 1 = i
    BY <1>1
  <2>2. Len(rest(1)) = N
    <3> HIDE DEF rest
    <3>1. Len(rest(1)) = N - 1 + 1
      BY <1>6, <2>1
    <3> QED BY <2>1, <3>1
  <2>3. \A i \in 1..N : rest(1)[i] = Tok(text, 1 + i - 1)
    BY <2>1
  <2> HIDE DEF rest
  <2> QED BY <2>1, <2>2, <2>3
<1> HIDE DEF rest
<1>12. Len(Tokenize(src)) = N /\ \A i \in 1..N : Tokenize(src)[i] = Tok(text, i)
  BY <1>3, <1>10, <1>11
<1> QED BY <1>12 DEF Tokened, src, N

-----------------------------------------------------------------------------
(***************************************************************************)
(* Whether words are a message can be told from neighbours.                *)
(***************************************************************************)
Splits == {"binary", "keyword"}

Goes(t, u) ==
  \/ u = "identifier"
  \/ u = "number" /\ t \in Splits
  \/ u \in Splits /\ t \in Operands

Fits(types, a, b) ==
  /\ a <= b /\ types[a] \in Operands /\ types[b] \in Operands
  /\ \A i \in a + 1..b : Goes(types[i - 1], types[i])

LEMMA BehindIs ==
  ASSUME NEW a \in Nat \ {0}, NEW b \in Nat, NEW places \in SUBSET (a..b), NEW i \in a - 1..b
  PROVE  /\ Behind(places, i, b) \in places \cup {b + 1} /\ Behind(places, i, b) \in i + 1..b + 1
         /\ \A j \in places : j > i => Behind(places, i, b) <= j
<1> DEFINE S == {j \in places \cup {b + 1} : j > i}
<1>0. i \in Int /\ i <= b /\ \A j \in places : j \in a..b
  OBVIOUS
<1>1. S \in SUBSET Nat /\ b + 1 \in S
  <2>1. \A j \in S : j \in Nat
    BY <1>0
  <2>2. b + 1 \in S
    BY <1>0
  <2> HIDE DEF S
  <2> QED BY <2>1, <2>2
<1>2. Lowest(S) \in S /\ \A j \in S : Lowest(S) <= j
  <2> HIDE DEF S
  <2> QED BY <1>1, LowestIs
<1>3. Behind(places, i, b) = Lowest(S)
  BY DEF Behind
<1> DEFINE e == Lowest(S)
<1>4. e \in places \cup {b + 1} /\ e > i
  BY <1>2
<1>5. \A j \in places : j > i => e <= j
  BY <1>2
<1>6. e <= b + 1
  <2> HIDE DEF S
  <2> QED BY <1>1, <1>2
<1> HIDE DEF S, e
<1>7. e \in i + 1..b + 1
  BY <1>0, <1>4, <1>6
<1> QED BY <1>3, <1>4, <1>5, <1>7 DEF e

\* Every place but the first is behind some place that splits, with no other between them.
SegmentAt(places, a, b, x, k) ==
  /\ k \in a - 1..x - 1 /\ Behind(places, k, b) \in x..b + 1
  /\ x \in places \cup {b + 1} => Behind(places, k, b) = x
  /\ x \notin places \cup {b + 1} => Behind(places, k, b) > x

LEMMA SegmentOf ==
  ASSUME NEW a \in Nat \ {0}, NEW b \in Nat, NEW places \in SUBSET (a..b), NEW x \in a..b + 1
  PROVE  \E k \in places \cup {a - 1} : SegmentAt(places, a, b, x, k)
<1> DEFINE S == {j \in places \cup {a - 1} : j < x}
<1>0. \A j \in places : j \in a..b
  OBVIOUS
<1>1. S \in SUBSET (0..b) /\ a - 1 \in S
  <2>1. \A j \in S : j \in 0..b
    BY <1>0
  <2>2. a - 1 \in S
    OBVIOUS
  <2> HIDE DEF S
  <2> QED BY <2>1, <2>2
<1>2. Highest(S) \in S /\ \A j \in S : j <= Highest(S)
  <2> HIDE DEF S
  <2> QED BY <1>1, HighestIs
<1> DEFINE k == Highest(S)  e == Behind(places, k, b)
<1>3. k \in places \cup {a - 1} /\ k < x /\ a - 1 <= k /\ \A j \in places : j < x => j <= k
  <2>1. k \in S /\ a - 1 <= k
    <3> HIDE DEF S
    <3> QED BY <1>1, <1>2
  <2>2. \A j \in S : j <= k
    BY <1>2
  <2> QED BY <2>1, <2>2
<1> HIDE DEF S, k
<1>4. k \in a - 1..b /\ k \in a - 1..x - 1
  BY <1>3
<1>5. /\ e \in places \cup {b + 1} /\ e \in k + 1..b + 1
      /\ \A j \in places : j > k => e <= j
  BY <1>4, BehindIs
<1> HIDE DEF e
<1>6. e >= x
  <2>1. CASE e = b + 1
    BY <2>1
  <2>2. CASE e \in places
    BY <1>3, <1>5, <2>2
  <2> QED BY <1>5, <2>1, <2>2
<1>7. x \in places => e <= x
  BY <1>3, <1>5
<1>8. x = b + 1 => e <= x
  BY <1>5
<1>9. x \notin places \cup {b + 1} => e # x
  BY <1>5
<1> QED BY <1>3, <1>4, <1>5, <1>6, <1>7, <1>8, <1>9 DEF e, SegmentAt

\* In a message, every place is in or behind an operand and its unary messages.
InUnary(types, a, b, x, o, u) ==
  /\ o \in a - 1..x - 1 /\ u \in x - 1..b /\ o + 1 <= u
  /\ types[o + 1] \in Operands /\ \A i \in o + 2..u : types[i] = "identifier"
  /\ o # a - 1 => types[o] \in Splits
  /\ x = b + 1 \/ types[x] \in Splits => u = x - 1
  /\ x # b + 1 /\ types[x] \notin Splits => u >= x

LEMMA MessageAround ==
  ASSUME NEW types, NEW a \in Nat \ {0}, NEW b \in Nat, a <= b, IsMessage(types, a, b), NEW x \in a..b + 1
  PROVE  \E o, u \in Nat : InUnary(types, a, b, x, o, u)
<1> DEFINE K == Among(types, a, b, "keyword")
<1>1. K \in SUBSET (a..b) /\ \A i \in a..b : i \in K <=> types[i] = "keyword"
  BY DEF Among
<1>2. \A i \in K \cup {a - 1} : IsBinary(types, i + 1, Behind(K, i, b) - 1)
  BY DEF IsMessage
<1> HIDE DEF K
<1>0. PICK k \in K \cup {a - 1} : SegmentAt(K, a, b, x, k)
  BY <1>1, SegmentOf, Zenon
<1>3. /\ k \in a - 1..x - 1 /\ Behind(K, k, b) \in x..b + 1
      /\ x \in K \cup {b + 1} => Behind(K, k, b) = x
      /\ x \notin K \cup {b + 1} => Behind(K, k, b) > x
  BY <1>0 DEF SegmentAt
<1> DEFINE c == k + 1  e == Behind(K, k, b) - 1  O == Among(types, c, e, "binary")
<1>4. /\ c \in Nat \ {0} /\ e \in Nat /\ x \in c..e + 1 /\ c - 1 = k /\ e + 1 = Behind(K, k, b) /\ c >= a /\ e <= b
      /\ k \in Nat
  BY <1>3
<1>5. O \in SUBSET (c..e) /\ \A i \in c..e : i \in O <=> types[i] = "binary"
  BY DEF Among
<1>6. \A i \in O \cup {c - 1} : IsUnary(types, i + 1, Behind(O, i, e) - 1)
  <2>1. IsBinary(types, c, e)
    BY <1>2, <1>3
  <2> HIDE DEF c, e
  <2> QED BY <2>1 DEF IsBinary
<1> HIDE DEF c, e, O
<1>16. PICK o \in O \cup {c - 1} : SegmentAt(O, c, e, x, o)
  BY <1>4, <1>5, SegmentOf, Zenon
<1>7. /\ o \in c - 1..x - 1 /\ Behind(O, o, e) \in x..e + 1
      /\ x \in O \cup {e + 1} => Behind(O, o, e) = x
      /\ x \notin O \cup {e + 1} => Behind(O, o, e) > x
  BY <1>16 DEF SegmentAt
<1> DEFINE u == Behind(O, o, e) - 1
<1>8. IsUnary(types, o + 1, u)
  BY <1>6
<1>9. o \in Nat /\ u \in Nat /\ u + 1 = Behind(O, o, e)
  BY <1>4, <1>7
<1> HIDE DEF u
<1>10. o + 1 <= u /\ types[o + 1] \in Operands /\ \A i \in o + 2..u : types[i] = "identifier"
  <2>1. \A i \in o + 2..u : i \in o + 1 + 1..u
    BY <1>9
  <2> QED BY <1>8, <2>1 DEF IsUnary
<1>11. o \in a - 1..x - 1 /\ u \in x - 1..b
  BY <1>4, <1>7, <1>9
<1>12. o # a - 1 => types[o] \in Splits
  <2>1. CASE o \in O
    BY <1>5, <2>1 DEF Splits
  <2>2. CASE o = c - 1
    BY <1>0, <1>1, <1>3, <1>4, <2>2 DEF Splits
  <2> QED BY <1>16, <2>1, <2>2
<1>13. (x = b + 1 \/ types[x] \in Splits) => u = x - 1
  <2>1. SUFFICES ASSUME x = b + 1 \/ types[x] \in Splits PROVE x \in O \cup {e + 1}
    BY <1>7, <1>9
  <2>2. CASE x \in K \cup {b + 1}
    BY <1>3, <1>4, <2>2
  <2>3. CASE x \notin K \cup {b + 1}
    <3>1. x \in c..e /\ x \in a..b
      BY <1>3, <1>4, <2>3
    <3>2. types[x] = "binary"
      BY <1>1, <2>1, <2>3, <3>1 DEF Splits
    <3> QED BY <1>5, <3>1, <3>2
  <2> QED BY <2>2, <2>3
<1>14. x # b + 1 /\ types[x] \notin Splits => u >= x
  <2>1. SUFFICES ASSUME x # b + 1, types[x] \notin Splits PROVE x \notin O \cup {e + 1}
    BY <1>4, <1>7, <1>9
  <2>2. x \notin K /\ x \notin O
    BY <1>1, <1>5, <2>1 DEF Splits
  <2>3. x # e + 1
    BY <1>3, <1>4, <2>1, <2>2
  <2> QED BY <2>2, <2>3
<1>15. InUnary(types, a, b, x, o, u)
  BY <1>10, <1>11, <1>12, <1>13, <1>14 DEF InUnary
<1> QED BY <1>9, <1>15

LEMMA MessageFits ==
  ASSUME NEW types, NEW a \in Nat \ {0}, NEW b \in Nat, a <= b, IsMessage(types, a, b)
  PROVE  Fits(types, a, b)
<1>1. types[a] \in Operands
  <2>1. a \in a..b + 1
    OBVIOUS
  <2>2. PICK o, u \in Nat : InUnary(types, a, b, a, o, u)
    BY <2>1, MessageAround
  <2>3. o + 1 = a
    BY <2>2 DEF InUnary
  <2> QED BY <2>2, <2>3 DEF InUnary
<1>2. ASSUME NEW x \in a + 1..b + 1, x = b + 1 \/ types[x] \in Splits PROVE types[x - 1] \in Operands
  <2>1. PICK o, u \in Nat : InUnary(types, a, b, x, o, u)
    BY MessageAround
  <2>2. u = x - 1
    BY <1>2, <2>1 DEF InUnary
  <2>3. CASE u = o + 1
    BY <2>1, <2>2, <2>3 DEF InUnary
  <2>4. CASE u # o + 1
    <3>1. u \in o + 2..u
      BY <2>1, <2>4 DEF InUnary
    <3> QED BY <2>1, <2>2, <3>1 DEF InUnary, Operands
  <2> QED BY <2>3, <2>4
<1>3. types[b] \in Operands
  <2>1. b + 1 \in a + 1..b + 1 /\ b + 1 - 1 = b
    OBVIOUS
  <2> QED BY <1>2, <2>1
<1>4. ASSUME NEW i \in a + 1..b PROVE Goes(types[i - 1], types[i])
  <2>1. i \in a + 1..b + 1 /\ i \in a..b + 1 /\ i # b + 1
    OBVIOUS
  <2>2. CASE types[i] \in Splits
    BY <1>2, <2>1, <2>2 DEF Goes
  <2>3. CASE types[i] \notin Splits
    <3>1. PICK o, u \in Nat : InUnary(types, a, b, i, o, u)
      BY <2>1, MessageAround
    <3>2. u >= i /\ o <= i - 1
      BY <2>1, <2>3, <3>1 DEF InUnary
    <3>3. CASE i = o + 1
      <4>1. i - 1 = o /\ o # a - 1
        BY <3>3
      <4>2. types[i] \in Operands /\ types[i - 1] \in Splits
        BY <3>1, <3>3, <4>1 DEF InUnary
      <4> QED BY <4>2 DEF Goes, Operands
    <3>4. CASE i # o + 1
      <4>1. i \in o + 2..u
        BY <3>2, <3>4
      <4> QED BY <3>1, <4>1 DEF InUnary, Goes
    <3> QED BY <3>3, <3>4
  <2> QED BY <2>2, <2>3
<1> QED BY <1>1, <1>3, <1>4 DEF Fits

LEMMA FitsMessage ==
  ASSUME NEW types, NEW a \in Nat \ {0}, NEW b \in Nat, Fits(types, a, b)
  PROVE  IsMessage(types, a, b)
<1> DEFINE K == Among(types, a, b, "keyword")
<1>1. K \in SUBSET (a..b) /\ \A i \in a..b : i \in K <=> types[i] = "keyword"
  BY DEF Among
<1> HIDE DEF K
<1>2. SUFFICES ASSUME NEW k \in K \cup {a - 1} PROVE IsBinary(types, k + 1, Behind(K, k, b) - 1)
  BY DEF IsMessage, K
<1> DEFINE c == k + 1  e == Behind(K, k, b) - 1  O == Among(types, c, e, "binary")
<1>3. k \in a - 1..b /\ a <= b
  BY <1>1 DEF Fits
<1>4. /\ Behind(K, k, b) \in K \cup {b + 1} /\ Behind(K, k, b) \in k + 1..b + 1
      /\ \A j \in K : j > k => Behind(K, k, b) <= j
  BY <1>1, <1>3, BehindIs
<1>5. /\ c \in Nat \ {0} /\ e \in Nat /\ c - 1 = k /\ e + 1 = Behind(K, k, b) /\ c >= a /\ e <= b
      /\ k \in Nat /\ c <= e + 1
  BY <1>3, <1>4
<1>6. O \in SUBSET (c..e) /\ \A i \in c..e : i \in O <=> types[i] = "binary"
  BY DEF Among
<1> HIDE DEF O
<1>7. SUFFICES ASSUME NEW o \in O \cup {c - 1} PROVE IsUnary(types, o + 1, Behind(O, o, e) - 1)
  BY DEF IsBinary, O
<1> HIDE DEF c, e
<1>8. \A i \in c..e : i \in a..b /\ types[i] # "keyword"
  <2>1. TAKE i \in c..e
  <2>2. i \in a..b /\ i > k /\ ~(Behind(K, k, b) <= i)
    BY <1>3, <1>5
  <2> QED BY <1>1, <1>4, <2>2
<1>9. o \in Nat /\ o \in c - 1..e
  BY <1>5, <1>6, <1>7
<1>10. o # a - 1 => o \in a..b /\ types[o] \in Splits
  <2>1. CASE o \in O
    BY <1>5, <1>6, <1>8, <2>1 DEF Splits
  <2>2. CASE o = c - 1
    BY <1>1, <1>2, <1>5, <2>2 DEF Splits
  <2> QED BY <1>7, <2>1, <2>2
\* Behind it begins an operand.
<1>11. o + 1 \in a..b /\ types[o + 1] \in Operands
  <2>1. CASE o = a - 1
    BY <1>3, <2>1 DEF Fits
  <2>2. CASE o # a - 1
    <3>1. o # b
      BY <1>10, <2>2 DEF Fits, Operands, Splits
    <3>2. o + 1 \in a + 1..b /\ o + 1 - 1 = o
      BY <1>10, <2>2, <3>1
    <3>3. Goes(types[o], types[o + 1])
      <4> DEFINE p == o + 1
      <4>1. p \in a + 1..b /\ p - 1 = o
        <5>1. p - 1 = o
          BY <1>9
        <5> QED BY <3>2, <5>1
      <4> HIDE DEF p
      <4>2. Goes(types[o], types[p])
        BY <4>1 DEF Fits
      <4> QED BY <4>2 DEF p
    <3> QED BY <1>10, <2>2, <3>2, <3>3 DEF Goes, Operands, Splits
  <2> QED BY <2>1, <2>2
<1>12. o + 1 \in c..e
  <2>1. o + 1 # e + 1
    <3>1. o + 1 \notin K /\ o + 1 # b + 1
      BY <1>1, <1>11 DEF Operands
    <3> QED BY <1>4, <1>5, <3>1
  <2> QED BY <1>5, <1>9, <2>1
<1> DEFINE u == Behind(O, o, e) - 1
<1>13. /\ Behind(O, o, e) \in O \cup {e + 1} /\ Behind(O, o, e) \in o + 1..e + 1
       /\ \A j \in O : j > o => Behind(O, o, e) <= j
  BY <1>5, <1>6, <1>9, BehindIs
<1>14. o + 1 <= u
  <2>1. o + 1 \notin O /\ o + 1 # e + 1
    BY <1>5, <1>6, <1>11, <1>12 DEF Operands
  <2>2. Behind(O, o, e) # o + 1
    BY <1>13, <2>1
  <2> QED BY <1>5, <1>9, <1>13, <2>2
<1>15. u \in Nat /\ u <= e /\ u + 1 = Behind(O, o, e)
  BY <1>5, <1>9, <1>13
<1> HIDE DEF u
<1> DEFINE good == {i \in o + 2..u : types[i] = "identifier"}
<1>16. \A i \in o + 1..u : /\ i \in c..e /\ i \in a..b /\ types[i] \notin Splits
  <2>1. TAKE i \in o + 1..u
  <2>2. i \in c..e /\ i > o /\ ~(Behind(O, o, e) <= i)
    BY <1>5, <1>9, <1>12, <1>15
  <2>3. types[i] # "binary"
    BY <1>6, <1>13, <2>2
  <2> QED BY <1>8, <2>2, <2>3 DEF Splits
<1>17. \A i \in o + 2..u : types[i] = "identifier"
  <2>1. TAKE i \in o + 2..u
  <2>2. i \in o + 1..u /\ i - 1 \in o + 1..u
    BY <1>9, <1>15
  <2>3. i \in a + 1..b
    BY <1>11, <1>16, <2>2, <1>9
  <2>4. Goes(types[i - 1], types[i])
    BY <2>3 DEF Fits
  <2> QED BY <1>16, <2>2, <2>4 DEF Goes
<1>18. \A i \in o + 1 + 1..u : i \in o + 2..u
  BY <1>9, <1>15
<1> QED BY <1>11, <1>14, <1>17, <1>18 DEF IsUnary, u

-----------------------------------------------------------------------------
(***************************************************************************)
(* The trees of messages, which grow word by word.                         *)
(***************************************************************************)
TypesOf(text) == Types(text.words)

LEMMA TypesAre ==
  ASSUME NEW text, HasWords(text)
  PROVE  /\ Len(TypesOf(text)) = Count(text) /\ DOMAIN TypesOf(text) = 1..Count(text)
         /\ \A i \in 1..Count(text) : TypesOf(text)[i] = Kind(text, i)
<1>1. DOMAIN text.words = 1..Count(text) /\ Count(text) \in Nat
  BY DEF HasWords
<1>2. TypesOf(text) = [i \in 1..Count(text) |-> Kind(text, i)]
  BY <1>1 DEF TypesOf, Types, Kind, Word
<1> DEFINE n == Count(text)  e(i) == Kind(text, i)
<1>3. n \in Nat /\ TypesOf(text) = [i \in 1..n |-> e(i)]
  BY <1>1, <1>2
<1> HIDE DEF n, e
<1>4. Len(TypesOf(text)) = n /\ DOMAIN TypesOf(text) = 1..n /\ \A i \in 1..n : TypesOf(text)[i] = e(i)
  BY <1>3
<1> QED BY <1>4 DEF n, e

LEMMA UnaryIs ==
  ASSUME NEW text, HasWords(text), NEW a \in 1..Count(text)
  PROVE  /\ UnaryOf(text, a, a) = OperandAt(text, a)
         /\ \A i \in a + 1..Count(text) : UnaryOf(text, a, i) = <<"unary", StartOf(text, i), UnaryOf(text, a, i - 1)>>
<1> DEFINE m == Count(text)
           then(i, x) == <<"unary", StartOf(text, i), x>>
           Is(n, f) == f = [i \in a..n |-> IF i = a THEN OperandAt(text, a) ELSE then(i, f[i - 1])]
           good == {n \in a..m : \E f : Is(n, f)}
<1>1. m \in Nat /\ a \in Nat /\ a \in a..m /\ m \in a..m
  BY DEF HasWords
<1>2. \A b : UnaryOf(text, a, b) = (CHOOSE f : Is(m, f))[b]
  BY DEF UnaryOf, Count
<1> HIDE DEF m, then
<1>3. a \in good
  <2> DEFINE g == [i \in a..a |-> OperandAt(text, a)]
  <2>1. \A i \in a..a : i = a
    BY <1>1
  <2>2. Is(a, g)
    BY <2>1
  <2> HIDE DEF g, Is
  <2> QED BY <1>1, <2>2
<1>4. ASSUME NEW n \in a + 1..m, n - 1 \in good PROVE n \in good
  <2>1. PICK f : Is(n - 1, f)
    BY <1>4
  <2> DEFINE g == [i \in a..n |-> IF i = n THEN then(n, f[n - 1]) ELSE f[i]]
  <2>2. Is(n, g)
    <3>1. \A i \in a..n : i = n \/ (i # n /\ i \in a..n - 1 /\ i - 1 # n)
      BY <1>1
    <3>2. n # a /\ n \in a..n /\ n - 1 \in a..n /\ n - 1 # n
      BY <1>1
    <3>3. \A i \in a..n - 1 : i # a => i - 1 \in a..n
      BY <1>1
    <3>4. \A i \in a..n : g[i] = IF i = a THEN OperandAt(text, a) ELSE then(i, g[i - 1])
      BY <2>1, <3>1, <3>2, <3>3
    <3>5. g = [i \in a..n |-> g[i]]
      OBVIOUS
    <3> HIDE DEF g
    <3> QED BY <3>4, <3>5
  <2>3. n \in a..m
    BY <1>1
  <2> HIDE DEF g, Is
  <2> QED BY <2>2, <2>3
<1>5. m \in good
  <2> HIDE DEF good
  <2>1. \A n \in a..m : n \in good
    BY <1>1, <1>3, <1>4, Stepwise
  <2> QED BY <1>1, <2>1
<1> DEFINE f == CHOOSE h : Is(m, h)
<1>6. Is(m, f)
  BY <1>5
<1>7. \A b : UnaryOf(text, a, b) = f[b]
  BY <1>2
<1> HIDE DEF f
<1>8. f[a] = OperandAt(text, a) /\ \A i \in a + 1..m : f[i] = then(i, f[i - 1])
  BY <1>1, <1>6
<1> QED BY <1>7, <1>8 DEF then, m

OperatorsTo(text, a, i) == Among(TypesOf(text), a, i, "binary")
SplitAt(text, a, i) == Highest(OperatorsTo(text, a, i))

LEMMA LastOperator ==
  ASSUME NEW text, HasWords(text), NEW a \in 1..Count(text), Kind(text, a) # "binary",
         NEW i \in a..Count(text), OperatorsTo(text, a, i) # {}
  PROVE  /\ SplitAt(text, a, i) \in a + 1..i /\ Kind(text, SplitAt(text, a, i)) = "binary"
         /\ \A j \in SplitAt(text, a, i) + 1..i : Kind(text, j) # "binary"
<1> DEFINE S == OperatorsTo(text, a, i)  o == Highest(S)
<1>0. Count(text) \in Nat /\ i \in Nat
  BY DEF HasWords
<1>1. \A j \in a..i : j \in S <=> Kind(text, j) = "binary"
  <2>1. \A j \in a..i : j \in 1..Count(text)
    BY <1>0
  <2> QED BY <2>1, TypesAre DEF OperatorsTo, Among
<1>2. S \in SUBSET (0..i) /\ S \in SUBSET (a..i)
  BY DEF OperatorsTo, Among
<1> HIDE DEF S
<1>3. o \in S /\ \A j \in S : j <= o
  BY <1>0, <1>2, HighestIs DEF S
<1> HIDE DEF o
<1>4. o \in a..i /\ o # a
  BY <1>1, <1>2, <1>3
<1>5. \A j \in o + 1..i : j \in a..i /\ ~(j <= o)
  BY <1>0, <1>4
<1>6. \A j \in o + 1..i : Kind(text, j) # "binary"
  BY <1>1, <1>3, <1>5
<1>7. o \in a + 1..i /\ Kind(text, o) = "binary"
  BY <1>0, <1>1, <1>3, <1>4
<1> QED BY <1>6, <1>7 DEF SplitAt, o, S

LEMMA BinaryIs ==
  ASSUME NEW text, HasWords(text), NEW a \in 1..Count(text), Kind(text, a) # "binary", NEW i \in a..Count(text)
  PROVE  BinaryOf(text, a, i) =
           IF OperatorsTo(text, a, i) = {} THEN UnaryOf(text, a, i)
           ELSE LET o == SplitAt(text, a, i)
                IN <<"binary", Word(text, o)[1], BinaryOf(text, a, o - 1), UnaryOf(text, o + 1, i)>>
<1> DEFINE m == Count(text)
           op(j) == SplitAt(text, a, j)
           then(j, x) == IF OperatorsTo(text, a, j) = {} THEN UnaryOf(text, a, j)
                         ELSE <<"binary", Word(text, op(j))[1], x, UnaryOf(text, op(j) + 1, j)>>
           Is(n, f) == f = [j \in a..n |-> then(j, f[op(j) - 1])]
           good == {n \in a..m : \E f : Is(n, f)}
<1>1. m \in Nat /\ a \in Nat /\ a \in a..m /\ m \in a..m
  BY DEF HasWords
<1>2. \A b : BinaryOf(text, a, b) = (CHOOSE f : Is(m, f))[b]
  BY DEF BinaryOf, Count, SplitAt, OperatorsTo, TypesOf, Word
<1>3. \A j \in a..m : OperatorsTo(text, a, j) # {} => op(j) \in a + 1..j
  BY LastOperator
<1>4. \A j \in a..m : \A x, y : OperatorsTo(text, a, j) = {} => then(j, x) = then(j, y)
  OBVIOUS
<1>5. \A j \in a..m : OperatorsTo(text, a, j) # {} => op(j) - 1 \in a..j - 1
  <2> HIDE DEF op
  <2> QED BY <1>1, <1>3
<1> HIDE DEF m, then, op
<1>6. ASSUME NEW n \in a..m, \A j \in a..n - 1 : j \in good PROVE n \in good
  <2>1. n = a \/ n - 1 \in a..n - 1
    BY <1>1
  <2>2. n - 1 \in a..m => n - 1 \in good
    BY <1>1, <1>6
  <2>3. PICK f : n - 1 \in a..m => Is(n - 1, f)
    BY <2>2
  <2> DEFINE g == [j \in a..n |-> IF j = n THEN then(n, f[op(n) - 1]) ELSE f[j]]
  <2>4. \A j \in a..n : j \in a..m /\ (j # n => n - 1 \in a..m /\ j \in a..n - 1)
    BY <1>1
  <2>5. \A j \in a..n : g[j] = then(j, f[op(j) - 1])
    BY <2>3, <2>4
  <2>6. \A j \in a..n : OperatorsTo(text, a, j) # {} => g[op(j) - 1] = f[op(j) - 1]
    <3>1. TAKE j \in a..n
    <3>2. HAVE OperatorsTo(text, a, j) # {}
    <3>3. op(j) - 1 \in a..j - 1
      BY <1>5, <2>4, <3>2
    <3>4. op(j) - 1 \in a..n /\ op(j) - 1 # n
      BY <1>1, <3>3
    <3> QED BY <3>4
  <2>7. g = [j \in a..n |-> g[j]]
    OBVIOUS
  <2> HIDE DEF g
  <2>8. \A j \in a..n : g[j] = then(j, g[op(j) - 1])
    BY <1>4, <2>4, <2>5, <2>6
  <2>9. Is(n, g)
    BY <2>7, <2>8
  <2> HIDE DEF Is
  <2> QED BY <2>9
<1>7. m \in good
  <2> HIDE DEF good
  <2>1. \A n \in a..m : n \in good
    BY <1>1, <1>6, Upwards
  <2> QED BY <1>1, <2>1
<1> DEFINE f == CHOOSE h : Is(m, h)
<1>8. Is(m, f)
  BY <1>7
<1>9. \A b : BinaryOf(text, a, b) = f[b]
  BY <1>2
<1> HIDE DEF f
<1>10. f[i] = then(i, f[op(i) - 1])
  BY <1>8 DEF m
<1> QED BY <1>9, <1>10 DEF then, op

\* A message without operators is unary; and an operator makes a binary message of what is
\* before it.
LEMMA BinaryStarts ==
  ASSUME NEW text, HasWords(text), NEW a \in 1..Count(text), NEW b \in a..Count(text),
         \A i \in a..b : Kind(text, i) # "binary"
  PROVE  BinaryOf(text, a, b) = UnaryOf(text, a, b)
<1>1. \A i \in a..b : i \in 1..Count(text)
  BY DEF HasWords
<1>2. OperatorsTo(text, a, b) = {}
  BY <1>1, TypesAre DEF OperatorsTo, Among
<1>3. Kind(text, a) # "binary"
  BY DEF HasWords
<1> QED BY <1>2, <1>3, BinaryIs

LEMMA BinaryGoesOn ==
  ASSUME NEW text, HasWords(text), NEW a \in 1..Count(text), Kind(text, a) # "binary",
         NEW b \in a..Count(text), NEW c \in b + 2..Count(text), Kind(text, b + 1) = "binary",
         \A i \in b + 2..c : Kind(text, i) # "binary"
  PROVE  BinaryOf(text, a, c) = <<"binary", Word(text, b + 1)[1], BinaryOf(text, a, b), UnaryOf(text, b + 2, c)>>
<1> DEFINE o == SplitAt(text, a, c)
<1>0. Count(text) \in Nat /\ c \in a..Count(text) /\ b + 1 \in a..c /\ b + 1 \in 1..Count(text) /\ a \in Nat /\ b \in Nat
  BY DEF HasWords
<1>1. b + 1 \in OperatorsTo(text, a, c)
  BY <1>0, TypesAre DEF OperatorsTo, Among
<1>2. /\ o \in a + 1..c /\ Kind(text, o) = "binary"
      /\ \A j \in o + 1..c : Kind(text, j) # "binary"
  BY <1>0, <1>1, LastOperator
<1> HIDE DEF o
<1>3. o = b + 1
  <2>1. CASE o < b + 1
    <3>1. b + 1 \in o + 1..c
      BY <1>0, <1>2, <2>1
    <3> QED BY <1>2, <3>1
  <2>2. CASE o > b + 1
    <3>1. o \in b + 2..c
      BY <1>0, <1>2, <2>2
    <3> QED BY <1>2, <3>1
  <2> QED BY <1>0, <1>2, <2>1, <2>2
<1>4. BinaryOf(text, a, c) = <<"binary", Word(text, o)[1], BinaryOf(text, a, o - 1), UnaryOf(text, o + 1, c)>>
  BY <1>0, <1>1, BinaryIs DEF o
<1>5. o - 1 = b /\ o + 1 = b + 2
  BY <1>0, <1>3
<1> QED BY <1>3, <1>4, <1>5

-----------------------------------------------------------------------------
(***************************************************************************)
(* The loops of the parser.                                                *)
(***************************************************************************)
UnaryLoop(tokens, receiver, f) ==
  /\ f[0] = receiver /\ \A n \in 1..Len(tokens) : f[n] = UnaryTurn(tokens, f[n - 1])
  /\ UnaryMessages(tokens, receiver) = f[Len(tokens)]

LEMMA UnaryTurns ==
  ASSUME NEW tokens, Len(tokens) \in Nat, NEW receiver
  PROVE  \E f : UnaryLoop(tokens, receiver, f)
<1> DEFINE N == Len(tokens)
           then(x) == UnaryTurn(tokens, x)
           first == receiver
           Is(n, f) == f = [i \in 0..n |-> IF i = 0 THEN first ELSE then(f[i - 1])]
           good == {n \in 0..N : \E f : Is(n, f)}
<1>1. N \in Nat
  OBVIOUS
<1>2. UnaryMessages(tokens, receiver) = (CHOOSE f : Is(N, f))[N]
  BY DEF UnaryMessages
<1> HIDE DEF N, then, first
<1>3. 0 \in good
  <2> DEFINE g == [i \in 0..0 |-> first]
  <2>1. Is(0, g)
    OBVIOUS
  <2> HIDE DEF g, Is
  <2> QED BY <1>1, <2>1
<1>4. ASSUME NEW n \in 0 + 1..N, n - 1 \in good PROVE n \in good
  <2>1. PICK f : Is(n - 1, f)
    BY <1>4
  <2> DEFINE g == [i \in 0..n |-> IF i = n THEN then(f[n - 1]) ELSE f[i]]
  <2>2. Is(n, g)
    BY <1>1, <2>1
  <2>3. n \in 0..N
    BY <1>1
  <2> HIDE DEF g, Is
  <2> QED BY <2>2, <2>3
<1>5. N \in good
  <2> HIDE DEF good
  <2>1. \A n \in 0..N : n \in good
    BY <1>1, <1>3, <1>4, Stepwise
  <2> QED BY <1>1, <2>1
<1> DEFINE f == CHOOSE h : Is(N, h)
<1>6. Is(N, f)
  BY <1>5
<1>7. UnaryMessages(tokens, receiver) = f[N]
  BY <1>2
<1> HIDE DEF f
<1>8. f[0] = first /\ \A n \in 1..N : f[n] = then(f[n - 1])
  BY <1>1, <1>6
<1> QED BY <1>7, <1>8 DEF then, first, N, UnaryLoop

BinaryLoop(tokens, left, f) ==
  /\ f[0] = left /\ \A n \in 1..Len(tokens) : f[n] = BinaryTurn(tokens, f[n - 1])
  /\ BinaryMessages(tokens, left) = f[Len(tokens)]

LEMMA BinaryTurns ==
  ASSUME NEW tokens, Len(tokens) \in Nat, NEW left
  PROVE  \E f : BinaryLoop(tokens, left, f)
<1> DEFINE N == Len(tokens)
           then(x) == BinaryTurn(tokens, x)
           first == left
           Is(n, f) == f = [i \in 0..n |-> IF i = 0 THEN first ELSE then(f[i - 1])]
           good == {n \in 0..N : \E f : Is(n, f)}
<1>1. N \in Nat
  OBVIOUS
<1>2. BinaryMessages(tokens, left) = (CHOOSE f : Is(N, f))[N]
  BY DEF BinaryMessages
<1> HIDE DEF N, then, first
<1>3. 0 \in good
  <2> DEFINE g == [i \in 0..0 |-> first]
  <2>1. Is(0, g)
    OBVIOUS
  <2> HIDE DEF g, Is
  <2> QED BY <1>1, <2>1
<1>4. ASSUME NEW n \in 0 + 1..N, n - 1 \in good PROVE n \in good
  <2>1. PICK f : Is(n - 1, f)
    BY <1>4
  <2> DEFINE g == [i \in 0..n |-> IF i = n THEN then(f[n - 1]) ELSE f[i]]
  <2>2. Is(n, g)
    BY <1>1, <2>1
  <2>3. n \in 0..N
    BY <1>1
  <2> HIDE DEF g, Is
  <2> QED BY <2>2, <2>3
<1>5. N \in good
  <2> HIDE DEF good
  <2>1. \A n \in 0..N : n \in good
    BY <1>1, <1>3, <1>4, Stepwise
  <2> QED BY <1>1, <2>1
<1> DEFINE f == CHOOSE h : Is(N, h)
<1>6. Is(N, f)
  BY <1>5
<1>7. BinaryMessages(tokens, left) = f[N]
  BY <1>2
<1> HIDE DEF f
<1>8. f[0] = first /\ \A n \in 1..N : f[n] = then(f[n - 1])
  BY <1>1, <1>6
<1> QED BY <1>7, <1>8 DEF then, first, N, BinaryLoop

KeywordLoop(tokens, pos, f) ==
  /\ f[0] = Parts(pos, <<>>, <<>>) /\ \A n \in 1..Len(tokens) : f[n] = KeywordTurn(tokens, f[n - 1])
  /\ KeywordParts(tokens, pos) = f[Len(tokens)]

LEMMA KeywordTurns ==
  ASSUME NEW tokens, Len(tokens) \in Nat, NEW pos
  PROVE  \E f : KeywordLoop(tokens, pos, f)
<1> DEFINE N == Len(tokens)
           then(x) == KeywordTurn(tokens, x)
           first == Parts(pos, <<>>, <<>>)
           Is(n, f) == f = [i \in 0..n |-> IF i = 0 THEN first ELSE then(f[i - 1])]
           good == {n \in 0..N : \E f : Is(n, f)}
<1>1. N \in Nat
  OBVIOUS
<1>2. KeywordParts(tokens, pos) = (CHOOSE f : Is(N, f))[N]
  BY DEF KeywordParts
<1> HIDE DEF N, then, first
<1>3. 0 \in good
  <2> DEFINE g == [i \in 0..0 |-> first]
  <2>1. Is(0, g)
    OBVIOUS
  <2> HIDE DEF g, Is
  <2> QED BY <1>1, <2>1
<1>4. ASSUME NEW n \in 0 + 1..N, n - 1 \in good PROVE n \in good
  <2>1. PICK f : Is(n - 1, f)
    BY <1>4
  <2> DEFINE g == [i \in 0..n |-> IF i = n THEN then(f[n - 1]) ELSE f[i]]
  <2>2. Is(n, g)
    BY <1>1, <2>1
  <2>3. n \in 0..N
    BY <1>1
  <2> HIDE DEF g, Is
  <2> QED BY <2>2, <2>3
<1>5. N \in good
  <2> HIDE DEF good
  <2>1. \A n \in 0..N : n \in good
    BY <1>1, <1>3, <1>4, Stepwise
  <2> QED BY <1>1, <2>1
<1> DEFINE f == CHOOSE h : Is(N, h)
<1>6. Is(N, f)
  BY <1>5
<1>7. KeywordParts(tokens, pos) = f[N]
  BY <1>2
<1> HIDE DEF f
<1>8. f[0] = first /\ \A n \in 1..N : f[n] = then(f[n - 1])
  BY <1>1, <1>6
<1> QED BY <1>7, <1>8 DEF then, first, N, KeywordLoop

\* The types of tokens, and their values
TypeAt(text, i) == IF i = StopsAt(text) THEN "eof" ELSE Kind(text, i)

LEMMA TokensAre ==
  ASSUME NEW text, HasWords(text), NEW tokens, Tokened(text, tokens), NEW i \in 1..StopsAt(text)
  PROVE  /\ tokens[i].type = TypeAt(text, i) /\ StopsAt(text) \in Nat /\ Len(tokens) = StopsAt(text)
         /\ i # StopsAt(text) => /\ i \in 1..Count(text) /\ TypeAt(text, i) = Kind(text, i)
                              /\ Kind(text, i) \in Operands \cup Splits
         /\ TypeAt(text, i) = "number" => tokens[i].value = NumberOf(Word(text, i))
         /\ TypeAt(text, i) = "binary" => tokens[i].value = Word(text, i)[1]
         /\ TypeAt(text, i) \in {"identifier", "keyword"} => tokens[i].value = StartOf(text, i)
<1>0. Count(text) \in Nat /\ StopsAt(text) \in 1..Count(text) + 1
  BY StopIs DEF HasWords
<1>1. tokens[i] = Tok(text, i) /\ Len(tokens) = StopsAt(text) /\ StopsAt(text) \in Nat
  BY <1>0 DEF Tokened
<1>2. CASE i = StopsAt(text)
  BY <1>1, <1>2 DEF Tok, Token, TypeAt
<1>3. CASE i # StopsAt(text)
  <2>1. i \in 1..StopsAt(text) - 1 /\ i \in 1..Count(text)
    BY <1>0, <1>3
  <2>2. Kind(text, i) \in {"number", "binary", "identifier", "keyword"}
    BY <2>1, StopIs, WordsKnown DEF KnownWord
  <2>3. tokens[i] = TokenOf(text, i) /\ TypeAt(text, i) = Kind(text, i)
    BY <1>1, <1>3 DEF Tok, TypeAt
  <2>4. tokens[i].type = Kind(text, i)
    BY <2>2, <2>3 DEF TokenOf, Token
  <2>5. /\ Kind(text, i) = "number" => tokens[i].value = NumberOf(Word(text, i))
        /\ Kind(text, i) = "binary" => tokens[i].value = Word(text, i)[1]
        /\ Kind(text, i) \in {"identifier", "keyword"} => tokens[i].value = StartOf(text, i)
    BY <2>2, <2>3 DEF TokenOf, Token
  <2> QED BY <1>1, <1>3, <2>1, <2>2, <2>3, <2>4, <2>5 DEF Operands, Splits
<1> QED BY <1>2, <1>3

LEMMA NotAborted == ASSUME NEW node, NEW pos, pos # 0 PROVE ~Fails(Parse(node, pos)) /\ Parse(node, pos).pos = pos /\ Parse(node, pos).node = node
BY DEF Fails, Parse, Aborted

LEMMA PrimaryRead ==
  ASSUME NEW text, HasWords(text), NEW tokens, Tokened(text, tokens), NEW a \in 1..StopsAt(text)
  PROVE  ParsePrimary(tokens, a) = IF TypeAt(text, a) \in Operands THEN Parse(OperandAt(text, a), a + 1) ELSE Aborted
<1>1. tokens[a].type = TypeAt(text, a) /\ (a # StopsAt(text) => TypeAt(text, a) = Kind(text, a))
  BY TokensAre
<1>2. TypeAt(text, a) \in Operands => a # StopsAt(text)
  BY DEF TypeAt, Operands
<1>3. CASE TypeAt(text, a) = "number"
  <2>1. tokens[a].value = NumberOf(Word(text, a))
    BY <1>3, TokensAre
  <2>2. OperandAt(text, a) = <<"number", NumberOf(Word(text, a))>>
    BY <1>1, <1>2, <1>3 DEF OperandAt, Kind, Word, Operands
  <2> QED BY <1>1, <1>3, <2>1, <2>2 DEF ParsePrimary, Operands
<1>4. CASE TypeAt(text, a) = "identifier"
  <2>1. tokens[a].value = StartOf(text, a)
    BY <1>4, TokensAre
  <2>2. OperandAt(text, a) = <<"identifier", StartOf(text, a)>>
    BY <1>1, <1>2, <1>4 DEF OperandAt, Kind, Word, Operands
  <2> QED BY <1>1, <1>4, <2>1, <2>2 DEF ParsePrimary, Operands
<1>5. CASE TypeAt(text, a) \notin Operands
  BY <1>1, <1>5 DEF ParsePrimary, Operands
<1> QED BY <1>3, <1>4, <1>5 DEF Operands

\* A unary message is read up to the last of its names.
ReadsUnary(text, a, e, parse) ==
  /\ parse = Parse(UnaryOf(text, a, e), e + 1)
  /\ \A i \in a + 1..e : Kind(text, i) = "identifier"
  /\ TypeAt(text, e + 1) # "identifier"

LEMMA UnaryRead ==
  ASSUME NEW text, HasWords(text), NEW tokens, Tokened(text, tokens), NEW a \in 1..StopsAt(text),
         TypeAt(text, a) \in Operands
  PROVE  \E e \in a..StopsAt(text) - 1 : ReadsUnary(text, a, e, ParseUnaryMessage(tokens, a))
<1> DEFINE N == StopsAt(text)
           ends == {i \in a + 1..N : TypeAt(text, i) # "identifier"}
           e == Lowest(ends) - 1
<1>1. N \in Nat /\ Len(tokens) = N /\ a # N /\ a \in 1..N /\ a \in 1..Count(text) /\ Count(text) \in Nat
  BY TokensAre DEF TypeAt, Operands, HasWords
<1>2. TypeAt(text, N) = "eof"
  BY DEF TypeAt
<1> HIDE DEF N
<1>3. ends \in SUBSET Nat /\ N \in ends
  <2>1. \A i \in ends : i \in Nat
    BY <1>1
  <2> QED BY <1>1, <1>2, <2>1
<1>4. Lowest(ends) \in ends /\ \A i \in ends : Lowest(ends) <= i
  <2> HIDE DEF ends
  <2> QED BY <1>3, LowestIs
<1>5. Lowest(ends) \in a + 1..N /\ TypeAt(text, Lowest(ends)) # "identifier"
  BY <1>4
<1>6. \A i \in a + 1..N : TypeAt(text, i) # "identifier" => Lowest(ends) <= i
  BY <1>4
<1> DEFINE low == Lowest(ends)
<1> HIDE DEF ends
<1>7. e \in a..N - 1 /\ e + 1 = Lowest(ends) /\ TypeAt(text, e + 1) # "identifier"
  BY <1>1, <1>5
<1>8. \A i \in a + 1..e : TypeAt(text, i) = "identifier" /\ i \in 1..N - 1
  <2>1. TAKE i \in a + 1..e
  <2>2. i \in a + 1..N /\ ~(Lowest(ends) <= i) /\ i \in 1..N - 1
    BY <1>1, <1>7
  <2> QED BY <1>6, <2>2
<1> HIDE DEF e
<1>9. \A i \in a + 1..e : Kind(text, i) = "identifier"
  BY <1>8 DEF TypeAt
<1> DEFINE receiver == ParsePrimary(tokens, a)
<1>10. receiver = Parse(UnaryOf(text, a, a), a + 1)
  BY <1>1, PrimaryRead, UnaryIs
<1> HIDE DEF receiver
<1>17. PICK f : UnaryLoop(tokens, receiver, f)
  BY <1>1, UnaryTurns, Zenon
<1>11. /\ f[0] = receiver /\ \A n \in 1..N : f[n] = UnaryTurn(tokens, f[n - 1])
       /\ UnaryMessages(tokens, receiver) = f[N]
  BY <1>1, <1>17 DEF UnaryLoop
<1> DEFINE at(n) == IF a + n <= e THEN a + n ELSE e
           good == {n \in 0..N : f[n] = Parse(UnaryOf(text, a, at(n)), at(n) + 1)}
<1>12. 0 \in good
  <2>1. at(0) = a
    BY <1>1, <1>7
  <2> HIDE DEF at
  <2> QED BY <1>1, <1>10, <1>11, <2>1
<1>13. ASSUME NEW n \in 0 + 1..N, n - 1 \in good PROVE n \in good
  <2> DEFINE k == at(n - 1)  u == UnaryOf(text, a, k)
  <2>1. k \in a..e /\ k + 1 \in 1..N /\ k + 1 # 0 /\ at(n) = (IF k = e THEN e ELSE k + 1) /\ n \in 0..N /\ n \in 1..N
    BY <1>1, <1>7
  <2>2. f[n - 1] = Parse(u, k + 1)
    BY <1>13
  <2>3. f[n] = UnaryTurn(tokens, f[n - 1])
    BY <1>11, <2>1
  <2> HIDE DEF at, k, u
  <2>4. ~Fails(f[n - 1]) /\ f[n - 1].pos = k + 1 /\ f[n - 1].node = u
    BY <2>1, <2>2, NotAborted
  <2>5. tokens[k + 1].type = TypeAt(text, k + 1)
    BY <2>1, TokensAre DEF N
  <2>6. CASE k = e
    <3>1. f[n] = f[n - 1]
      BY <1>7, <2>3, <2>4, <2>5, <2>6 DEF UnaryTurn
    <3> QED BY <2>1, <2>2, <2>6, <3>1 DEF u
  <2>7. CASE k # e
    <3>1. k + 1 \in a + 1..e /\ k + 1 \in a + 1..Count(text) /\ k + 1 - 1 = k /\ k + 1 \in 1..StopsAt(text)
      <4>1. k + 1 \in a + 1..e /\ k + 1 - 1 = k /\ k + 1 # N
        BY <1>1, <1>7, <2>1, <2>7
      <4>2. k + 1 \in 1..Count(text)
        BY <2>1, <4>1, TokensAre DEF N
      <4> QED BY <1>1, <2>1, <4>1, <4>2 DEF N
    <3>2. tokens[k + 1].type = "identifier" /\ tokens[k + 1].value = StartOf(text, k + 1)
      BY <1>8, <3>1, TokensAre
    <3>3. f[n] = Parse(<<"unary", StartOf(text, k + 1), u>>, k + 1 + 1)
      BY <2>3, <2>4, <3>2 DEF UnaryTurn
    <3>4. UnaryOf(text, a, k + 1) = <<"unary", StartOf(text, k + 1), u>>
      <4> DEFINE j == k + 1
      <4>1. j \in a + 1..Count(text) /\ j - 1 = k
        <5>1. j - 1 = k
          BY <1>1, <2>1
        <5> QED BY <3>1, <5>1
      <4> HIDE DEF j
      <4>2. UnaryOf(text, a, j) = <<"unary", StartOf(text, j), UnaryOf(text, a, j - 1)>>
        BY <1>1, <4>1, UnaryIs
      <4> QED BY <4>1, <4>2 DEF j, u
    <3> QED BY <2>1, <2>7, <3>3, <3>4
  <2> QED BY <2>6, <2>7
<1>14. N \in good
  <2> HIDE DEF good
  <2>1. \A n \in 0..N : n \in good
    BY <1>1, <1>12, <1>13, Stepwise
  <2> QED BY <1>1, <2>1
<1>15. at(N) = e
  BY <1>1, <1>7
<1>16. ParseUnaryMessage(tokens, a) = Parse(UnaryOf(text, a, e), e + 1)
  <2>1. f[N] = Parse(UnaryOf(text, a, at(N)), at(N) + 1)
    BY <1>14
  <2> HIDE DEF at
  <2> QED BY <1>11, <1>15, <2>1 DEF ParseUnaryMessage, receiver
<1> QED BY <1>7, <1>9, <1>16 DEF ReadsUnary, N

LEMMA UnaryRefused ==
  ASSUME NEW text, HasWords(text), NEW tokens, Tokened(text, tokens), NEW a \in 1..StopsAt(text),
         TypeAt(text, a) \notin Operands
  PROVE  ParseUnaryMessage(tokens, a) = Aborted
<1>1. Len(tokens) \in Nat /\ ParsePrimary(tokens, a) = Aborted
  BY TokensAre, PrimaryRead
<1>6. PICK f : UnaryLoop(tokens, Aborted, f)
  BY <1>1, UnaryTurns, Zenon
<1>2. /\ f[0] = Aborted /\ \A n \in 1..Len(tokens) : f[n] = UnaryTurn(tokens, f[n - 1])
      /\ UnaryMessages(tokens, Aborted) = f[Len(tokens)]
  BY <1>6 DEF UnaryLoop
<1> DEFINE good == {n \in 0..Len(tokens) : f[n] = Aborted}
<1>3. ASSUME NEW n \in 0 + 1..Len(tokens), n - 1 \in good PROVE n \in good
  <2>1. n \in 1..Len(tokens) /\ n \in 0..Len(tokens) /\ f[n - 1] = Aborted
    BY <1>1, <1>3
  <2> QED BY <1>2, <2>1 DEF UnaryTurn, Fails
<1>4. 0 \in good
  BY <1>1, <1>2
<1>5. \A n \in 0..Len(tokens) : n \in good
  <2> HIDE DEF good
  <2> QED BY <1>1, <1>3, <1>4, Stepwise
<1> QED BY <1>1, <1>2, <1>5 DEF ParseUnaryMessage

-----------------------------------------------------------------------------
(***************************************************************************)
(* A binary message is read up to the last operand that an operator        *)
(* precedes, and aborts at an operator without one.                        *)
(***************************************************************************)
KindFits(text, a, b) ==
  /\ a <= b /\ Kind(text, a) \in Operands /\ Kind(text, b) \in Operands
  /\ \A i \in a + 1..b : Goes(Kind(text, i - 1), Kind(text, i))

LEMMA NamesFit ==
  ASSUME NEW text, NEW a \in Nat, NEW b \in Nat, a <= b, Kind(text, a) \in Operands,
         \A i \in a + 1..b : Kind(text, i) = "identifier"
  PROVE  KindFits(text, a, b)
<1>1. Kind(text, b) \in Operands
  <2>1. b = a \/ b \in a + 1..b
    OBVIOUS
  <2> QED BY <2>1 DEF Operands
<1> QED BY <1>1 DEF KindFits, Goes

LEMMA FitsJoin ==
  ASSUME NEW text, NEW a \in Nat, NEW b \in Nat, NEW c \in Nat, KindFits(text, a, b),
         Kind(text, b + 1) \in Splits, KindFits(text, b + 2, c)
  PROVE  KindFits(text, a, c)
<1>1. a <= b /\ Kind(text, a) \in Operands /\ Kind(text, b) \in Operands
  BY DEF KindFits
<1>2. b + 2 <= c /\ Kind(text, b + 2) \in Operands /\ Kind(text, c) \in Operands
  BY DEF KindFits
<1>3. ASSUME NEW i \in a + 1..c PROVE Goes(Kind(text, i - 1), Kind(text, i))
  <2>1. i \in a + 1..b \/ (i = b + 1 /\ i - 1 = b) \/ (i = b + 2 /\ i - 1 = b + 1) \/ i \in b + 2 + 1..c
    BY <1>1, <1>2
  <2>2. CASE i \in a + 1..b \/ i \in b + 2 + 1..c
    BY <2>2 DEF KindFits
  <2>3. CASE i = b + 1 /\ i - 1 = b
    BY <1>1, <2>3 DEF Goes
  <2>4. CASE i = b + 2 /\ i - 1 = b + 1
    <3>1. Kind(text, i) \in Operands /\ Kind(text, i - 1) \in Splits
      BY <1>2, <2>4
    <3> QED BY <3>1 DEF Goes, Operands
  <2> QED BY <2>1, <2>2, <2>3, <2>4
<1>4. a <= c
  BY <1>1, <1>2
<1> QED BY <1>1, <1>2, <1>3, <1>4 DEF KindFits

NoKeyword(text, a, b) == \A i \in a..b : Kind(text, i) # "keyword"

ReadsBinary(text, a, b, parse) ==
  /\ parse = Parse(BinaryOf(text, a, b), b + 1)
  /\ KindFits(text, a, b) /\ NoKeyword(text, a, b)
  /\ TypeAt(text, b + 1) # "identifier"

\* An operator without an operand
StopsBinary(text, a, b) ==
  /\ KindFits(text, a, b) /\ NoKeyword(text, a, b)
  /\ TypeAt(text, b + 1) = "binary" /\ TypeAt(text, b + 2) \notin Operands

LEMMA BinaryBegins ==
  ASSUME NEW text, HasWords(text), NEW tokens, Tokened(text, tokens), NEW a \in 1..StopsAt(text),
         TypeAt(text, a) \in Operands
  PROVE  \E b \in a..StopsAt(text) - 1 : ReadsBinary(text, a, b, ParseUnaryMessage(tokens, a))
<1>1. PICK b \in a..StopsAt(text) - 1 : ReadsUnary(text, a, b, ParseUnaryMessage(tokens, a))
  BY UnaryRead
<1>2. StopsAt(text) \in Nat /\ a \in 1..Count(text) /\ a \in Nat /\ b \in Nat /\ TypeAt(text, a) = Kind(text, a)
  BY TokensAre DEF TypeAt, Operands
<1>3. StopsAt(text) \in 1..Count(text) + 1 /\ Count(text) \in Nat
  BY StopIs DEF HasWords
<1>4. b \in a..Count(text)
  BY <1>2, <1>3
<1>5. \A i \in a..b : Kind(text, i) # "binary" /\ Kind(text, i) # "keyword"
  <2>1. \A i \in a..b : i = a \/ i \in a + 1..b
    BY <1>2
  <2>2. \A i \in a + 1..b : Kind(text, i) = "identifier"
    BY <1>1 DEF ReadsUnary
  <2> QED BY <1>2, <2>1, <2>2 DEF Operands
<1>6. BinaryOf(text, a, b) = UnaryOf(text, a, b)
  BY <1>2, <1>4, <1>5, BinaryStarts
<1>7. KindFits(text, a, b)
  BY <1>1, <1>2, NamesFit DEF ReadsUnary
<1> QED BY <1>1, <1>5, <1>6, <1>7 DEF ReadsUnary, ReadsBinary, NoKeyword

\* A turn of the loop
LEMMA BinaryGoes ==
  ASSUME NEW text, HasWords(text), NEW tokens, Tokened(text, tokens), NEW a \in 1..StopsAt(text),
         NEW b \in a..StopsAt(text) - 1, NEW parse, ReadsBinary(text, a, b, parse)
  PROVE  IF TypeAt(text, b + 1) # "binary" THEN BinaryTurn(tokens, parse) = parse
         ELSE \/ BinaryTurn(tokens, parse) = Aborted /\ b <= StopsAt(text) - 2 /\ StopsBinary(text, a, b)
              \/ \E c \in b + 2..StopsAt(text) - 1 : ReadsBinary(text, a, c, BinaryTurn(tokens, parse))
<1> DEFINE N == StopsAt(text)  right == ParseUnaryMessage(tokens, b + 1 + 1)  tree == BinaryOf(text, a, b)
<1>1. N \in Nat /\ b \in Nat /\ a \in Nat /\ b + 1 \in 1..N /\ b + 1 # 0 /\ N \in 1..Count(text) + 1 /\ Count(text) \in Nat
  <2>1. StopsAt(text) \in Nat /\ StopsAt(text) \in 1..Count(text) + 1 /\ Count(text) \in Nat
    BY StopIs DEF HasWords
  <2> QED BY <2>1
<1>2. parse = Parse(tree, b + 1)
  BY DEF ReadsBinary
<1> HIDE DEF tree
<1>3. ~Fails(parse) /\ parse.pos = b + 1 /\ parse.node = tree
  BY <1>1, <1>2, NotAborted
<1>4. tokens[b + 1].type = TypeAt(text, b + 1)
  BY <1>1, TokensAre
<1>5. CASE TypeAt(text, b + 1) # "binary"
  BY <1>3, <1>4, <1>5 DEF BinaryTurn
<1>6. CASE TypeAt(text, b + 1) = "binary"
  <2>1. b + 1 # N /\ b + 2 \in 1..N /\ b + 1 + 1 = b + 2 /\ b <= N - 2 /\ Kind(text, b + 1) = "binary" /\ b + 1 \in 1..Count(text)
    <3>1. b + 1 # N /\ Kind(text, b + 1) = "binary"
      BY <1>6 DEF TypeAt
    <3> QED BY <1>1, <3>1
  <2>2. tokens[b + 1].value = Word(text, b + 1)[1]
    BY <1>1, <1>6, TokensAre
  <2>3. BinaryTurn(tokens, parse) = IF Fails(right) THEN Aborted ELSE Parse(<<"binary", Word(text, b + 1)[1], tree, right.node>>, right.pos)
    BY <1>3, <1>4, <1>6, <2>2 DEF BinaryTurn
  <2>4. CASE TypeAt(text, b + 2) \notin Operands
    <3>1. right = Aborted
      BY <2>1, <2>4, UnaryRefused
    <3>2. BinaryTurn(tokens, parse) = Aborted
      BY <2>3, <3>1 DEF Fails
    <3> QED BY <1>6, <2>1, <2>4, <3>2 DEF StopsBinary, ReadsBinary
  <2>5. CASE TypeAt(text, b + 2) \in Operands
    <3>1. PICK c \in b + 2..N - 1 : ReadsUnary(text, b + 2, c, right)
      BY <2>1, <2>5, UnaryRead
    <3>2. /\ right = Parse(UnaryOf(text, b + 2, c), c + 1) /\ \A i \in b + 3..c : Kind(text, i) = "identifier"
          /\ TypeAt(text, c + 1) # "identifier"
      <4>1. \A i \in b + 3..c : i \in b + 2 + 1..c
        BY <1>1
      <4> QED BY <3>1, <4>1 DEF ReadsUnary
    <3>3. c + 1 # 0 /\ c \in Nat /\ c \in b + 2..Count(text) /\ b \in a..Count(text) /\ a \in 1..Count(text) /\ b + 2 # N /\ b + 2 <= c
      BY <1>1
    <3>4. ~Fails(right) /\ right.pos = c + 1 /\ right.node = UnaryOf(text, b + 2, c)
      BY <3>2, <3>3, NotAborted
    <3>5. BinaryTurn(tokens, parse) = Parse(<<"binary", Word(text, b + 1)[1], tree, UnaryOf(text, b + 2, c)>>, c + 1)
      BY <2>3, <3>4
    <3>6. Kind(text, b + 2) \in Operands /\ Kind(text, a) \in Operands
      BY <2>5, <3>3 DEF TypeAt, ReadsBinary, KindFits
    <3>7. \A i \in b + 2..c : Kind(text, i) # "binary" /\ Kind(text, i) # "keyword"
      <4>1. \A i \in b + 2..c : i = b + 2 \/ i \in b + 3..c
        BY <3>3
      <4> QED BY <3>2, <3>6, <4>1 DEF Operands
    <3>8. BinaryOf(text, a, c) = <<"binary", Word(text, b + 1)[1], tree, UnaryOf(text, b + 2, c)>>
      <4>1. Kind(text, a) # "binary"
        BY <3>6 DEF Operands
      <4> QED BY <2>1, <3>3, <3>7, <4>1, BinaryGoesOn DEF tree
    <3>9. KindFits(text, a, c)
      <4>1. Kind(text, b + 1) \in Splits /\ KindFits(text, a, b)
        BY <2>1 DEF Splits, ReadsBinary
      <4>2. KindFits(text, b + 2, c)
        <5>1. \A i \in b + 2 + 1..c : i \in b + 3..c
          BY <1>1, <3>3
        <5>2. b + 2 \in Nat
          BY <1>1
        <5> QED BY <3>2, <3>3, <3>6, <5>1, <5>2, NamesFit
      <4> QED BY <1>1, <3>3, <4>1, <4>2, FitsJoin
    <3>10. NoKeyword(text, a, c)
      <4>1. \A i \in a..c : i \in a..b \/ i = b + 1 \/ i \in b + 2..c
        BY <1>1, <3>3
      <4> QED BY <2>1, <3>7, <4>1 DEF NoKeyword, ReadsBinary
    <3> QED BY <1>6, <3>2, <3>5, <3>8, <3>9, <3>10 DEF ReadsBinary
  <2> QED BY <2>4, <2>5
<1> QED BY <1>5, <1>6

LEMMA BinaryRead ==
  ASSUME NEW text, HasWords(text), NEW tokens, Tokened(text, tokens), NEW a \in 1..StopsAt(text),
         TypeAt(text, a) \in Operands
  PROVE  \/ /\ ParseBinaryMessage(tokens, a) = Aborted
            /\ \E b \in a..StopsAt(text) - 2 : StopsBinary(text, a, b)
         \/ \E b \in a..StopsAt(text) - 1 : /\ ReadsBinary(text, a, b, ParseBinaryMessage(tokens, a))
                                         /\ TypeAt(text, b + 1) # "binary"
<1> DEFINE N == StopsAt(text)  left == ParseUnaryMessage(tokens, a)
           stopped == \E b \in a..N - 2 : StopsBinary(text, a, b)
<1>1. N \in Nat /\ Len(tokens) = N /\ a \in Nat
  BY TokensAre
<1>2. PICK b0 \in a..N - 1 : ReadsBinary(text, a, b0, left)
  BY BinaryBegins
<1> HIDE DEF N, left, stopped
<1>3. PICK f : BinaryLoop(tokens, left, f)
  BY <1>1, BinaryTurns, Zenon
<1>4. /\ f[0] = left /\ \A n \in 1..N : f[n] = BinaryTurn(tokens, f[n - 1])
      /\ ParseBinaryMessage(tokens, a) = f[N]
  BY <1>1, <1>3 DEF BinaryLoop, ParseBinaryMessage, left
<1> DEFINE far(n, b) == b + 1 >= a + 1 + n \/ TypeAt(text, b + 1) # "binary"
           good == {n \in 0..N : \/ f[n] = Aborted /\ stopped
                                 \/ \E b \in a..N - 1 : ReadsBinary(text, a, b, f[n]) /\ far(n, b)}
<1>5. 0 \in good
  BY <1>1, <1>2, <1>4
<1>6. ASSUME NEW n \in 0 + 1..N, n - 1 \in good PROVE n \in good
  <2>0. n \in 0..N /\ n \in 1..N /\ f[n] = BinaryTurn(tokens, f[n - 1]) /\ n - 1 \in Int
    BY <1>1, <1>4
  <2>1. CASE f[n - 1] = Aborted /\ stopped
    <3>1. f[n] = Aborted
      BY <2>0, <2>1 DEF BinaryTurn, Fails
    <3> QED BY <2>0, <2>1, <3>1
  <2>2. ASSUME NEW b \in a..N - 1, ReadsBinary(text, a, b, f[n - 1]), far(n - 1, b) PROVE n \in good
    <3>1. IF TypeAt(text, b + 1) # "binary" THEN f[n] = f[n - 1]
          ELSE \/ f[n] = Aborted /\ b <= N - 2 /\ StopsBinary(text, a, b)
               \/ \E c \in b + 2..N - 1 : ReadsBinary(text, a, c, f[n])
      BY <2>0, <2>2, BinaryGoes DEF N
    <3>2. CASE TypeAt(text, b + 1) # "binary"
      BY <2>0, <2>2, <3>1, <3>2
    <3>3. CASE TypeAt(text, b + 1) = "binary" /\ f[n] = Aborted /\ b <= N - 2 /\ StopsBinary(text, a, b)
      <4>1. b \in a..N - 2
        BY <1>1, <3>3
      <4> QED BY <2>0, <3>3, <4>1 DEF stopped
    <3>4. ASSUME NEW c \in b + 2..N - 1, ReadsBinary(text, a, c, f[n]), TypeAt(text, b + 1) = "binary" PROVE n \in good
      <4>1. c \in a..N - 1 /\ far(n, c)
        BY <1>1, <2>0, <2>2, <3>4
      <4> HIDE DEF far
      <4> QED BY <2>0, <3>4, <4>1
    <3> QED BY <3>1, <3>2, <3>3, <3>4
  <2> QED BY <1>6, <2>1, <2>2
<1>7. N \in good
  <2> HIDE DEF good
  <2>1. \A n \in 0..N : n \in good
    BY <1>1, <1>5, <1>6, Stepwise
  <2> QED BY <1>1, <2>1
<1>8. ASSUME NEW b \in a..N - 1, far(N, b) PROVE TypeAt(text, b + 1) # "binary"
  BY <1>1, <1>8
<1> HIDE DEF far
<1> QED BY <1>4, <1>7, <1>8 DEF N, stopped

LEMMA BinaryRefused ==
  ASSUME NEW text, HasWords(text), NEW tokens, Tokened(text, tokens), NEW a \in 1..StopsAt(text),
         TypeAt(text, a) \notin Operands
  PROVE  ParseBinaryMessage(tokens, a) = Aborted
<1>1. Len(tokens) \in Nat /\ ParseUnaryMessage(tokens, a) = Aborted
  BY TokensAre, UnaryRefused
<1>6. PICK f : BinaryLoop(tokens, Aborted, f)
  BY <1>1, BinaryTurns, Zenon
<1>2. /\ f[0] = Aborted /\ \A n \in 1..Len(tokens) : f[n] = BinaryTurn(tokens, f[n - 1])
      /\ BinaryMessages(tokens, Aborted) = f[Len(tokens)]
  BY <1>6 DEF BinaryLoop
<1> DEFINE good == {n \in 0..Len(tokens) : f[n] = Aborted}
<1>3. ASSUME NEW n \in 0 + 1..Len(tokens), n - 1 \in good PROVE n \in good
  <2>1. n \in 1..Len(tokens) /\ n \in 0..Len(tokens) /\ f[n - 1] = Aborted
    BY <1>1, <1>3
  <2> QED BY <1>2, <2>1 DEF BinaryTurn, Fails
<1>4. 0 \in good
  BY <1>1, <1>2
<1>5. \A n \in 0..Len(tokens) : n \in good
  <2> HIDE DEF good
  <2> QED BY <1>1, <1>3, <1>4, Stepwise
<1> QED BY <1>1, <1>2, <1>5 DEF ParseBinaryMessage

-----------------------------------------------------------------------------
(***************************************************************************)
(* Values in the order of their places.                                    *)
(***************************************************************************)
OrderedBy(values, n, f) ==
  /\ f[0] = <<>> /\ \A i \in 1..n : f[i] = f[i - 1] \o (IF i \in DOMAIN values THEN <<values[i]>> ELSE <<>>)
  /\ InOrder(values, n) = f[n]

LEMMA InOrderIs ==
  ASSUME NEW values, NEW N \in Nat
  PROVE  \E f : OrderedBy(values, N, f)
<1> DEFINE then(i, x) == x \o (IF i \in DOMAIN values THEN <<values[i]>> ELSE <<>>)
           Is(n, f) == f = [i \in 0..n |-> IF i = 0 THEN <<>> ELSE then(i, f[i - 1])]
           good == {n \in 0..N : \E f : Is(n, f)}
<1>2. InOrder(values, N) = (CHOOSE f : Is(N, f))[N]
  BY DEF InOrder
<1> HIDE DEF then
<1>3. 0 \in good
  <2> DEFINE g == [i \in 0..0 |-> <<>>]
  <2>1. Is(0, g)
    OBVIOUS
  <2> HIDE DEF g, Is
  <2> QED BY <2>1
<1>4. ASSUME NEW n \in 0 + 1..N, n - 1 \in good PROVE n \in good
  <2>1. PICK f : Is(n - 1, f)
    BY <1>4
  <2> DEFINE g == [i \in 0..n |-> IF i = n THEN then(n, f[n - 1]) ELSE f[i]]
  <2>2. Is(n, g)
    BY <2>1
  <2>3. n \in 0..N
    OBVIOUS
  <2> HIDE DEF g, Is
  <2> QED BY <2>2, <2>3
<1>5. N \in good
  <2> HIDE DEF good
  <2>1. \A n \in 0..N : n \in good
    BY <1>3, <1>4, Stepwise
  <2> QED BY <2>1
<1> DEFINE f == CHOOSE h : Is(N, h)
<1>6. Is(N, f)
  BY <1>5
<1>7. InOrder(values, N) = f[N]
  BY <1>2
<1> HIDE DEF f
<1>8. f[0] = <<>> /\ \A i \in 1..N : f[i] = then(i, f[i - 1])
  BY <1>6
<1> QED BY <1>7, <1>8 DEF then, OrderedBy

LEMMA InOrderOfNone == ASSUME NEW values, NEW b \in Nat, DOMAIN values = {} PROVE InOrder(values, b) = <<>>
<1>1. PICK f : OrderedBy(values, b, f)
  BY InOrderIs, Zenon
<1> DEFINE good == {n \in 0..b : f[n] = <<>>}
<1>2. f[0] = <<>> /\ \A i \in 1..b : f[i] = f[i - 1] \o <<>>
  BY <1>1 DEF OrderedBy
<1>3. ASSUME NEW n \in 0 + 1..b, n - 1 \in good PROVE n \in good
  <2>1. n \in 1..b /\ n \in 0..b /\ f[n] = <<>> \o <<>>
    BY <1>2, <1>3
  <2>2. <<>> \o <<>> = <<>>
    BY EmptySeq, ConcatEmptySeq
  <2> QED BY <2>1, <2>2
<1>4. \A n \in 0..b : n \in good
  <2>1. 0 \in good
    BY <1>2
  <2> HIDE DEF good
  <2> QED BY <1>3, <2>1, Stepwise
<1> QED BY <1>1, <1>4 DEF OrderedBy

\* Another place at the end adds its value.
LEMMA InOrderGrows ==
  ASSUME NEW v, NEW w, NEW e \in Nat, NEW b \in Nat, e + 1 <= b,
         \A i \in 1..e : (i \in DOMAIN v <=> i \in DOMAIN w) /\ (i \in DOMAIN v => w[i] = v[i]),
         e + 1 \in DOMAIN w, \A i \in e + 2..b : i \notin DOMAIN w
  PROVE  InOrder(w, b) = Append(InOrder(v, e), w[e + 1])
<1> DEFINE S == {w[i] : i \in 1..b}
           of(x, i) == IF i \in DOMAIN x THEN <<x[i]>> ELSE <<>>
<1>1. PICK f : OrderedBy(v, e, f)
  BY InOrderIs, Zenon
<1>2. PICK g : OrderedBy(w, b, g)
  BY InOrderIs, Zenon
<1>3. f[0] = <<>> /\ \A i \in 1..e : f[i] = f[i - 1] \o of(v, i)
  BY <1>1 DEF OrderedBy
<1>4. g[0] = <<>> /\ \A i \in 1..b : g[i] = g[i - 1] \o of(w, i)
  BY <1>2 DEF OrderedBy
<1>5. \A i \in 1..b : w[i] \in S
  OBVIOUS
<1>6. \A i \in 1..e : of(v, i) = of(w, i)
  OBVIOUS
<1>7. \A i \in 1..b : of(w, i) \in Seq(S)
  <2>1. \A i \in 1..b : <<w[i]>> \in Seq(S)
    <3> HIDE DEF S
    <3> QED BY <1>5
  <2> HIDE DEF S
  <2> QED BY <2>1, EmptySeq
<1>8. of(w, e + 1) = <<w[e + 1]>> /\ \A i \in e + 2..b : of(w, i) = <<>>
  OBVIOUS
<1> HIDE DEF S, of
<1> DEFINE same == {n \in 0..e : f[n] = g[n] /\ g[n] \in Seq(S)}
<1>9. 0 \in same
  <2>1. <<>> \in Seq(S)
    BY EmptySeq
  <2>2. f[0] = <<>> /\ g[0] = <<>> /\ 0 \in 0..e
    BY <1>3, <1>4
  <2>3. f[0] = g[0] /\ g[0] \in Seq(S)
    BY <2>1, <2>2, Zenon
  <2> QED BY <2>2, <2>3
<1>10. ASSUME NEW n \in 0 + 1..e, n - 1 \in same PROVE n \in same
  <2>1. n \in 1..e /\ n \in 1..b /\ n \in 0..e
    OBVIOUS
  <2>2. f[n] = f[n - 1] \o of(w, n) /\ g[n] = g[n - 1] \o of(w, n) /\ f[n - 1] = g[n - 1]
    BY <1>3, <1>4, <1>6, <1>10, <2>1
  <2>3. g[n - 1] \o of(w, n) \in Seq(S)
    BY <1>7, <1>10, <2>1, ConcatProperties
  <2> QED BY <2>1, <2>2, <2>3
<1>11. e \in same
  <2> HIDE DEF same
  <2>1. \A n \in 0..e : n \in same
    BY <1>9, <1>10, Stepwise
  <2> QED BY <2>1
<1> DEFINE all == Append(g[e], w[e + 1])
<1>12. g[e + 1] = all /\ all \in Seq(S)
  <2>1. w[e + 1] \in S /\ g[e] \in Seq(S) /\ e + 1 \in 1..b
    BY <1>5, <1>11
  <2>2. all = g[e] \o <<w[e + 1]>>
    BY <2>1, AppendIsConcat, Zenon
  <2> DEFINE p == e + 1
  <2>3. p - 1 = e /\ p \in 1..b /\ of(w, p) = <<w[e + 1]>>
    BY <1>8
  <2> HIDE DEF p
  <2>4. g[p] = g[e] \o <<w[e + 1]>>
    BY <1>4, <2>3
  <2>5. all \in Seq(S)
    BY <2>1, AppendProperties
  <2> HIDE DEF all
  <2> QED BY <2>2, <2>4, <2>5 DEF p
<1> HIDE DEF all
<1> DEFINE still == {n \in e + 1..b : g[n] = all}
<1>13. ASSUME NEW n \in e + 1 + 1..b, n - 1 \in still PROVE n \in still
  <2>1. n \in e + 2..b /\ n \in 1..b /\ n \in e + 1..b
    OBVIOUS
  <2>2. g[n] = all \o <<>>
    BY <1>4, <1>8, <1>13, <2>1
  <2> QED BY <1>12, <2>1, <2>2, ConcatEmptySeq
<1>14. b \in still
  <2>1. e + 1 \in still /\ e + 1 \in Nat
    BY <1>12
  <2> HIDE DEF still
  <2>2. \A n \in e + 1..b : n \in still
    BY <1>13, <2>1, Stepwise
  <2> QED BY <2>2
<1> QED BY <1>1, <1>2, <1>11, <1>14 DEF OrderedBy, all

-----------------------------------------------------------------------------
(***************************************************************************)
(* The keywords of a message, and their arguments.                         *)
(***************************************************************************)
Keywords(text, b) == Among(TypesOf(text), 1, b, "keyword")
NamesTo(text, b) == [i \in Keywords(text, b) |-> StartOf(text, i)]
ArgumentsTo(text, b) == [i \in Keywords(text, b) |-> BinaryOf(text, i + 1, Behind(Keywords(text, b), i, b) - 1)]
PartsTo(text, b) == Parts(b + 1, InOrder(NamesTo(text, b), b), InOrder(ArgumentsTo(text, b), b))

LEMMA KeywordsAre ==
  ASSUME NEW text, HasWords(text), NEW b \in 0..Count(text)
  PROVE  Keywords(text, b) \in SUBSET (1..b) /\ \A i \in 1..b : i \in Keywords(text, b) <=> Kind(text, i) = "keyword"
<1>1. Count(text) \in Nat
  BY DEF HasWords
<1>2. \A i \in 1..b : i \in 1..Count(text)
  BY <1>1
<1> QED BY <1>2, TypesAre DEF Keywords, Among

LEMMA NoParts ==
  ASSUME NEW text, HasWords(text), NEW b \in 0..Count(text), NoKeyword(text, 1, b)
  PROVE  Keywords(text, b) = {} /\ PartsTo(text, b) = Parts(b + 1, <<>>, <<>>)
<1>1. Keywords(text, b) = {} /\ b \in Nat
  BY KeywordsAre DEF NoKeyword, HasWords
<1>2. DOMAIN NamesTo(text, b) = {} /\ DOMAIN ArgumentsTo(text, b) = {}
  BY <1>1 DEF NamesTo, ArgumentsTo
<1>3. InOrder(NamesTo(text, b), b) = <<>> /\ InOrder(ArgumentsTo(text, b), b) = <<>>
  BY <1>1, <1>2, InOrderOfNone
<1> QED BY <1>1, <1>3 DEF PartsTo

\* A keyword with its argument
LEMMA MoreParts ==
  ASSUME NEW text, HasWords(text), NEW e \in Nat, NEW c \in e + 2..Count(text),
         Kind(text, e + 1) = "keyword", NoKeyword(text, e + 2, c)
  PROVE  PartsTo(text, c) = Parts(c + 1, Append(InOrder(NamesTo(text, e), e), StartOf(text, e + 1)),
                                  Append(InOrder(ArgumentsTo(text, e), e), BinaryOf(text, e + 2, c)))
<1> DEFINE K == Keywords(text, e)  L == Keywords(text, c)
<1>1. Count(text) \in Nat /\ e \in 0..Count(text) /\ c \in 0..Count(text) /\ c \in Nat /\ e + 1 \in 1..c /\ e + 1 <= c
  BY DEF HasWords
<1>2. /\ K \in SUBSET (1..e) /\ L \in SUBSET (1..c)
      /\ \A i \in 1..e : i \in K <=> Kind(text, i) = "keyword"
      /\ \A i \in 1..c : i \in L <=> Kind(text, i) = "keyword"
  BY <1>1, KeywordsAre
<1>3. \A i \in 1..c : i \in L <=> i \in K \/ i = e + 1
  <2>1. TAKE i \in 1..c
  <2>2. i \in 1..e \/ i = e + 1 \/ i \in e + 2..c
    BY <1>1
  <2>3. CASE i \in 1..e
    BY <1>1, <1>2, <2>3
  <2>4. CASE i = e + 1
    BY <1>2, <2>4
  <2>5. CASE i \in e + 2..c
    <3>1. i \notin 1..e /\ i # e + 1
      BY <1>1, <2>5
    <3> QED BY <1>2, <2>5, <3>1 DEF NoKeyword
  <2> QED BY <2>2, <2>3, <2>4, <2>5
<1> HIDE DEF K, L
<1>4. ASSUME NEW i \in K PROVE Behind(L, i, c) = Behind(K, i, e)
  <2> DEFINE p == Behind(K, i, e)  q == Behind(L, i, c)
  <2>1. i \in 1..e /\ i \in 1 - 1..e /\ i \in 1 - 1..c
    BY <1>1, <1>2
  <2>2. p \in K \cup {e + 1} /\ p \in i + 1..e + 1 /\ \A j \in K : j > i => p <= j
    BY <1>2, <2>1, BehindIs
  <2>3. q \in L \cup {c + 1} /\ q \in i + 1..c + 1 /\ \A j \in L : j > i => q <= j
    BY <1>1, <1>2, <2>1, BehindIs
  <2> HIDE DEF p, q
  <2>4. p \in L /\ p > i /\ q <= p
    BY <1>1, <1>2, <1>3, <2>1, <2>2, <2>3
  <2>5. q \in L /\ q > i
    BY <1>1, <2>1, <2>2, <2>3, <2>4
  <2>6. q \in K \/ q = e + 1
    BY <1>2, <1>3, <2>5
  <2>7. p <= q
    <3>1. q \in K => p <= q
      BY <2>2, <2>5
    <3>2. p <= e + 1
      BY <2>1, <2>2
    <3> QED BY <2>6, <3>1, <3>2
  <2>8. p = q
    BY <2>1, <2>2, <2>3, <2>4, <2>7
  <2> QED BY <2>8 DEF p, q
<1>5. Behind(L, e + 1, c) = c + 1
  <2> DEFINE q == Behind(L, e + 1, c)
  <2>1. q \in L \cup {c + 1} /\ q \in e + 1 + 1..c + 1
    <3>1. e + 1 \in 1 - 1..c
      BY <1>1
    <3> QED BY <1>1, <1>2, <3>1, BehindIs
  <2> HIDE DEF q
  <2>2. q \notin L
    BY <1>1, <1>2, <1>3, <2>1
  <2> QED BY <2>1, <2>2 DEF q
<1> DEFINE v == NamesTo(text, e)  w == NamesTo(text, c)
           x == ArgumentsTo(text, e)  y == ArgumentsTo(text, c)
<1>6. /\ v = [i \in K |-> StartOf(text, i)] /\ w = [i \in L |-> StartOf(text, i)]
      /\ x = [i \in K |-> BinaryOf(text, i + 1, Behind(K, i, e) - 1)]
      /\ y = [i \in L |-> BinaryOf(text, i + 1, Behind(L, i, c) - 1)]
  BY DEF NamesTo, ArgumentsTo, K, L
<1> HIDE DEF v, w, x, y
<1>7. e + 1 \in L /\ (\A i \in e + 2..c : i \notin L) /\ \A i \in 1..e : i \in K <=> i \in L
  <2>1. \A i \in e + 2..c : i \in 1..c /\ i \notin 1..e /\ i # e + 1
    BY <1>1
  <2>2. \A i \in 1..e : i \in 1..c /\ i # e + 1
    BY <1>1
  <2> QED BY <1>1, <1>2, <1>3, <2>1, <2>2
<1>8. /\ DOMAIN v = K /\ DOMAIN w = L /\ DOMAIN x = K /\ DOMAIN y = L
      /\ w[e + 1] = StartOf(text, e + 1) /\ \A i \in K : w[i] = v[i]
  <2>1. \A i \in K : i \in L
    BY <1>1, <1>2, <1>7
  <2> QED BY <1>6, <1>7, <2>1
<1>9. y[e + 1] = BinaryOf(text, e + 2, c) /\ \A i \in K : y[i] = x[i]
  <2>1. \A i \in K : i \in L
    BY <1>1, <1>2, <1>7
  <2>2. e + 1 + 1 = e + 2 /\ c + 1 - 1 = c
    BY <1>1
  <2> QED BY <1>4, <1>5, <1>6, <1>7, <2>1, <2>2
<1>10. InOrder(w, c) = Append(InOrder(v, e), StartOf(text, e + 1))
  BY <1>1, <1>7, <1>8, InOrderGrows
<1>11. InOrder(y, c) = Append(InOrder(x, e), BinaryOf(text, e + 2, c))
  BY <1>1, <1>7, <1>8, <1>9, InOrderGrows
<1> QED BY <1>10, <1>11 DEF PartsTo, v, w, x, y

\* What is read up to the last argument, and a keyword or operator without its operand
ReadsParts(text, e, parts) ==
  /\ parts = PartsTo(text, e) /\ KindFits(text, 1, e)
  /\ TypeAt(text, e + 1) \notin {"identifier", "binary"}

Stops(text, e) ==
  KindFits(text, 1, e) /\ TypeAt(text, e + 1) \in Splits /\ TypeAt(text, e + 2) \notin Operands

LEMMA PartsNotAborted ==
  ASSUME NEW text, NEW e \in Nat
  PROVE  /\ ~Fails(PartsTo(text, e)) /\ PartsTo(text, e).pos = e + 1
         /\ PartsTo(text, e).keywords = InOrder(NamesTo(text, e), e)
         /\ PartsTo(text, e).arguments = InOrder(ArgumentsTo(text, e), e)
<1>1. PartsTo(text, e).pos = e + 1 /\ e + 1 # 0
  BY DEF PartsTo, Parts
<1>2. ~Fails(PartsTo(text, e))
  BY <1>1 DEF Fails, Aborted
<1> QED BY <1>1, <1>2 DEF PartsTo, Parts

\* A turn of the loop
LEMMA KeywordGoes ==
  ASSUME NEW text, HasWords(text), NEW tokens, Tokened(text, tokens), NEW e \in 1..StopsAt(text) - 1,
         NEW parts, ReadsParts(text, e, parts)
  PROVE  IF TypeAt(text, e + 1) # "keyword" THEN KeywordTurn(tokens, parts) = parts
         ELSE \/ /\ KeywordTurn(tokens, parts) = Aborted
                 /\ \E c \in 1..StopsAt(text) - 2 : Stops(text, c)
              \/ \E c \in e + 2..StopsAt(text) - 1 : ReadsParts(text, c, KeywordTurn(tokens, parts))
<1> DEFINE N == StopsAt(text)  argument == ParseBinaryMessage(tokens, e + 1 + 1)
           names == InOrder(NamesTo(text, e), e)  arguments == InOrder(ArgumentsTo(text, e), e)
           next == KeywordTurn(tokens, parts)
<1>1. N \in Nat /\ e \in Nat /\ e + 1 \in 1..N /\ N \in 1..Count(text) + 1 /\ Count(text) \in Nat
  <2>1. StopsAt(text) \in Nat /\ StopsAt(text) \in 1..Count(text) + 1 /\ Count(text) \in Nat
    BY StopIs DEF HasWords
  <2> QED BY <2>1
<1>2. ~Fails(parts) /\ parts.pos = e + 1 /\ parts.keywords = names /\ parts.arguments = arguments
  BY <1>1, PartsNotAborted DEF ReadsParts
<1>3. tokens[e + 1].type = TypeAt(text, e + 1)
  BY <1>1, TokensAre
<1> HIDE DEF names, arguments
<1>4. CASE TypeAt(text, e + 1) # "keyword"
  BY <1>2, <1>3, <1>4 DEF KeywordTurn
<1>5. CASE TypeAt(text, e + 1) = "keyword"
  <2>1. /\ e + 1 # N /\ e + 2 \in 1..N /\ e + 2 \in Nat /\ e + 1 + 1 = e + 2 /\ e \in 1..N - 2
        /\ Kind(text, e + 1) = "keyword"
    <3>1. e + 1 # N /\ Kind(text, e + 1) = "keyword"
      BY <1>5 DEF TypeAt
    <3> QED BY <1>1, <3>1
  <2>2. tokens[e + 1].value = StartOf(text, e + 1)
    BY <1>1, <1>5, TokensAre
  <2>3. next = IF Fails(argument) THEN Aborted
               ELSE Parts(argument.pos, Append(names, StartOf(text, e + 1)), Append(arguments, argument.node))
    BY <1>2, <1>3, <1>5, <2>2 DEF KeywordTurn
  <2>4. KindFits(text, 1, e) /\ Kind(text, e + 1) \in Splits
    BY <2>1 DEF ReadsParts, Splits
  <2>5. CASE TypeAt(text, e + 2) \notin Operands
    <3>1. argument = Aborted
      BY <2>1, <2>5, BinaryRefused
    <3>2. next = Aborted
      BY <2>3, <3>1 DEF Fails
    <3>3. Stops(text, e)
      BY <1>5, <2>4, <2>5 DEF Stops, Splits
    <3> QED BY <1>5, <2>1, <3>2, <3>3
  <2>6. CASE TypeAt(text, e + 2) \in Operands
    <3>1. \/ /\ argument = Aborted
             /\ \E c \in e + 2..N - 2 : StopsBinary(text, e + 2, c)
          \/ \E c \in e + 2..N - 1 : ReadsBinary(text, e + 2, c, argument) /\ TypeAt(text, c + 1) # "binary"
      BY <2>1, <2>6, BinaryRead
    <3>2. ASSUME argument = Aborted, NEW c \in e + 2..N - 2, StopsBinary(text, e + 2, c)
          PROVE  next = Aborted /\ \E d \in 1..N - 2 : Stops(text, d)
      <4>1. next = Aborted
        BY <2>3, <3>2 DEF Fails
      <4>2. c \in 1..N - 2 /\ c \in Nat
        BY <1>1
      <4>3. KindFits(text, 1, c)
        BY <1>1, <2>4, <3>2, <4>2, FitsJoin DEF StopsBinary
      <4>4. Stops(text, c)
        BY <3>2, <4>3 DEF Stops, StopsBinary, Splits
      <4> QED BY <4>1, <4>2, <4>4
    <3>3. ASSUME NEW c \in e + 2..N - 1, ReadsBinary(text, e + 2, c, argument), TypeAt(text, c + 1) # "binary"
          PROVE  ReadsParts(text, c, next)
      <4>1. c \in Nat /\ c \in e + 2..Count(text) /\ c + 1 # 0
        BY <1>1
      <4>2. argument = Parse(BinaryOf(text, e + 2, c), c + 1)
        BY <3>3 DEF ReadsBinary
      <4>3. next = Parts(c + 1, Append(names, StartOf(text, e + 1)), Append(arguments, BinaryOf(text, e + 2, c)))
        BY <2>3, <4>1, <4>2, NotAborted
      <4>4. next = PartsTo(text, c)
        BY <1>1, <2>1, <3>3, <4>1, <4>3, MoreParts DEF ReadsBinary, names, arguments
      <4>5. KindFits(text, 1, c)
        BY <1>1, <2>4, <3>3, <4>1, FitsJoin DEF ReadsBinary
      <4> QED BY <3>3, <4>4, <4>5 DEF ReadsParts, ReadsBinary
    <3> QED BY <1>5, <3>1, <3>2, <3>3
  <2> QED BY <2>5, <2>6
<1> QED BY <1>4, <1>5

LEMMA KeywordsRead ==
  ASSUME NEW text, HasWords(text), NEW tokens, Tokened(text, tokens), NEW e0 \in 1..StopsAt(text) - 1,
         ReadsParts(text, e0, Parts(e0 + 1, <<>>, <<>>))
  PROVE  \/ /\ KeywordParts(tokens, e0 + 1) = Aborted
            /\ \E e \in 1..StopsAt(text) - 2 : Stops(text, e)
         \/ \E e \in e0..StopsAt(text) - 1 : /\ ReadsParts(text, e, KeywordParts(tokens, e0 + 1))
                                          /\ TypeAt(text, e + 1) # "keyword"
<1> DEFINE N == StopsAt(text)  first == Parts(e0 + 1, <<>>, <<>>)
           stopped == \E e \in 1..N - 2 : Stops(text, e)
<1>1. N \in Nat /\ Len(tokens) = N /\ e0 \in Nat
  <2>1. 1 \in 1..StopsAt(text)
    BY StopIs DEF HasWords
  <2> QED BY <2>1, TokensAre
<1> HIDE DEF N, stopped
<1>2. PICK f : KeywordLoop(tokens, e0 + 1, f)
  BY <1>1, KeywordTurns, Zenon
<1>3. /\ f[0] = first /\ \A n \in 1..N : f[n] = KeywordTurn(tokens, f[n - 1])
      /\ KeywordParts(tokens, e0 + 1) = f[N]
  BY <1>1, <1>2 DEF KeywordLoop
<1> DEFINE far(n, e) == e >= e0 + n \/ TypeAt(text, e + 1) # "keyword"
           good == {n \in 0..N : \/ f[n] = Aborted /\ stopped
                                 \/ \E e \in e0..N - 1 : ReadsParts(text, e, f[n]) /\ far(n, e)}
<1>4. 0 \in good
  <2>1. e0 \in e0..N - 1 /\ far(0, e0) /\ ReadsParts(text, e0, f[0])
    BY <1>1, <1>3 DEF N
  <2> HIDE DEF far
  <2> QED BY <1>1, <2>1
<1> HIDE DEF first
<1>5. ASSUME NEW n \in 0 + 1..N, n - 1 \in good PROVE n \in good
  <2>0. n \in 0..N /\ n \in 1..N /\ f[n] = KeywordTurn(tokens, f[n - 1]) /\ n - 1 \in Int
    BY <1>1, <1>3
  <2>1. CASE f[n - 1] = Aborted /\ stopped
    <3>1. f[n] = Aborted
      BY <2>0, <2>1 DEF KeywordTurn, Fails
    <3> QED BY <2>0, <2>1, <3>1
  <2>2. ASSUME NEW e \in e0..N - 1, ReadsParts(text, e, f[n - 1]), far(n - 1, e) PROVE n \in good
    <3>0. e \in 1..N - 1
      BY <1>1
    <3>1. IF TypeAt(text, e + 1) # "keyword" THEN f[n] = f[n - 1]
          ELSE \/ f[n] = Aborted /\ stopped
               \/ \E c \in e + 2..N - 1 : ReadsParts(text, c, f[n])
      BY <2>0, <2>2, <3>0, KeywordGoes DEF N, stopped
    <3>2. CASE TypeAt(text, e + 1) # "keyword"
      BY <2>0, <2>2, <3>1, <3>2
    <3>3. CASE f[n] = Aborted /\ stopped
      BY <2>0, <3>3
    <3>4. ASSUME NEW c \in e + 2..N - 1, ReadsParts(text, c, f[n]), TypeAt(text, e + 1) = "keyword" PROVE n \in good
      <4>1. c \in e0..N - 1 /\ far(n, c)
        BY <1>1, <2>0, <2>2, <3>4
      <4> HIDE DEF far
      <4> QED BY <2>0, <3>4, <4>1
    <3> QED BY <3>1, <3>2, <3>3, <3>4
  <2> QED BY <1>5, <2>1, <2>2
<1>6. N \in good
  <2> HIDE DEF good
  <2>1. \A n \in 0..N : n \in good
    BY <1>1, <1>4, <1>5, Stepwise
  <2> QED BY <1>1, <2>1
<1>7. ASSUME NEW e \in e0..N - 1, far(N, e) PROVE TypeAt(text, e + 1) # "keyword"
  BY <1>1, <1>7
<1> HIDE DEF far
<1> QED BY <1>3, <1>6, <1>7 DEF N, stopped

-----------------------------------------------------------------------------
(***************************************************************************)
(* A text is read as far as it is a message.                               *)
(***************************************************************************)
EndsAt(text, e) == KindFits(text, 1, e) /\ TypeAt(text, e + 1) \notin Splits \cup {"identifier"}

LEMMA MessageWithout ==
  ASSUME NEW text, HasWords(text), NEW e \in 1..Count(text), NoKeyword(text, 1, e)
  PROVE  MessageOf(text, 1, e) = BinaryOf(text, 1, e)
<1>1. e \in 0..Count(text)
  BY DEF HasWords
<1>2. Keywords(text, e) = {}
  BY <1>1, NoParts
<1> QED BY <1>2 DEF MessageOf, Keywords, TypesOf

LEMMA MessageWith ==
  ASSUME NEW text, HasWords(text), NEW e \in 1..Count(text), NEW b \in 1..e - 1, NoKeyword(text, 1, b),
         Kind(text, b + 1) = "keyword"
  PROVE  MessageOf(text, 1, e) =
           <<"keyword", InOrder(NamesTo(text, e), e), BinaryOf(text, 1, b), InOrder(ArgumentsTo(text, e), e)>>
<1> DEFINE K == Keywords(text, e)  low == Lowest(K)
<1>1. Count(text) \in Nat /\ e \in 0..Count(text) /\ b + 1 \in 1..e
  BY DEF HasWords
<1>2. K \in SUBSET (1..e) /\ \A i \in 1..e : i \in K <=> Kind(text, i) = "keyword"
  BY <1>1, KeywordsAre
<1>3. b + 1 \in K
  BY <1>1, <1>2
<1>4. MessageOf(text, 1, e) =
        IF K = {} THEN BinaryOf(text, 1, e)
        ELSE <<"keyword", InOrder(NamesTo(text, e), e), BinaryOf(text, 1, low - 1), InOrder(ArgumentsTo(text, e), e)>>
  BY DEF MessageOf, Keywords, NamesTo, ArgumentsTo, TypesOf
<1> HIDE DEF K
<1>5. low \in K /\ \A j \in K : low <= j
  <2>1. \A j \in K : j \in Nat
    BY <1>2
  <2>2. K \in SUBSET Nat
    BY <2>1
  <2> QED BY <1>3, <2>2, LowestIs
<1> HIDE DEF low
<1>6. low = b + 1
  <2>1. low \in 1..e /\ low <= b + 1 /\ Kind(text, low) = "keyword"
    BY <1>2, <1>3, <1>5
  <2>2. low \notin 1..b
    BY <2>1 DEF NoKeyword
  <2> QED BY <2>1, <2>2
<1>7. low - 1 = b
  BY <1>6
<1> QED BY <1>3, <1>4, <1>7

ReadsSource(text, parse) ==
  \/ /\ parse = Aborted
     /\ TypeAt(text, 1) \notin Operands \/ \E e \in 1..StopsAt(text) - 2 : Stops(text, e)
  \/ \E e \in 1..StopsAt(text) - 1 : parse = Parse(MessageOf(text, 1, e), e + 1) /\ EndsAt(text, e)

LEMMA SourceRead ==
  ASSUME NEW text, HasWords(text), NEW tokens, Tokened(text, tokens)
  PROVE  ReadsSource(text, ParseKeywordMessage(tokens, 1))
<1> DEFINE N == StopsAt(text)  receiver == ParseBinaryMessage(tokens, 1)
           parts == KeywordParts(tokens, receiver.pos)
           parse == ParseKeywordMessage(tokens, 1)
<1>1. N \in Nat /\ 1 \in 1..N /\ N \in 1..Count(text) + 1 /\ Count(text) \in Nat
  <2>1. StopsAt(text) \in 1..Count(text) + 1 /\ Count(text) \in Nat
    BY StopIs DEF HasWords
  <2> QED BY <2>1
<1>2. parse = IF Fails(receiver) \/ tokens[receiver.pos].type # "keyword" THEN receiver
              ELSE IF Fails(parts) THEN Aborted
              ELSE Parse(<<"keyword", parts.keywords, receiver.node, parts.arguments>>, parts.pos)
  BY DEF ParseKeywordMessage
<1>3. CASE TypeAt(text, 1) \notin Operands
  <2>1. receiver = Aborted
    BY <1>1, <1>3, BinaryRefused
  <2>2. parse = Aborted
    BY <1>2, <2>1 DEF Fails
  <2> QED BY <1>3, <2>2 DEF ReadsSource
<1>4. ASSUME TypeAt(text, 1) \in Operands, receiver = Aborted, NEW b \in 1..N - 2, StopsBinary(text, 1, b)
      PROVE  ReadsSource(text, parse)
  <2>1. parse = Aborted
    BY <1>2, <1>4 DEF Fails
  <2>2. Stops(text, b)
    BY <1>4 DEF Stops, StopsBinary, Splits
  <2> QED BY <2>1, <2>2 DEF ReadsSource
<1>5. ASSUME NEW b \in 1..N - 1, ReadsBinary(text, 1, b, receiver), TypeAt(text, b + 1) # "binary"
      PROVE  ReadsSource(text, parse)
  <2>1. b \in Nat /\ b + 1 # 0 /\ b + 1 \in 1..N /\ b \in 1..Count(text) /\ b \in 0..Count(text)
    BY <1>1
  <2>2. receiver = Parse(BinaryOf(text, 1, b), b + 1) /\ KindFits(text, 1, b) /\ NoKeyword(text, 1, b)
        /\ TypeAt(text, b + 1) # "identifier"
    BY <1>5 DEF ReadsBinary
  <2>3. ~Fails(receiver) /\ receiver.pos = b + 1 /\ receiver.node = BinaryOf(text, 1, b)
    BY <2>1, <2>2, NotAborted
  <2>4. tokens[b + 1].type = TypeAt(text, b + 1)
    BY <2>1, TokensAre
  <2>5. CASE TypeAt(text, b + 1) # "keyword"
    <3>1. parse = Parse(BinaryOf(text, 1, b), b + 1)
      BY <1>2, <2>2, <2>3, <2>4, <2>5
    <3>2. MessageOf(text, 1, b) = BinaryOf(text, 1, b)
      BY <2>1, <2>2, MessageWithout
    <3>3. EndsAt(text, b)
      BY <1>5, <2>2, <2>5 DEF EndsAt, Splits
    <3> QED BY <3>1, <3>2, <3>3 DEF ReadsSource
  <2>6. CASE TypeAt(text, b + 1) = "keyword"
    <3>1. parse = IF Fails(parts) THEN Aborted
                  ELSE Parse(<<"keyword", parts.keywords, BinaryOf(text, 1, b), parts.arguments>>, parts.pos)
      BY <1>2, <2>3, <2>4, <2>6
    <3>2. ReadsParts(text, b, Parts(b + 1, <<>>, <<>>))
      <4>1. PartsTo(text, b) = Parts(b + 1, <<>>, <<>>)
        BY <2>1, <2>2, NoParts
      <4> QED BY <2>2, <2>6, <4>1 DEF ReadsParts
    <3>3. \/ parts = Aborted /\ \E e \in 1..N - 2 : Stops(text, e)
          \/ \E e \in b..N - 1 : ReadsParts(text, e, parts) /\ TypeAt(text, e + 1) # "keyword"
      BY <2>3, <3>2, KeywordsRead
    <3>4. CASE parts = Aborted /\ \E e \in 1..N - 2 : Stops(text, e)
      <4>1. parse = Aborted
        BY <3>1, <3>4 DEF Fails
      <4> QED BY <3>4, <4>1 DEF ReadsSource
    <3>5. ASSUME NEW e \in b..N - 1, ReadsParts(text, e, parts), TypeAt(text, e + 1) # "keyword"
          PROVE  ReadsSource(text, parse)
      <4>1. e # b
        BY <2>6, <3>5
      <4>2. e \in Nat /\ e \in 1..Count(text) /\ e \in 1..N - 1 /\ b \in 1..e - 1
        BY <1>1, <2>1, <4>1
      <4>3. Kind(text, b + 1) = "keyword"
        BY <2>6 DEF TypeAt
      <4>4. MessageOf(text, 1, e) =
              <<"keyword", InOrder(NamesTo(text, e), e), BinaryOf(text, 1, b), InOrder(ArgumentsTo(text, e), e)>>
        BY <2>2, <4>2, <4>3, MessageWith
      <4>5. /\ ~Fails(parts) /\ parts.pos = e + 1 /\ parts.keywords = InOrder(NamesTo(text, e), e)
            /\ parts.arguments = InOrder(ArgumentsTo(text, e), e)
        BY <3>5, <4>2, PartsNotAborted DEF ReadsParts
      <4>6. parse = Parse(MessageOf(text, 1, e), e + 1)
        BY <3>1, <4>4, <4>5
      <4>7. EndsAt(text, e)
        BY <3>5 DEF ReadsParts, EndsAt, Splits
      <4> QED BY <4>2, <4>6, <4>7 DEF ReadsSource
    <3> QED BY <3>3, <3>4, <3>5
  <2> QED BY <2>5, <2>6
<1>6. CASE TypeAt(text, 1) \in Operands
  <2>1. \/ receiver = Aborted /\ \E b \in 1..N - 2 : StopsBinary(text, 1, b)
        \/ \E b \in 1..N - 1 : ReadsBinary(text, 1, b, receiver) /\ TypeAt(text, b + 1) # "binary"
    BY <1>1, <1>6, BinaryRead
  <2> QED BY <1>4, <1>5, <1>6, <2>1
<1> QED BY <1>3, <1>6

\* What is read is the longest beginning of the text that is a message.
LEMMA ReadableIs ==
  ASSUME NEW text, HasWords(text), NEW n
  PROVE  n \in Readable(TypesOf(text)) <=> n \in 1..Count(text) /\ KindFits(text, 1, n)
<1> DEFINE types == TypesOf(text)
<1>1. DOMAIN types = 1..Count(text) /\ (\A i \in 1..Count(text) : types[i] = Kind(text, i)) /\ Count(text) \in Nat
  BY TypesAre DEF HasWords
<1> HIDE DEF types
<1>2. n \in Readable(types) <=> n \in 1..Count(text) /\ IsMessage(types, 1, n)
  BY <1>1 DEF Readable
<1>3. ASSUME n \in 1..Count(text) PROVE IsMessage(types, 1, n) <=> KindFits(text, 1, n)
  <2>1. n \in Nat /\ 1 <= n
    BY <1>1, <1>3
  <2>2. IsMessage(types, 1, n) <=> Fits(types, 1, n)
    BY <2>1, MessageFits, FitsMessage
  <2>3. /\ types[1] = Kind(text, 1) /\ types[n] = Kind(text, n)
        /\ \A i \in 1 + 1..n : types[i] = Kind(text, i) /\ types[i - 1] = Kind(text, i - 1)
    <3>1. 1 \in 1..Count(text) /\ \A i \in 1 + 1..n : i \in 1..Count(text) /\ i - 1 \in 1..Count(text)
      BY <1>1, <1>3
    <3> QED BY <1>1, <1>3, <3>1
  <2>4. Fits(types, 1, n) <=> KindFits(text, 1, n)
    BY <2>3 DEF Fits, KindFits
  <2> QED BY <2>2, <2>4
<1> QED BY <1>2, <1>3 DEF types

LEMMA LongestIs ==
  ASSUME NEW text, HasWords(text), NEW e \in 1..Count(text), KindFits(text, 1, e),
         \A n \in e + 1..Count(text) : ~KindFits(text, 1, n)
  PROVE  Readable(TypesOf(text)) # {} /\ ReadTo(TypesOf(text)) = e
<1> DEFINE R == Readable(TypesOf(text))
<1>1. e \in R /\ \A n \in R : n \in 1..Count(text) /\ KindFits(text, 1, n)
  BY ReadableIs
<1>2. Count(text) \in Nat /\ e \in Nat
  BY DEF HasWords
<1> HIDE DEF R
<1>3. \A n \in R : n \in 0..Count(text) /\ n <= e
  <2>1. TAKE n \in R
  <2>2. n \in 1..Count(text) /\ n \notin e + 1..Count(text)
    BY <1>1
  <2> QED BY <1>2, <2>2
<1>4. R \in SUBSET (0..Count(text))
  BY <1>3
<1>5. Highest(R) \in R /\ \A j \in R : j <= Highest(R)
  BY <1>1, <1>2, <1>4, HighestIs
<1> DEFINE h == Highest(R)
<1> HIDE DEF h
<1>6. h = e
  <2>1. e <= h /\ h <= e /\ h \in 0..Count(text)
    BY <1>1, <1>3, <1>5 DEF h
  <2> QED BY <1>2, <2>1
<1> QED BY <1>1, <1>6 DEF ReadTo, R, h

LEMMA EndsThere ==
  ASSUME NEW text, HasWords(text), NEW e \in 1..StopsAt(text) - 1, EndsAt(text, e)
  PROVE  ReadTo(TypesOf(text)) = e /\ ~Refused(TypesOf(text))
<1> DEFINE types == TypesOf(text)  m == Count(text)
<1>1. /\ StopsAt(text) \in 1..m + 1 /\ m \in Nat /\ e \in 1..m /\ e \in Nat
      /\ StopsAt(text) # m + 1 => Kind(text, StopsAt(text)) = "unknown"
  <2>1. /\ StopsAt(text) \in 1..m + 1 /\ m \in Nat
        /\ StopsAt(text) # m + 1 => Kind(text, StopsAt(text)) = "unknown"
    BY StopIs DEF HasWords
  <2> QED BY <2>1
<1>2. ASSUME e < m PROVE Kind(text, e + 1) \notin Splits \cup {"identifier"}
  <2>1. CASE e + 1 = StopsAt(text)
    <3>1. Kind(text, e + 1) = "unknown"
      BY <1>1, <1>2, <2>1
    <3> QED BY <3>1 DEF Splits
  <2>2. CASE e + 1 # StopsAt(text)
    BY <2>2 DEF EndsAt, TypeAt
  <2> QED BY <2>1, <2>2
<1>3. ASSUME NEW n \in e + 1..m, KindFits(text, 1, n) PROVE FALSE
  <2>1. e + 1 \in 1 + 1..n /\ e < m /\ e + 1 - 1 = e
    BY <1>1
  <2>2. Goes(Kind(text, e), Kind(text, e + 1))
    <3> DEFINE p == e + 1
    <3>1. p \in 1 + 1..n /\ p - 1 = e
      BY <2>1
    <3> HIDE DEF p
    <3>2. Goes(Kind(text, p - 1), Kind(text, p))
      BY <1>3, <3>1 DEF KindFits
    <3> QED BY <3>1, <3>2 DEF p
  <2>3. Kind(text, e) \in Operands
    BY DEF EndsAt, KindFits
  <2> QED BY <1>2, <2>1, <2>2, <2>3 DEF Goes, Operands, Splits
<1>4. Readable(types) # {} /\ ReadTo(types) = e
  BY <1>1, <1>3, LongestIs DEF EndsAt
<1>5. ASSUME e < Len(types) PROVE types[e + 1] \notin {"binary", "keyword"}
  <2>1. Len(types) = m /\ \A i \in 1..m : types[i] = Kind(text, i)
    BY TypesAre
  <2>2. e + 1 \in 1..m /\ e < m
    BY <1>1, <1>5, <2>1
  <2> QED BY <1>2, <2>1, <2>2 DEF Splits
<1> HIDE DEF types
<1> QED BY <1>4, <1>5 DEF Refused, types

LEMMA StopsThere ==
  ASSUME NEW text, HasWords(text), NEW e \in 1..StopsAt(text) - 2, Stops(text, e)
  PROVE  Refused(TypesOf(text))
<1> DEFINE types == TypesOf(text)  m == Count(text)
<1>1. /\ StopsAt(text) \in 1..m + 1 /\ m \in Nat /\ e \in 1..m /\ e \in Nat /\ e + 1 \in 1..m /\ e < m
      /\ StopsAt(text) # m + 1 => Kind(text, StopsAt(text)) = "unknown"
      /\ e + 1 # StopsAt(text) /\ e + 2 <= StopsAt(text)
  <2>1. /\ StopsAt(text) \in 1..m + 1 /\ m \in Nat
        /\ StopsAt(text) # m + 1 => Kind(text, StopsAt(text)) = "unknown"
    BY StopIs DEF HasWords
  <2> QED BY <2>1
<1>2. Kind(text, e + 1) \in Splits
  BY <1>1 DEF Stops, TypeAt
<1>3. ASSUME NEW n \in e + 1..m, KindFits(text, 1, n) PROVE FALSE
  <2>1. CASE n = e + 1
    BY <1>2, <1>3, <2>1 DEF KindFits, Operands, Splits
  <2>2. CASE n # e + 1
    <3> DEFINE p == e + 2
    <3>1. p \in 1 + 1..n /\ p - 1 = e + 1 /\ p <= m
      BY <1>1, <2>2
    <3> HIDE DEF p
    <3>2. Goes(Kind(text, p - 1), Kind(text, p))
      BY <1>3, <3>1 DEF KindFits
    <3>3. Kind(text, p) \in Operands
      BY <1>2, <3>1, <3>2 DEF Goes, Operands, Splits
    <3>4. p = StopsAt(text)
      BY <3>3 DEF Stops, TypeAt, p
    <3>5. Kind(text, p) = "unknown"
      BY <1>1, <3>1, <3>4
    <3> QED BY <3>3, <3>5 DEF Operands
  <2> QED BY <2>1, <2>2
<1>4. Readable(types) # {} /\ ReadTo(types) = e
  <2>1. KindFits(text, 1, e)
    BY DEF Stops
  <2>2. \A n \in e + 1..Count(text) : ~KindFits(text, 1, n)
    BY <1>3
  <2> QED BY <1>1, <2>1, <2>2, LongestIs
<1>5. e < Len(types) /\ types[e + 1] \in {"binary", "keyword"}
  <2>1. Len(types) = m /\ \A i \in 1..m : types[i] = Kind(text, i)
    BY TypesAre
  <2> QED BY <1>1, <1>2, <2>1 DEF Splits
<1> HIDE DEF types
<1> QED BY <1>4, <1>5 DEF Refused, types

LEMMA NothingToRead ==
  ASSUME NEW text, HasWords(text), TypeAt(text, 1) \notin Operands
  PROVE  Refused(TypesOf(text))
<1>1. ASSUME NEW n \in 1..Count(text), KindFits(text, 1, n) PROVE FALSE
  <2>1. Kind(text, 1) \in Operands
    BY <1>1 DEF KindFits
  <2>2. 1 = StopsAt(text)
    BY <2>1 DEF TypeAt
  <2>3. StopsAt(text) # Count(text) + 1
    BY <1>1, <2>2 DEF HasWords
  <2>4. Kind(text, 1) = "unknown"
    BY <2>2, <2>3, StopIs
  <2> QED BY <2>1, <2>4 DEF Operands
<1>2. Readable(TypesOf(text)) = {}
  BY <1>1, ReadableIs
<1> QED BY <1>2 DEF Refused

\* Whatever words a text has that can be told apart, the tokenizer and the parser
\* (st-tokenize-all, st-parse-keyword-message) make of it the tree of the longest message
\* that it begins with, and abort when there is none or when an operator or a keyword
\* behind it has no operand.
THEOREM ParsesMessages ==
  ASSUME NEW text, WellWritten(text)
  PROVE  ParseSource(Spelled(text)) =
           IF Refused(Types(text.words)) THEN Aborted.node ELSE MessageOf(text, 1, ReadTo(Types(text.words)))
<1> DEFINE tokens == Tokenize(Spelled(text))  parse == ParseKeywordMessage(tokens, 1)
<1>1. HasWords(text)
  BY WellWrittenHasWords
<1>2. Tokened(text, tokens)
  BY <1>1, TokensAreWords
<1> HIDE DEF tokens
<1>3. ReadsSource(text, parse)
  BY <1>1, <1>2, SourceRead
<1>4. CASE parse = Aborted /\ (TypeAt(text, 1) \notin Operands \/ \E e \in 1..StopsAt(text) - 2 : Stops(text, e))
  <2>1. Refused(TypesOf(text))
    BY <1>1, <1>4, NothingToRead, StopsThere
  <2> QED BY <1>4, <2>1 DEF ParseSource, TypesOf, tokens
<1>5. ASSUME NEW e \in 1..StopsAt(text) - 1, parse = Parse(MessageOf(text, 1, e), e + 1), EndsAt(text, e)
      PROVE  ~Refused(TypesOf(text)) /\ parse.node = MessageOf(text, 1, ReadTo(TypesOf(text)))
  <2>1. parse.node = MessageOf(text, 1, e)
    BY <1>5 DEF Parse
  <2> QED BY <1>1, <1>5, <2>1, EndsThere
<1> QED BY <1>3, <1>4, <1>5 DEF ReadsSource, ParseSource, TypesOf, tokens

-----------------------------------------------------------------------------
(***************************************************************************)
(* The trees of texts are no higher than the texts are long.               *)
(***************************************************************************)
LEMMA NumbersAreNat ==
  ASSUME NEW digits, Len(digits) \in Nat, \A i \in 1..Len(digits) : digits[i] \in Digits
  PROVE  NumberOf(digits) \in Nat
<1> DEFINE N == Len(digits)
           then(i, x) == x * 10 + DigitValue[digits[i]]
           Is(n, f) == f = [i \in 0..n |-> IF i = 0 THEN 0 ELSE then(i, f[i - 1])]
           good == {n \in 0..N : \E f : Is(n, f)}
<1>1. N \in Nat
  OBVIOUS
<1>2. NumberOf(digits) = (CHOOSE f : Is(N, f))[N]
  BY DEF NumberOf
<1>10. \A i \in 1..N : DigitValue[digits[i]] \in 0..9
  <2>1. TAKE i \in 1..N
  <2> DEFINE c == digits[i]
  <2>2. c \in Digits
    OBVIOUS
  <2> HIDE DEF c
  <2>3. \E d \in 0..9 : <<"0", "1", "2", "3", "4", "5", "6", "7", "8", "9">>[d + 1] = c
    <3> DEFINE names == <<"0", "1", "2", "3", "4", "5", "6", "7", "8", "9">>
    <3>1. \E k \in 1..10 : names[k] = c
      <4>1. names[1] = "0" /\ names[2] = "1" /\ names[3] = "2" /\ names[4] = "3" /\ names[5] = "4"
        OBVIOUS
      <4>2. names[6] = "5" /\ names[7] = "6" /\ names[8] = "7" /\ names[9] = "8" /\ names[10] = "9"
        OBVIOUS
      <4>3. 1 \in 1..10 /\ 2 \in 1..10 /\ 3 \in 1..10 /\ 4 \in 1..10 /\ 5 \in 1..10 /\ 6 \in 1..10 /\ 7 \in 1..10 /\ 8 \in 1..10 /\ 9 \in 1..10 /\ 10 \in 1..10
        OBVIOUS
      <4> HIDE DEF names
      <4> QED BY <2>2, <4>1, <4>2, <4>3 DEF Digits
    <3> HIDE DEF names
    <3>2. PICK k \in 1..10 : names[k] = c
      BY <3>1
    <3>3. k - 1 \in 0..9 /\ k - 1 + 1 = k
      OBVIOUS
    <3>4. names[(k - 1) + 1] = c
      BY <3>2, <3>3
    <3> QED BY <3>3, <3>4 DEF names
  <2> DEFINE is(d) == <<"0", "1", "2", "3", "4", "5", "6", "7", "8", "9">>[d + 1] = c
  <2>4. DigitValue[c] = CHOOSE d \in 0..9 : is(d)
    BY <2>2 DEF DigitValue
  <2>5. \E d \in 0..9 : is(d)
    BY <2>3
  <2> HIDE DEF is
  <2> QED BY <2>4, <2>5 DEF c
<1> HIDE DEF N
<1> DEFINE value(i) == DigitValue[digits[i]]
<1>11. \A i \in 1..N : value(i) \in 0..9
  BY <1>10
<1> HIDE DEF value
<1>12. \A i : \A x : then(i, x) = x * 10 + value(i)
  BY DEF value
<1> HIDE DEF then
<1>3. 0 \in good
  <2> DEFINE g == [i \in 0..0 |-> 0]
  <2>1. Is(0, g)
    OBVIOUS
  <2> HIDE DEF g, Is
  <2> QED BY <1>1, <2>1
<1>4. ASSUME NEW n \in 0 + 1..N, n - 1 \in good PROVE n \in good
  <2>1. PICK f : Is(n - 1, f)
    BY <1>4
  <2> DEFINE g == [i \in 0..n |-> IF i = n THEN then(n, f[n - 1]) ELSE f[i]]
  <2>2. Is(n, g)
    BY <1>1, <2>1
  <2>3. n \in 0..N
    BY <1>1
  <2> HIDE DEF g, Is
  <2> QED BY <2>2, <2>3
<1>5. N \in good
  <2> HIDE DEF good
  <2>1. \A n \in 0..N : n \in good
    BY <1>1, <1>3, <1>4, Stepwise
  <2> QED BY <1>1, <2>1
<1> DEFINE f == CHOOSE h : Is(N, h)
<1>6. Is(N, f)
  BY <1>5
<1>7. NumberOf(digits) = f[N]
  BY <1>2
<1> HIDE DEF f
<1>8. f[0] = 0 /\ \A i \in 1..N : f[i] = f[i - 1] * 10 + value(i)
  BY <1>1, <1>6, <1>12
<1> DEFINE natural == {i \in 0..N : f[i] \in Nat}
<1>9. N \in natural
  <2>1. 0 \in natural
    BY <1>1, <1>8
  <2>2. ASSUME NEW n \in 0 + 1..N, n - 1 \in natural PROVE n \in natural
    <3>1. n \in 1..N /\ n \in 0..N /\ f[n] = f[n - 1] * 10 + value(n)
      BY <1>1, <1>8
    <3>2. f[n - 1] \in Nat /\ value(n) \in 0..9
      BY <1>11, <2>2, <3>1
    <3>3. \A x \in Nat, v \in 0..9 : x * 10 + v \in Nat
      OBVIOUS
    <3>4. f[n] \in Nat
      BY <3>1, <3>2, <3>3
    <3> QED BY <3>1, <3>4
  <2> HIDE DEF natural
  <2>3. \A n \in 0..N : n \in natural
    BY <1>1, <2>1, <2>2, Stepwise
  <2> QED BY <1>1, <2>3
<1>13. f[N] \in Nat
  BY <1>9
<1> QED BY <1>7, <1>13, Zenon

Leaves == {"number", "identifier"} \X Nat
Higher(trees) ==
  Leaves \cup ({"unary"} \X Nat \X trees) \cup ({"binary"} \X BinaryOps \X trees \X trees)
  \cup ({"keyword"} \X Seq(Nat) \X trees \X Seq(trees))

TreesBy(n, f) ==
  /\ f[0] = Leaves /\ \A i \in 1..n : f[i] = Higher(f[i - 1])
  /\ Trees(n) = f[n]

LEMMA TreesAre == ASSUME NEW N \in Nat PROVE \E f : TreesBy(N, f)
<1> DEFINE then(x) == Higher(x)
           first == Leaves
           Is(n, f) == f = [i \in 0..n |-> IF i = 0 THEN first ELSE then(f[i - 1])]
           good == {n \in 0..N : \E f : Is(n, f)}
<1>2. Trees(N) = (CHOOSE f : Is(N, f))[N]
  BY DEF Trees, Higher, Leaves
<1> HIDE DEF then, first
<1>3. 0 \in good
  <2> DEFINE g == [i \in 0..0 |-> first]
  <2>1. Is(0, g)
    OBVIOUS
  <2> HIDE DEF g, Is
  <2> QED BY <2>1
<1>4. ASSUME NEW n \in 0 + 1..N, n - 1 \in good PROVE n \in good
  <2>1. PICK f : Is(n - 1, f)
    BY <1>4
  <2> DEFINE g == [i \in 0..n |-> IF i = n THEN then(f[n - 1]) ELSE f[i]]
  <2>2. Is(n, g)
    BY <2>1
  <2>3. n \in 0..N
    OBVIOUS
  <2> HIDE DEF g, Is
  <2> QED BY <2>2, <2>3
<1>5. N \in good
  <2> HIDE DEF good
  <2>1. \A n \in 0..N : n \in good
    BY <1>3, <1>4, Stepwise
  <2> QED BY <2>1
<1> DEFINE f == CHOOSE h : Is(N, h)
<1>6. Is(N, f)
  BY <1>5
<1>7. Trees(N) = f[N]
  BY <1>2
<1> HIDE DEF f
<1>8. f[0] = first /\ \A n \in 1..N : f[n] = then(f[n - 1])
  BY <1>6
<1> QED BY <1>7, <1>8, Zenon DEF then, first, TreesBy

LEMMA TreesGrow == ASSUME NEW n \in Nat PROVE Trees(0) = Leaves /\ Trees(n + 1) = Higher(Trees(n))
<1>1. PICK f : TreesBy(n, f)
  BY TreesAre, Zenon
<1>2. n + 1 \in Nat
  OBVIOUS
<1>3. PICK g : TreesBy(n + 1, g)
  BY <1>2, TreesAre, Zenon
<1>4. PICK h : TreesBy(0, h)
  BY TreesAre
<1> DEFINE same == {i \in 0..n : f[i] = g[i]}
<1>5. 0 \in same
  BY <1>1, <1>3 DEF TreesBy
<1>6. ASSUME NEW i \in 0 + 1..n, i - 1 \in same PROVE i \in same
  <2>1. i \in 0..n /\ i \in 1..n /\ i \in 1..n + 1
    OBVIOUS
  <2> QED BY <1>1, <1>3, <1>6, <2>1 DEF TreesBy
<1>7. n \in same
  <2>1. \A i \in 0..n : i \in same
    <3> HIDE DEF same
    <3> QED BY <1>5, <1>6, Stepwise
  <2> QED BY <2>1
<1>8. g[n + 1] = Higher(g[n])
  <2> DEFINE p == n + 1
  <2>1. p \in 1..p /\ p - 1 = n
    OBVIOUS
  <2> HIDE DEF p
  <2>2. TreesBy(p, g)
    BY <1>3 DEF p
  <2>3. g[p] = Higher(g[p - 1])
    BY <2>1, <2>2 DEF TreesBy
  <2> QED BY <2>1, <2>3 DEF p
<1> QED BY <1>1, <1>3, <1>4, <1>7, <1>8 DEF TreesBy

LEMMA HigherTrees == ASSUME NEW A, NEW B, A \subseteq B PROVE Higher(A) \subseteq Higher(B)
<1>1. Seq(A) \subseteq Seq(B)
  BY SeqMonotonic, Zenon
<1>2. {"unary"} \X Nat \X A \subseteq {"unary"} \X Nat \X B
  OBVIOUS
<1>3. {"binary"} \X BinaryOps \X A \X A \subseteq {"binary"} \X BinaryOps \X B \X B
  OBVIOUS
<1>4. {"keyword"} \X Seq(Nat) \X A \X Seq(A) \subseteq {"keyword"} \X Seq(Nat) \X B \X Seq(B)
  <2> DEFINE N == Seq(Nat)  S == Seq(A)  T == Seq(B)
  <2> HIDE DEF N, S, T
  <2>1. S \subseteq T
    BY <1>1 DEF S, T
  <2>2. {"keyword"} \X N \X A \X S \subseteq {"keyword"} \X N \X B \X T
    BY <2>1
  <2> QED BY <2>2 DEF N, S, T
<1> QED BY <1>2, <1>3, <1>4, Zenon DEF Higher

LEMMA TreesUp == ASSUME NEW n \in Nat, NEW m \in 0..n PROVE Trees(m) \subseteq Trees(n)
<1> DEFINE up == {i \in 0..n : Trees(i) \subseteq Trees(i + 1)}
<1>1. 0 \in up
  <2>1. Trees(0) = Leaves /\ Trees(0 + 1) = Higher(Trees(0))
    BY TreesGrow
  <2> QED BY <2>1 DEF Higher
<1>2. ASSUME NEW i \in 0 + 1..n, i - 1 \in up PROVE i \in up
  <2> DEFINE p == i - 1
  <2>1. p \in Nat /\ p + 1 = i /\ i \in Nat /\ i \in 0..n
    OBVIOUS
  <2>2. Trees(p) \subseteq Trees(p + 1)
    BY <1>2
  <2> HIDE DEF p
  <2>3. Higher(Trees(p)) \subseteq Higher(Trees(p + 1))
    BY <2>2, HigherTrees
  <2>4. Trees(p + 1) = Higher(Trees(p)) /\ Trees(i + 1) = Higher(Trees(i))
    BY <2>1, TreesGrow
  <2> QED BY <2>1, <2>3, <2>4
<1>3. \A i \in 0..n : Trees(i) \subseteq Trees(i + 1)
  <2>1. \A i \in 0..n : i \in up
    <3> HIDE DEF up
    <3> QED BY <1>1, <1>2, Stepwise
  <2> QED BY <2>1
<1> DEFINE above == {i \in m..n : Trees(m) \subseteq Trees(i)}
<1>4. m \in Nat /\ m <= n
  OBVIOUS
<1>5. m \in above
  OBVIOUS
<1>6. ASSUME NEW i \in m + 1..n, i - 1 \in above PROVE i \in above
  <2> DEFINE p == i - 1
  <2>1. p \in 0..n /\ p + 1 = i /\ i \in m..n
    BY <1>4
  <2>2. Trees(m) \subseteq Trees(p)
    BY <1>6
  <2> HIDE DEF p
  <2>3. Trees(p) \subseteq Trees(i)
    BY <1>3, <2>1
  <2> QED BY <2>1, <2>2, <2>3
<1>7. \A i \in m..n : i \in above
  <2> HIDE DEF above
  <2> QED BY <1>4, <1>5, <1>6, Stepwise
<1> QED BY <1>4, <1>7

LEMMA StartsAre ==
  ASSUME NEW text, HasWords(text), NEW i \in 1..Count(text)
  PROVE  StartOf(text, i) \in Nat /\ StartOf(text, i) >= i - 1
<1> DEFINE far == {n \in 1..Count(text) : StartOf(text, n) \in Nat /\ StartOf(text, n) >= n - 1}
<1>1. Count(text) \in Nat /\ text.margin \in Nat
  BY DEF HasWords
<1>2. ASSUME NEW n \in 1..Count(text) PROVE StartOf(text, n) \in Nat
  <2> DEFINE k == n - 1
  <2>1. k \in 0..Count(text) /\ k + 1 = n
    BY <1>1
  <2> HIDE DEF k
  <2>2. SpelledTo(text, k) \in Seq(Signs) /\ StartOf(text, k + 1) = Len(SpelledTo(text, k))
    BY <2>1, SpelledEnds DEF Spells
  <2>3. Len(SpelledTo(text, k)) \in Nat
    BY <2>2, LenProperties
  <2> QED BY <2>1, <2>2, <2>3
<1>3. 1 <= Count(text) => 1 \in far
  <2>1. 1 - 1 = 0
    OBVIOUS
  <2> QED BY <1>2, <2>1
<1>4. ASSUME NEW n \in 1 + 1..Count(text), n - 1 \in far PROVE n \in far
  <2> DEFINE k == n - 1
  <2>1. k \in 1..Count(text) /\ k \in 0..Count(text) /\ k + 1 = n /\ k # 0 /\ n \in 1..Count(text) /\ k \in Nat
    BY <1>1
  <2>2. StartOf(text, k) \in Nat /\ StartOf(text, k) >= k - 1
    BY <1>4
  <2>3. n \in far <=> StartOf(text, n) >= k
    BY <1>1, <1>2, <2>1
  <2> HIDE DEF k
  <2>4. StartOf(text, k + 1) = StartOf(text, k) + Len(Word(text, k)) + text.gaps[k]
    BY <2>1, SpelledEnds DEF Spells, WordEnd
  <2>5. Len(Word(text, k)) \in Nat \ {0} /\ text.gaps[k] \in Nat
    BY <2>1 DEF HasWords
  <2> DEFINE s == StartOf(text, k)  w == Len(Word(text, k))  g == text.gaps[k]
  <2>6. s \in Nat /\ s >= k - 1 /\ w \in Nat \ {0} /\ g \in Nat /\ StartOf(text, n) = s + w + g
    BY <2>1, <2>2, <2>4, <2>5
  <2> HIDE DEF s, w, g, far
  <2>7. s + w + g >= k
    BY <2>1, <2>6
  <2> QED BY <2>3, <2>6, <2>7
<1>5. \A n \in 1..Count(text) : n \in far
  <2> HIDE DEF far
  <2> QED BY <1>1, <1>3, <1>4, Stepwise
<1> QED BY <1>5

LEMMA WordsTakeRoom == ASSUME NEW text, HasWords(text) PROVE Len(Spelled(text)) \in Nat /\ Count(text) <= Len(Spelled(text))
<1> DEFINE m == Count(text)
<1>1. m \in Nat /\ m \in 0..m
  BY DEF HasWords
<1>2. /\ Spelled(text) \in Seq(Signs)
      /\ Len(Spelled(text)) = WordEnd(text, m) + (IF m = 0 THEN text.margin ELSE text.gaps[m])
  <2>1. Spells(text, m)
    BY <1>1, SpelledEnds
  <2>2. Spelled(text) = SpelledTo(text, m)
    BY DEF Spelled, Count
  <2> QED BY <2>1, <2>2 DEF Spells
<1>3. Len(Spelled(text)) \in Nat
  BY <1>2, LenProperties
<1>4. CASE m = 0
  BY <1>3, <1>4
<1>5. CASE m # 0
  <2>1. m \in 1..m
    BY <1>1, <1>5
  <2>2. StartOf(text, m) \in Nat /\ StartOf(text, m) >= m - 1
    BY <2>1, StartsAre
  <2>3. Len(Word(text, m)) \in Nat \ {0} /\ text.gaps[m] \in Nat
    BY <2>1 DEF HasWords
  <2>4. Len(Spelled(text)) = StartOf(text, m) + Len(Word(text, m)) + text.gaps[m]
    BY <1>2, <1>5 DEF WordEnd
  <2> DEFINE s == StartOf(text, m)  w == Len(Word(text, m))  g == text.gaps[m]  l == Len(Spelled(text))
  <2>5. s \in Nat /\ s >= m - 1 /\ w \in Nat \ {0} /\ g \in Nat /\ l = s + w + g
    BY <2>2, <2>3, <2>4
  <2> HIDE DEF s, w, g, l, m
  <2>6. m <= l
    BY <1>1, <2>5
  <2> QED BY <1>3, <2>6 DEF l, m
<1> QED BY <1>4, <1>5

LEMMA OperandTree == ASSUME NEW text, HasWords(text), NEW i \in 1..Count(text) PROVE OperandAt(text, i) \in Leaves
<1>1. CASE Kind(text, i) = "number"
  <2>1. KnownWord(Word(text, i), "number")
    BY <1>1, WordsKnown
  <2>2. NumberWord(Word(text, i)) /\ Len(Word(text, i)) \in Nat
    BY <2>1 DEF KnownWord, HasWords
  <2>3. NumberOf(Word(text, i)) \in Nat
    BY <2>2, NumbersAreNat DEF NumberWord
  <2> QED BY <1>1, <2>3 DEF OperandAt, Leaves, Kind, Word
<1>2. CASE Kind(text, i) # "number"
  <2>1. StartOf(text, i) \in Nat
    BY StartsAre
  <2> QED BY <1>2, <2>1 DEF OperandAt, Leaves, Kind, Word
<1> QED BY <1>1, <1>2

LEMMA UnaryTree ==
  ASSUME NEW text, HasWords(text), NEW a \in 1..Count(text), NEW b \in a..Count(text)
  PROVE  UnaryOf(text, a, b) \in Trees(b - a)
<1> DEFINE m == Count(text)  good == {i \in a..m : UnaryOf(text, a, i) \in Trees(i - a)}
<1>1. m \in Nat /\ a \in Nat /\ a <= m
  BY DEF HasWords
<1>2. a \in good
  <2>1. a - a = 0
    BY <1>1
  <2>2. UnaryOf(text, a, a) \in Trees(0)
    BY OperandTree, UnaryIs, TreesGrow
  <2> QED BY <1>1, <2>1, <2>2
<1>3. ASSUME NEW i \in a + 1..m, i - 1 \in good PROVE i \in good
  <2> DEFINE n == (i - 1) - a  u == UnaryOf(text, a, i - 1)
  <2>1. n \in Nat /\ i - a = n + 1 /\ i \in a..m /\ i \in 1..m /\ i \in a + 1..m
    BY <1>1
  <2>2. u \in Trees(n)
    BY <1>3
  <2>3. UnaryOf(text, a, i) = <<"unary", StartOf(text, i), u>>
    BY <2>1, UnaryIs
  <2>4. StartOf(text, i) \in Nat
    BY <2>1, StartsAre
  <2>5. Trees(n + 1) = Higher(Trees(n))
    BY <2>1, TreesGrow
  <2> HIDE DEF n, u
  <2>6. UnaryOf(text, a, i) \in Higher(Trees(n))
    <3>1. UnaryOf(text, a, i) \in {"unary"} \X Nat \X Trees(n)
      BY <2>2, <2>3, <2>4
    <3> QED BY <3>1, Zenon DEF Higher
  <2> QED BY <2>1, <2>5, <2>6
<1>4. \A i \in a..m : i \in good
  <2> HIDE DEF good
  <2> QED BY <1>1, <1>2, <1>3, Stepwise
<1> QED BY <1>4

LEMMA BinaryTree ==
  ASSUME NEW text, HasWords(text), NEW e \in 1..Count(text), KindFits(text, 1, e),
         NEW a \in 1..e, Kind(text, a) \in Operands, NEW b \in a..e, Kind(text, b) \in Operands
  PROVE  BinaryOf(text, a, b) \in Trees(b - a)
<1> DEFINE good == {i \in a..e : Kind(text, i) \in Operands => BinaryOf(text, a, i) \in Trees(i - a)}
<1>1. Count(text) \in Nat /\ a \in Nat /\ a <= e /\ e \in Nat /\ a \in 1..Count(text) /\ Kind(text, a) # "binary"
  BY DEF HasWords, Operands
<1>2. ASSUME NEW i \in a..e, \A j \in a..i - 1 : j \in good PROVE i \in good
  <2> SUFFICES ASSUME Kind(text, i) \in Operands PROVE BinaryOf(text, a, i) \in Trees(i - a)
    OBVIOUS
  <2>1. i \in a..Count(text) /\ i \in Nat
    BY <1>1
  <2> DEFINE o == SplitAt(text, a, i)
  <2>2. BinaryOf(text, a, i) = IF OperatorsTo(text, a, i) = {} THEN UnaryOf(text, a, i)
                               ELSE <<"binary", Word(text, o)[1], BinaryOf(text, a, o - 1), UnaryOf(text, o + 1, i)>>
    BY <1>1, <2>1, BinaryIs
  <2>3. CASE OperatorsTo(text, a, i) = {}
    BY <1>1, <2>1, <2>2, <2>3, UnaryTree
  <2>4. CASE OperatorsTo(text, a, i) # {}
    <3>1. o \in a + 1..i /\ Kind(text, o) = "binary"
      BY <1>1, <2>1, <2>4, LastOperator
    <3> HIDE DEF o
    <3>2. o # i /\ o \in 1 + 1..e
      BY <1>1, <3>1 DEF Operands
    <3>3. Goes(Kind(text, o - 1), Kind(text, o))
      BY <3>2 DEF KindFits
    <3>4. Kind(text, o - 1) \in Operands
      BY <3>1, <3>3 DEF Goes
    <3> DEFINE p == o - 1  q == o + 1  n == i - a - 1
    <3>5. /\ p \in a..i - 1 /\ p \in a..e /\ q \in 1..Count(text) /\ i \in q..Count(text) /\ n \in Nat /\ i - a = n + 1
          /\ p - a \in 0..n /\ i - q \in 0..n /\ o \in 1..Count(text)
      BY <1>1, <2>1, <3>1, <3>2
    <3>6. BinaryOf(text, a, p) \in Trees(p - a)
      BY <1>2, <3>4, <3>5
    <3>7. UnaryOf(text, q, i) \in Trees(i - q)
      <4> HIDE DEF q
      <4> QED BY <3>5, UnaryTree
    <3>8. Trees(p - a) \subseteq Trees(n) /\ Trees(i - q) \subseteq Trees(n) /\ Trees(n + 1) = Higher(Trees(n))
      <4> DEFINE x == p - a  y == i - q
      <4>1. x \in 0..n /\ y \in 0..n /\ n \in Nat
        BY <3>5
      <4> HIDE DEF x, y, n
      <4>2. Trees(x) \subseteq Trees(n) /\ Trees(y) \subseteq Trees(n) /\ Trees(n + 1) = Higher(Trees(n))
        BY <4>1, TreesUp, TreesGrow
      <4> QED BY <4>2 DEF x, y
    <3>9. Word(text, o)[1] \in BinaryOps
      <4>1. KnownWord(Word(text, o), "binary")
        BY <3>1, <3>5, WordsKnown
      <4> QED BY <4>1 DEF KnownWord
    <3> DEFINE left == BinaryOf(text, a, p)  right == UnaryOf(text, q, i)  c == Word(text, o)[1]
    <3>10. BinaryOf(text, a, i) = <<"binary", c, left, right>>
      BY <2>2, <2>4
    <3>11. left \in Trees(n) /\ right \in Trees(n) /\ c \in BinaryOps
      BY <3>6, <3>7, <3>8, <3>9
    <3> HIDE DEF left, right, c, n, p, q
    <3>12. BinaryOf(text, a, i) \in {"binary"} \X BinaryOps \X Trees(n) \X Trees(n)
      BY <3>10, <3>11
    <3>13. BinaryOf(text, a, i) \in Higher(Trees(n))
      BY <3>12, Zenon DEF Higher
    <3> QED BY <3>5, <3>8, <3>13
  <2> QED BY <2>3, <2>4
<1>3. \A i \in a..e : i \in good
  <2> HIDE DEF good
  <2> QED BY <1>1, <1>2, Upwards
<1> QED BY <1>3

LEMMA InOrderIn ==
  ASSUME NEW S, NEW values, NEW N \in Nat, \A i \in DOMAIN values : values[i] \in S
  PROVE  InOrder(values, N) \in Seq(S)
<1> DEFINE of(i) == IF i \in DOMAIN values THEN <<values[i]>> ELSE <<>>
<1>1. PICK f : OrderedBy(values, N, f)
  BY InOrderIs, Zenon
<1>2. f[0] = <<>> /\ \A i \in 1..N : f[i] = f[i - 1] \o of(i)
  BY <1>1 DEF OrderedBy
<1>3. \A i : of(i) \in Seq(S)
  <2>1. <<>> \in Seq(S)
    BY EmptySeq
  <2>2. \A x \in S : <<x>> \in Seq(S)
    OBVIOUS
  <2> QED BY <2>1, <2>2
<1> HIDE DEF of
<1> DEFINE good == {i \in 0..N : f[i] \in Seq(S)}
<1>4. 0 \in good
  <2>1. <<>> \in Seq(S)
    BY EmptySeq
  <2>2. f[0] \in Seq(S)
    BY <1>2, <2>1, Zenon
  <2> QED BY <2>2
<1>5. ASSUME NEW n \in 0 + 1..N, n - 1 \in good PROVE n \in good
  <2>1. n \in 0..N /\ n \in 1..N /\ f[n] = f[n - 1] \o of(n)
    BY <1>2
  <2>2. f[n - 1] \in Seq(S) /\ of(n) \in Seq(S)
    BY <1>3, <1>5
  <2>3. f[n] \in Seq(S)
    BY <2>1, <2>2, ConcatProperties
  <2> QED BY <2>1, <2>3
<1>6. \A n \in 0..N : n \in good
  <2> HIDE DEF good
  <2> QED BY <1>4, <1>5, Stepwise
<1> QED BY <1>1, <1>6 DEF OrderedBy

\* The argument of a keyword lies between operands.
LEMMA ArgumentAt ==
  ASSUME NEW text, HasWords(text), NEW e \in 1..Count(text), KindFits(text, 1, e), NEW i \in Keywords(text, e)
  PROVE  LET q == Behind(Keywords(text, e), i, e)
         IN /\ i \in 2..e - 1 /\ Kind(text, i - 1) \in Operands /\ Kind(text, i + 1) \in Operands
            /\ q - 1 \in i + 1..e /\ Kind(text, q - 1) \in Operands /\ NoKeyword(text, i + 1, q - 1)
<1> DEFINE K == Keywords(text, e)  q == Behind(K, i, e)
<1>1. /\ Count(text) \in Nat /\ e \in Nat /\ e \in 0..Count(text)
      /\ 1 \in 1..e /\ Kind(text, 1) \in Operands /\ Kind(text, e) \in Operands
  BY DEF HasWords, KindFits
<1>2. K \in SUBSET (1..e) /\ \A j \in 1..e : j \in K <=> Kind(text, j) = "keyword"
  BY <1>1, KeywordsAre
<1>3. i \in K
  OBVIOUS
<1> HIDE DEF K
<1>4. ASSUME NEW k \in K PROVE k \in 2..e - 1 /\ Kind(text, k - 1) \in Operands /\ Kind(text, k + 1) \in Operands
  <2>1. k \in 1..e /\ Kind(text, k) = "keyword" /\ k # 1 /\ k # e
    BY <1>1, <1>2 DEF Operands
  <2>2. k \in 1 + 1..e /\ k \in 2..e - 1
    BY <1>1, <2>1
  <2>3. Goes(Kind(text, k - 1), Kind(text, k))
    BY <2>2 DEF KindFits
  <2>4. Goes(Kind(text, k), Kind(text, k + 1))
    <3> DEFINE p == k + 1
    <3>1. p \in 1 + 1..e /\ p - 1 = k
      BY <1>1, <2>2
    <3> HIDE DEF p
    <3>2. Goes(Kind(text, p - 1), Kind(text, p))
      BY <3>1 DEF KindFits
    <3> QED BY <3>1, <3>2 DEF p
  <2> QED BY <2>1, <2>2, <2>3, <2>4 DEF Goes, Operands, Splits
<1>5. i \in 2..e - 1 /\ Kind(text, i - 1) \in Operands /\ Kind(text, i + 1) \in Operands
  BY <1>3, <1>4
<1>6. q \in K \cup {e + 1} /\ q \in i + 1..e + 1 /\ \A j \in K : j > i => q <= j
  <2>1. i \in 1 - 1..e
    BY <1>1, <1>5
  <2> QED BY <1>1, <1>2, <2>1, BehindIs
<1> HIDE DEF q
<1>7. Kind(text, q - 1) \in Operands
  <2>1. CASE q = e + 1
    <3>1. q - 1 = e
      BY <1>1, <2>1
    <3> QED BY <1>1, <3>1
  <2>2. CASE q \in K
    BY <1>4, <2>2
  <2> QED BY <1>6, <2>1, <2>2
<1>8. q # i + 1
  <2>1. CASE q = e + 1
    BY <1>1, <1>5, <2>1
  <2>2. CASE q \in K
    BY <1>2, <1>5, <2>2 DEF Operands
  <2> QED BY <1>6, <2>1, <2>2
<1>9. q - 1 \in i + 1..e
  BY <1>1, <1>5, <1>6, <1>8
<1>10. NoKeyword(text, i + 1, q - 1)
  <2>1. \A j \in i + 1..q - 1 : j \in 1..e /\ j > i /\ ~(q <= j)
    BY <1>1, <1>5, <1>6
  <2> QED BY <1>2, <1>6, <2>1 DEF NoKeyword
<1> QED BY <1>5, <1>7, <1>9, <1>10 DEF q, K

LEMMA MessageTree ==
  ASSUME NEW text, HasWords(text), NEW e \in 1..Count(text), KindFits(text, 1, e)
  PROVE  MessageOf(text, 1, e) \in Trees(e)
<1> DEFINE K == Keywords(text, e)  low == Lowest(K)
           names == InOrder(NamesTo(text, e), e)  arguments == InOrder(ArgumentsTo(text, e), e)
           n == e - 1
<1>1. /\ Count(text) \in Nat /\ e \in Nat /\ e \in 0..Count(text) /\ n \in Nat /\ n + 1 = e
      /\ 1 \in 1..e /\ Kind(text, 1) \in Operands /\ Kind(text, e) \in Operands
  BY DEF HasWords, KindFits
<1>2. K \in SUBSET (1..e) /\ \A i \in 1..e : i \in K <=> Kind(text, i) = "keyword"
  BY <1>1, KeywordsAre
<1>3. MessageOf(text, 1, e) = IF K = {} THEN BinaryOf(text, 1, e) ELSE <<"keyword", names, BinaryOf(text, 1, low - 1), arguments>>
  BY DEF MessageOf, Keywords, NamesTo, ArgumentsTo, TypesOf
<1>4. \A m \in 0..n : Trees(m) \subseteq Trees(n)
  <2> HIDE DEF n
  <2> QED BY <1>1, TreesUp
<1>5. Trees(e) = Higher(Trees(n)) /\ Trees(n) \subseteq Trees(e)
  <2> HIDE DEF n
  <2>1. Trees(e) = Higher(Trees(n))
    BY <1>1, TreesGrow
  <2>2. n \in 0..e
    BY <1>1
  <2> QED BY <1>1, <2>1, <2>2, TreesUp
<1> HIDE DEF K
<1>6. CASE K = {}
  <2>1. BinaryOf(text, 1, e) \in Trees(e - 1)
    BY <1>1, BinaryTree
  <2> QED BY <1>3, <1>5, <1>6, <2>1
<1>7. CASE K # {}
  <2>1. low \in K /\ \A j \in K : low <= j
    <3>1. \A j \in K : j \in Nat
      BY <1>2
    <3>2. K \in SUBSET Nat
      BY <3>1
    <3> QED BY <1>7, <3>2, LowestIs
  <2> HIDE DEF low
  <2>2. ASSUME NEW i \in K
        PROVE  LET q == Behind(K, i, e)
               IN /\ i \in 2..e - 1 /\ Kind(text, i - 1) \in Operands /\ Kind(text, i + 1) \in Operands
                  /\ q - 1 \in i + 1..e /\ Kind(text, q - 1) \in Operands
    BY ArgumentAt DEF K
  <2>3. BinaryOf(text, 1, low - 1) \in Trees(n)
    <3> DEFINE p == low - 1
    <3>1. low \in 2..e - 1 /\ Kind(text, p) \in Operands
      BY <2>1, <2>2
    <3>2. p \in 1..e /\ p - 1 \in 0..n
      BY <1>1, <3>1
    <3> HIDE DEF p, n
    <3>3. BinaryOf(text, 1, p) \in Trees(p - 1)
      BY <1>1, <3>1, <3>2, BinaryTree
    <3> QED BY <1>4, <3>2, <3>3 DEF p
  <2>4. ASSUME NEW i \in K PROVE BinaryOf(text, i + 1, Behind(K, i, e) - 1) \in Trees(n)
    <3> DEFINE a == i + 1  b == Behind(K, i, e) - 1
    <3>1. i \in 2..e - 1 /\ Kind(text, a) \in Operands /\ Kind(text, b) \in Operands /\ b \in a..e
      BY <2>2
    <3>2. a \in 1..e /\ b - a \in 0..n
      BY <1>1, <3>1
    <3> HIDE DEF a, b, n
    <3>3. BinaryOf(text, a, b) \in Trees(b - a)
      BY <3>1, <3>2, BinaryTree
    <3> QED BY <1>4, <3>2, <3>3 DEF a, b
  <2>5. names \in Seq(Nat)
    <3>1. \A i \in K : StartOf(text, i) \in Nat
      <4>1. \A i \in K : i \in 1..Count(text)
        BY <1>1, <1>2
      <4> QED BY <4>1, StartsAre
    <3>2. \A i \in DOMAIN NamesTo(text, e) : NamesTo(text, e)[i] \in Nat
      BY <3>1 DEF NamesTo, K
    <3> QED BY <1>1, <3>2, InOrderIn
  <2>6. arguments \in Seq(Trees(n))
    <3> HIDE DEF n
    <3>1. \A i \in DOMAIN ArgumentsTo(text, e) : ArgumentsTo(text, e)[i] \in Trees(n)
      BY <2>4 DEF ArgumentsTo, K
    <3> QED BY <1>1, <3>1, InOrderIn
  <2> DEFINE receiver == BinaryOf(text, 1, low - 1)  trees == Trees(n)  N == Seq(Nat)  A == Seq(trees)
  <2>7. MessageOf(text, 1, e) = <<"keyword", names, receiver, arguments>> /\ names \in N /\ receiver \in trees /\ arguments \in A
    BY <1>3, <1>7, <2>3, <2>5, <2>6
  <2> HIDE DEF names, arguments, receiver, trees, N, A
  <2>8. MessageOf(text, 1, e) \in {"keyword"} \X N \X trees \X A
    BY <2>7
  <2>9. MessageOf(text, 1, e) \in {"keyword"} \X Seq(Nat) \X trees \X Seq(trees)
    BY <2>8 DEF N, A
  <2>10. MessageOf(text, 1, e) \in Higher(trees)
    BY <2>9, Zenon DEF Higher
  <2> QED BY <1>5, <2>10 DEF trees
<1> QED BY <1>6, <1>7

\* What the parser makes of a text is a tree, lower than the text is long; or it aborts.
LEMMA SourceTree ==
  ASSUME NEW text, WellWritten(text), ParseSource(Spelled(text)) # Aborted.node
  PROVE  ParseSource(Spelled(text)) \in Trees(Len(Spelled(text))) /\ Len(Spelled(text)) \in Nat
<1> DEFINE tokens == Tokenize(Spelled(text))  parse == ParseKeywordMessage(tokens, 1)
<1>1. HasWords(text)
  BY WellWrittenHasWords
<1>2. Tokened(text, tokens)
  BY <1>1, TokensAreWords
<1> HIDE DEF tokens
<1>3. ReadsSource(text, parse)
  BY <1>1, <1>2, SourceRead
<1>4. parse.node = ParseSource(Spelled(text))
  BY DEF ParseSource, tokens
<1> HIDE DEF parse
<1>5. PICK e \in 1..StopsAt(text) - 1 : parse = Parse(MessageOf(text, 1, e), e + 1) /\ EndsAt(text, e)
  <2>1. parse # Aborted
    BY <1>4
  <2> QED BY <1>3, <2>1 DEF ReadsSource
<1>6. e \in 1..Count(text) /\ e \in Nat /\ Count(text) \in Nat /\ KindFits(text, 1, e)
  <2>1. StopsAt(text) \in 1..Count(text) + 1 /\ Count(text) \in Nat
    BY <1>1, StopIs DEF HasWords
  <2> QED BY <1>5, <2>1 DEF EndsAt
<1>7. parse.node = MessageOf(text, 1, e)
  BY <1>5 DEF Parse
<1>8. MessageOf(text, 1, e) \in Trees(e)
  BY <1>1, <1>6, MessageTree
<1> DEFINE l == Len(Spelled(text))
<1>9. l \in Nat /\ e \in 0..l
  <2>1. l \in Nat /\ Count(text) <= l
    BY <1>1, WordsTakeRoom
  <2> HIDE DEF l
  <2> QED BY <1>6, <2>1
<1>10. Trees(e) \subseteq Trees(l)
  <2> HIDE DEF l
  <2> QED BY <1>9, TreesUp
<1> QED BY <1>4, <1>7, <1>8, <1>9, <1>10
=============================================================================
