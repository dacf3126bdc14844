-------------------------- MODULE LispReader_proofs --------------------------
(***************************************************************************)
(* Proofs that the Lisp parser reads what is written and refuses the rest, *)
(* for every text: of any length, with any words, however deep its lists.  *)
(***************************************************************************)
EXTENDS LispReader, SequenceTheorems, WellFoundedInduction, TLAPS

\* Induction over a stretch of the numbers.
LEMMA Upwards ==
  ASSUME NEW a \in Nat, NEW N \in Nat, NEW S,
         \A k \in a..N : (\A j \in a..k - 1 : j \in S) => k \in S
  PROVE  \A k \in a..N : k \in S
<1> DEFINE fails == {k \in a..N : k \notin S}
<1>1. SUFFICES ASSUME fails # {} PROVE FALSE
  OBVIOUS
<1>2. fails \in SUBSET Nat
  OBVIOUS
<1>3. PICK k \in fails : \A j \in fails : ~(<<j, k>> \in OpToRel(<, Nat))
  <2> HIDE DEF fails
  <2> QED BY <1>1, <1>2, WFMin, NatLessThanWellFounded, Zenon
<1>4. k \in a..N /\ k \notin S /\ \A j \in fails : ~(j < k)
  <2> HIDE DEF fails
  <2>1. \A j \in fails : j \in Nat /\ k \in Nat
    BY <1>2
  <2>2. \A j \in fails : ~(j < k)
    BY <1>3, <2>1, Zenon DEF OpToRel
  <2>3. k \in fails
    OBVIOUS
  <2> QED BY <2>2, <2>3 DEF fails
<1>5. \A j \in a..k - 1 : j \in S
  BY <1>4
<1> QED BY <1>4, <1>5

LEMMA Stepwise ==
  ASSUME NEW a \in Nat, NEW N \in Nat, NEW S, a <= N => a \in S, \A k \in a + 1..N : k - 1 \in S => k \in S
  PROVE  \A k \in a..N : k \in S
<1>1. ASSUME NEW k \in a..N, \A j \in a..k - 1 : j \in S PROVE k \in S
  <2>1. CASE k = a
    BY <2>1
  <2>2. CASE k # a
    <3>1. k \in a + 1..N /\ k - 1 \in a..k - 1
      BY <2>2
    <3> QED BY <1>1, <3>1
  <2> QED BY <2>1, <2>2
<1> QED BY <1>1, Upwards, Zenon

LEMMA LowestIs ==
  ASSUME NEW S \in SUBSET Nat, S # {}
  PROVE  Lowest(S) \in S /\ \A j \in S : Lowest(S) <= j
<1>1. PICK x \in S : \A y \in S : ~(<<y, x>> \in OpToRel(<, Nat))
  BY WFMin, NatLessThanWellFounded, Zenon
<1>2. \A y \in S : y \in Nat /\ x \in Nat
  OBVIOUS
<1>3. \A y \in S : ~(y < x)
  BY <1>1, <1>2, Zenon DEF OpToRel
<1>4. \A y \in S : x <= y
  BY <1>3
<1> QED BY <1>4 DEF Lowest

LEMMA HighestIs ==
  ASSUME NEW N \in Nat, NEW S \in SUBSET (0..N), S # {}
  PROVE  Highest(S) \in S /\ \A j \in S : j <= Highest(S)
<1> DEFINE T == {n \in Nat : \E s \in S : s + n = N}
<1>1. T \in SUBSET Nat /\ T # {}
  <2>1. PICK s \in S : TRUE
    OBVIOUS
  <2>2. s \in 0..N /\ N - s \in Nat /\ s + (N - s) = N
    OBVIOUS
  <2> QED BY <2>2
<1>2. Lowest(T) \in T /\ \A j \in T : Lowest(T) <= j
  <2> HIDE DEF T
  <2> QED BY <1>1, LowestIs
<1>3. PICK x \in S : x + Lowest(T) = N
  BY <1>2
<1>4. \A y \in S : y <= x
  <2>1. TAKE y \in S
  <2>2. y \in 0..N /\ N - y \in T /\ x \in 0..N
    OBVIOUS
  <2>3. Lowest(T) <= N - y
    <3> HIDE DEF T
    <3> QED BY <1>2, <2>2
  <2>4. Lowest(T) \in Nat
    BY <1>2
  <2> HIDE DEF T
  <2> QED BY <1>3, <2>2, <2>3, <2>4
<1> QED BY <1>4 DEF Highest

LEMMA Downwards ==
  ASSUME NEW a \in Nat, NEW N \in Nat, NEW S,
         \A k \in a..N : (\A j \in k + 1..N : j \in S) => k \in S
  PROVE  \A k \in a..N : k \in S
<1> DEFINE T == {m \in Nat : a + m <= N => N - m \in S}
<1>1. ASSUME NEW m \in 0..N, \A j \in 0..m - 1 : j \in T PROVE m \in T
  <2>1. SUFFICES ASSUME a + m <= N PROVE N - m \in S
    OBVIOUS
  <2>2. N - m \in a..N
    BY <2>1
  <2>3. ASSUME NEW j \in N - m + 1..N PROVE j \in S
    <3>1. N - j \in 0..m - 1 /\ a + (N - j) <= N /\ N - (N - j) = j
      BY <2>1
    <3>2. N - j \in T
      BY <1>1, <3>1
    <3> QED BY <3>1, <3>2
  <2> QED BY <2>2, <2>3
<1>2. \A m \in 0..N : m \in T
  <2> HIDE DEF T
  <2> QED BY <1>1, Upwards
<1>3. TAKE k \in a..N
<1>4. N - k \in 0..N /\ a + (N - k) <= N /\ N - (N - k) = k
  OBVIOUS
<1> QED BY <1>2, <1>4

OrderedBy(values, n, f) ==
  /\ f[0] = <<>> /\ \A i \in 1..n : f[i] = f[i - 1] \o (IF i \in DOMAIN values THEN <<values[i]>> ELSE <<>>)
  /\ InOrder(values, n) = f[n]

LEMMA InOrderIs ==
  ASSUME NEW values, NEW N \in Nat
  PROVE  \E f : OrderedBy(values, N, f)
<1> DEFINE then(i, x) == x \o (IF i \in DOMAIN values THEN <<values[i]>> ELSE <<>>)
           Is(n, f) == f = [i \in 0..n |-> IF i = 0 THEN <<>> ELSE then(i, f[i - 1])]
           good == {n \in 0..N : \E f : Is(n, f)}
<1>2. InOrder(values, N) = (CHOOSE f : Is(N, f))[N]
  BY DEF InOrder
<1> HIDE DEF then
<1>3. 0 \in good
  <2> DEFINE g == [i \in 0..0 |-> <<>>]
  <2>1. Is(0, g)
    OBVIOUS
  <2> HIDE DEF g, Is
  <2> QED BY <2>1
<1>4. ASSUME NEW n \in 0 + 1..N, n - 1 \in good PROVE n \in good
  <2>1. PICK f : Is(n - 1, f)
    BY <1>4
  <2> DEFINE g == [i \in 0..n |-> IF i = n THEN then(n, f[n - 1]) ELSE f[i]]
  <2>2. Is(n, g)
    BY <2>1
  <2>3. n \in 0..N
    OBVIOUS
  <2> HIDE DEF g, Is
  <2> QED BY <2>2, <2>3
<1>5. N \in good
  <2> HIDE DEF good
  <2>1. \A n \in 0..N : n \in good
    BY <1>3, <1>4, Stepwise
  <2> QED BY <2>1
<1> DEFINE f == CHOOSE h : Is(N, h)
<1>6. Is(N, f)
  BY <1>5
<1>7. InOrder(values, N) = f[N]
  BY <1>2
<1> HIDE DEF f
<1>8. f[0] = <<>> /\ \A i \in 1..N : f[i] = then(i, f[i - 1])
  BY <1>6
<1> QED BY <1>7, <1>8 DEF then, OrderedBy

LEMMA InOrderOfNone == ASSUME NEW values, NEW b \in Nat, DOMAIN values = {} PROVE InOrder(values, b) = <<>>
<1>1. PICK f : OrderedBy(values, b, f)
  BY InOrderIs, Zenon
<1> DEFINE good == {n \in 0..b : f[n] = <<>>}
<1>2. f[0] = <<>> /\ \A i \in 1..b : f[i] = f[i - 1] \o <<>>
  BY <1>1 DEF OrderedBy
<1>3. ASSUME NEW n \in 0 + 1..b, n - 1 \in good PROVE n \in good
  <2>1. n \in 1..b /\ n \in 0..b /\ f[n] = <<>> \o <<>>
    BY <1>2, <1>3
  <2>2. <<>> \o <<>> = <<>>
    BY EmptySeq, ConcatEmptySeq
  <2> QED BY <2>1, <2>2
<1>4. \A n \in 0..b : n \in good
  <2>1. 0 \in good
    BY <1>2
  <2> HIDE DEF good
  <2> QED BY <1>3, <2>1, Stepwise
<1> QED BY <1>1, <1>4 DEF OrderedBy

-----------------------------------------------------------------------------
(***************************************************************************)
(* Characters                                                              *)
(***************************************************************************)
Written == STRING \ {EndOfText}

LEMMA Characters ==
  /\ OpenParen # CloseParen /\ OpenParen # Quote /\ OpenParen # EndOfText /\ OpenParen # Semicolon
  /\ CloseParen # Quote /\ CloseParen # EndOfText /\ CloseParen # Semicolon /\ Quote # EndOfText
  /\ Backslash # EndOfText /\ Backslash # Quote /\ Semicolon # EndOfText /\ Minus # EndOfText
  /\ Semicolon # Quote /\ Semicolon # Newline
  /\ OpenParen \notin Spaces /\ CloseParen \notin Spaces /\ Quote \notin Spaces /\ Semicolon \notin Spaces
  /\ Minus \notin Spaces /\ Minus # Semicolon /\ Minus # OpenParen /\ Minus # CloseParen /\ Minus # Quote
  /\ EndOfText \notin Spaces /\ Newline \in Spaces
  /\ OpenParen \in Delimiters /\ CloseParen \in Delimiters /\ EndOfText \in Delimiters
  /\ \A c \in Spaces : c \in Delimiters
<1>1. \A c \in Spaces : c # OpenParen /\ c # CloseParen /\ c # Quote /\ c # Semicolon /\ c # Minus /\ c # EndOfText
  BY DEF Spaces, OpenParen, CloseParen, Quote, Semicolon, Minus, EndOfText, Newline, VerticalTab
<1>2. OpenParen # CloseParen /\ OpenParen # Quote /\ OpenParen # EndOfText /\ OpenParen # Semicolon
  BY DEF OpenParen, CloseParen, Quote, EndOfText, Semicolon
<1>3. CloseParen # Quote /\ CloseParen # EndOfText /\ CloseParen # Semicolon /\ Quote # EndOfText
  BY DEF CloseParen, Quote, EndOfText, Semicolon
<1>4. Backslash # EndOfText /\ Backslash # Quote /\ Semicolon # EndOfText /\ Minus # EndOfText
  BY DEF Backslash, Quote, EndOfText, Semicolon, Minus
<1>5. Semicolon # Quote /\ Semicolon # Newline
  BY DEF Semicolon, Quote, Newline
<1>6. Minus # Semicolon /\ Minus # OpenParen /\ Minus # CloseParen /\ Minus # Quote
  BY DEF Semicolon, Minus, OpenParen, CloseParen, Quote
<1>7. Newline \in Spaces
  BY DEF Spaces
<1>8. OpenParen \in Delimiters /\ CloseParen \in Delimiters /\ EndOfText \in Delimiters /\ \A c \in Spaces : c \in Delimiters
  BY DEF Delimiters
<1> QED BY <1>1, <1>2, <1>3, <1>4, <1>5, <1>6, <1>7, <1>8

LEMMA DigitCharacters ==
  /\ ~IsDigit(EndOfText) /\ ~IsDigit(Minus) /\ ~IsDigit(OpenParen) /\ ~IsDigit(CloseParen)
  /\ ~IsDigit(Quote) /\ ~IsDigit(Semicolon) /\ \A c \in Spaces : ~IsDigit(c)
  /\ \A c \in Delimiters : ~IsDigit(c) /\ c \notin {"r", "R"}
<1> DEFINE D == {"0", "1", "2", "3", "4", "5", "6", "7", "8", "9"}
<1>1. \A c : IsDigit(c) => c \in D
  <2>1. \A i \in DOMAIN Decimals : Decimals[i] \in D
    <3>1. Decimals \in Seq(D)
      BY DEF Decimals
    <3> HIDE DEF D
    <3> QED BY <3>1
  <2> HIDE DEF D
  <2> QED BY <2>1 DEF IsDigit, Range
<1>2. \A c \in Spaces : c \notin D
  BY DEF Spaces, Newline, VerticalTab
<1>3. EndOfText \notin D /\ Minus \notin D /\ OpenParen \notin D /\ CloseParen \notin D
  BY DEF EndOfText, Minus, OpenParen, CloseParen
<1>4. Quote \notin D /\ Semicolon \notin D
  BY DEF Quote, Semicolon
<1>5. \A c \in Spaces : c \notin {"r", "R"}
  BY DEF Spaces, Newline, VerticalTab
<1>6. EndOfText \notin {"r", "R"} /\ OpenParen \notin {"r", "R"} /\ CloseParen \notin {"r", "R"}
  BY DEF EndOfText, OpenParen, CloseParen
<1> HIDE DEF D
<1>7. ASSUME NEW c \in Delimiters PROVE c \notin D /\ c \notin {"r", "R"}
  <2>1. c \in Spaces \/ c = OpenParen \/ c = CloseParen \/ c = EndOfText
    BY DEF Delimiters
  <2> QED BY <1>2, <1>3, <1>5, <1>6, <2>1, Zenon
<1> QED BY <1>1, <1>2, <1>3, <1>4, <1>7, Zenon

IsWritten(text) == text \in Seq(Written)

LEMMA Ends ==
  ASSUME NEW text, IsWritten(text), NEW p \in Nat \ {0}
  PROVE  /\ Len(text) \in Nat
         /\ Peek(text, p) = EndOfText <=> p > Len(text)
         /\ p <= Len(text) => Peek(text, p) = text[p]
<1>1. text \in Seq(Written) /\ Len(text) \in Nat
  BY DEF IsWritten
<1>2. ASSUME p <= Len(text) PROVE text[p] # EndOfText
  <2>1. text[p] \in Written
    BY <1>1, <1>2
  <2> QED BY <2>1 DEF Written
<1> QED BY <1>1, <1>2 DEF Peek

-----------------------------------------------------------------------------
(***************************************************************************)
(* Searches                                                                *)
(***************************************************************************)
Finds(text, p, characters, q) ==
  /\ q \in p..Len(text) + 1 /\ Peek(text, q) \in characters \cup {EndOfText}
  /\ \A k \in p..q - 1 : Peek(text, k) \notin characters \cup {EndOfText}

LEMMA FindIs ==
  ASSUME NEW text, IsWritten(text), NEW p \in 1..Len(text) + 1, NEW characters
  PROVE  /\ Finds(text, p, characters, Find(text, p, characters))
         /\ \A q : Finds(text, p, characters, q) => q = Find(text, p, characters)
<1> DEFINE S == characters \cup {EndOfText}
           ends == {q \in p..Len(text) + 1 : Peek(text, q) \in S}
<1>0. Len(text) \in Nat
  BY DEF IsWritten
<1>1. ends \in SUBSET Nat /\ Len(text) + 1 \in ends
  BY <1>0 DEF Peek
<1>2. PICK q \in ends : \A r \in ends : q <= r
  <2> HIDE DEF ends
  <2> QED BY <1>1, LowestIs
<1> HIDE DEF S
<1> DEFINE P(x) == Peek(text, x) \in S /\ \A k \in p..x - 1 : Peek(text, k) \notin S
<1>3. q \in p..Len(text) + 1 /\ P(q)
  <2>1. q \in p..Len(text) + 1 /\ Peek(text, q) \in S
    OBVIOUS
  <2>2. \A r \in p..q - 1 : r \in p..Len(text) + 1 /\ ~(q <= r)
    BY <1>0, <2>1
  <2> QED BY <1>2, <2>1, <2>2
<1>4. \A x, y \in p..Len(text) + 1 : P(x) /\ P(y) => x = y
  <2> SUFFICES ASSUME NEW x \in p..Len(text) + 1, NEW y \in p..Len(text) + 1, P(x), P(y), x # y PROVE FALSE
    OBVIOUS
  <2>1. CASE x < y
    BY <1>0, <2>1
  <2>2. CASE y < x
    BY <1>0, <2>2
  <2> QED BY <1>0, <2>1, <2>2
<1>5. Find(text, p, characters) = CHOOSE x \in p..Len(text) + 1 : P(x)
  BY DEF Find, S
<1>6. \A x : Finds(text, p, characters, x) <=> x \in p..Len(text) + 1 /\ P(x)
  BY DEF Finds, S
<1> HIDE DEF P
<1> QED BY <1>3, <1>4, <1>5, <1>6

Counts(text, p, q) ==
  q \in p..Len(text) + 1 /\ ~IsDigit(Peek(text, q)) /\ \A k \in p..q - 1 : IsDigit(Peek(text, k))

LEMMA DigitsAre ==
  ASSUME NEW text, IsWritten(text), NEW p \in 1..Len(text) + 1
  PROVE  /\ Counts(text, p, BehindDigits(text, p))
         /\ \A q : Counts(text, p, q) => q = BehindDigits(text, p)
<1> DEFINE ends == {q \in p..Len(text) + 1 : ~IsDigit(Peek(text, q))}
<1>0. Len(text) \in Nat
  BY DEF IsWritten
<1>1. ends \in SUBSET Nat /\ Len(text) + 1 \in ends
  <2>1. Peek(text, Len(text) + 1) = EndOfText
    BY <1>0 DEF Peek
  <2> QED BY <1>0, <2>1, DigitCharacters
<1>2. PICK q \in ends : \A r \in ends : q <= r
  <2> HIDE DEF ends
  <2> QED BY <1>1, LowestIs
<1> DEFINE P(x) == ~IsDigit(Peek(text, x)) /\ \A k \in p..x - 1 : IsDigit(Peek(text, k))
<1>3. q \in p..Len(text) + 1 /\ P(q)
  <2>1. q \in p..Len(text) + 1 /\ ~IsDigit(Peek(text, q))
    OBVIOUS
  <2>2. \A r \in p..q - 1 : r \in p..Len(text) + 1 /\ ~(q <= r)
    BY <1>0, <2>1
  <2> QED BY <1>2, <2>1, <2>2
<1>4. \A x, y \in p..Len(text) + 1 : P(x) /\ P(y) => x = y
  <2> SUFFICES ASSUME NEW x \in p..Len(text) + 1, NEW y \in p..Len(text) + 1, P(x), P(y), x # y PROVE FALSE
    OBVIOUS
  <2>1. CASE x < y
    BY <1>0, <2>1
  <2>2. CASE y < x
    BY <1>0, <2>2
  <2> QED BY <1>0, <2>1, <2>2
<1>5. BehindDigits(text, p) = CHOOSE x \in p..Len(text) + 1 : P(x)
  BY DEF BehindDigits
<1>6. \A x : Counts(text, p, x) <=> x \in p..Len(text) + 1 /\ P(x)
  BY DEF Counts
<1> HIDE DEF P
<1> QED BY <1>3, <1>4, <1>5, <1>6

-----------------------------------------------------------------------------
(***************************************************************************)
(* What stands between words                                               *)
(***************************************************************************)
IsBlank(text, q) == Peek(text, q) \in Spaces \cup {Semicolon}
BehindBlank(text, q) == IF Peek(text, q) \in Spaces THEN q + 1 ELSE Find(text, q, {Newline})

LEMMA BlankEnds ==
  ASSUME NEW text, IsWritten(text), NEW q \in 1..Len(text) + 1, IsBlank(text, q)
  PROVE  BehindBlank(text, q) \in q + 1..Len(text) + 1
<1>1. Len(text) \in Nat /\ Peek(text, q) # EndOfText
  BY Characters DEF IsWritten, IsBlank
<1>2. q <= Len(text)
  BY <1>1, Ends
<1>3. CASE Peek(text, q) \in Spaces
  BY <1>1, <1>2, <1>3 DEF BehindBlank
<1>4. CASE Peek(text, q) \notin Spaces
  <2>1. Finds(text, q, {Newline}, BehindBlank(text, q))
    BY <1>4, FindIs DEF BehindBlank
  <2>2. Peek(text, q) \notin {Newline} \cup {EndOfText}
    BY <1>1, <1>4, Characters
  <2>3. BehindBlank(text, q) # q
    BY <2>1, <2>2 DEF Finds
  <2> QED BY <1>1, <2>1, <2>3 DEF Finds
<1> QED BY <1>3, <1>4

LEMMA Skips ==
  ASSUME NEW text, IsWritten(text)
  PROVE  \A q \in 1..Len(text) + 1 :
           SkipWhitespace(text, q) = IF IsBlank(text, q) THEN SkipWhitespace(text, BehindBlank(text, q)) ELSE q
<1> DEFINE N == Len(text) + 1
           blank(q) == IsBlank(text, q)
           behind(q) == BehindBlank(text, q)
           then(q, f) == CASE Peek(text, q) \in Spaces -> f[q + 1]
                           [] Peek(text, q) = Semicolon -> f[Find(text, q, {Newline})]
                           [] OTHER -> q
           Is(n, f) == f = [q \in n..N |-> then(q, f)]
           good == {n \in 1..N : \E f : Is(n, f)}
<1>1. N \in Nat /\ N >= 1
  BY DEF IsWritten
<1>2. \A q \in 1..N : blank(q) => behind(q) \in q + 1..N
  BY BlankEnds
<1>3. \A p : SkipWhitespace(text, p) = (CHOOSE f : Is(1, f))[p]
  BY DEF SkipWhitespace
<1>4. \A q, f : then(q, f) = IF blank(q) THEN f[behind(q)] ELSE q
  BY Characters DEF IsBlank, BehindBlank
<1> HIDE DEF N, blank, behind, then
<1>5. ASSUME NEW n \in 1..N, \A j \in n + 1..N : j \in good PROVE n \in good
  <2>1. \E f : \A q \in n + 1..N : f[q] = then(q, f)
    <3>1. CASE n = N
      BY <1>1, <3>1
    <3>2. CASE n # N
      <4>1. n + 1 \in good
        BY <1>1, <1>5, <3>2
      <4>2. PICK f : Is(n + 1, f)
        BY <4>1
      <4> QED BY <4>2
    <3> QED BY <3>1, <3>2
  <2>2. PICK f : \A q \in n + 1..N : f[q] = then(q, f)
    BY <2>1
  <2> DEFINE g == [q \in n..N |-> IF q = n THEN then(n, f) ELSE f[q]]
  <2>3. \A q \in n + 1..N : g[q] = f[q]
    BY <1>1
  <2>4. \A q \in n..N : then(q, g) = then(q, f)
    <3> HIDE DEF g
    <3>1. TAKE q \in n..N
    <3>2. blank(q) => g[behind(q)] = f[behind(q)]
      BY <1>1, <1>2, <2>3
    <3> QED BY <1>4, <3>2
  <2>5. Is(n, g)
    <3>1. \A q \in n..N : g[q] = then(q, g)
      <4>1. \A q \in n..N : g[q] = then(q, f)
        BY <1>1, <2>2
      <4> HIDE DEF g
      <4> QED BY <2>4, <4>1
    <3>2. g = [q \in n..N |-> g[q]]
      OBVIOUS
    <3> HIDE DEF g
    <3> QED BY <3>1, <3>2
  <2> HIDE DEF g, Is
  <2> QED BY <2>5
<1>6. 1 \in good
  <2> HIDE DEF good
  <2>1. \A n \in 1..N : n \in good
    BY <1>1, <1>5, Downwards
  <2> QED BY <1>1, <2>1
<1> DEFINE f == CHOOSE h : Is(1, h)
<1>7. Is(1, f)
  BY <1>6
<1>8. \A p : SkipWhitespace(text, p) = f[p]
  BY <1>3
<1> HIDE DEF f
<1>9. \A q \in 1..N : f[q] = IF blank(q) THEN f[behind(q)] ELSE q
  BY <1>4, <1>7
<1> QED BY <1>8, <1>9 DEF N, blank, behind

LEMMA SkipEnds ==
  ASSUME NEW text, IsWritten(text), NEW p \in 1..Len(text) + 1
  PROVE  SkipWhitespace(text, p) \in p..Len(text) + 1 /\ ~IsBlank(text, SkipWhitespace(text, p))
<1> DEFINE N == Len(text) + 1
           Right(q) == SkipWhitespace(text, q) \in q..N /\ ~IsBlank(text, SkipWhitespace(text, q))
           good == {q \in 1..N : Right(q)}
<1>1. N \in Nat
  BY DEF IsWritten
<1>2. ASSUME NEW q \in 1..N, \A j \in q + 1..N : j \in good PROVE q \in good
  <2>1. CASE IsBlank(text, q)
    <3> DEFINE e == BehindBlank(text, q)
    <3>1. SkipWhitespace(text, q) = SkipWhitespace(text, e) /\ e \in q + 1..N
      BY <2>1, Skips, BlankEnds
    <3>2. e \in good
      BY <1>2, <3>1
    <3> HIDE DEF e
    <3> QED BY <1>1, <3>1, <3>2
  <2>2. CASE ~IsBlank(text, q)
    <3>1. SkipWhitespace(text, q) = q
      BY <2>2, Skips
    <3> QED BY <1>1, <2>2, <3>1
  <2> QED BY <2>1, <2>2
<1>3. \A q \in 1..N : q \in good
  <2> HIDE DEF good, N
  <2> QED BY <1>1, <1>2, Downwards
<1> QED BY <1>3

\* A gap is skipped.
LEMMA GapSkipped ==
  ASSUME NEW text, IsWritten(text), NEW p \in 1..Len(text) + 1, NEW q \in 1..Len(text) + 1,
         IsGap(text, p, q), ~IsBlank(text, q)
  PROVE  SkipWhitespace(text, p) = q
<1> DEFINE good == {k \in p..q : ~Commented(text, p, k) \/ k = q => SkipWhitespace(text, k) = q}
<1>1. Len(text) \in Nat /\ p \in Nat /\ q \in Nat /\ p <= q
  BY DEF IsWritten, IsGap
<1>2. SkipWhitespace(text, q) = q
  BY Skips
<1>3. ASSUME NEW k \in p..q, \A j \in k + 1..q : j \in good PROVE k \in good
  <2> SUFFICES ASSUME ~Commented(text, p, k), k # q PROVE SkipWhitespace(text, k) = q
    BY <1>2
  <2>1. k \in p..q - 1 /\ k \in 1..Len(text) + 1 /\ k <= Len(text) /\ k + 1 \in 1..Len(text) + 1
    BY <1>1
  <2>2. text[k] \in Spaces \cup {Semicolon} /\ Peek(text, k) = text[k]
    BY <2>1 DEF IsGap, Peek
  <2>3. SkipWhitespace(text, k) = SkipWhitespace(text, BehindBlank(text, k))
    BY <2>1, <2>2, Skips DEF IsBlank
  <2>4. CASE text[k] \in Spaces
    <3>1. BehindBlank(text, k) = k + 1 /\ text[k] # Semicolon
      BY <2>2, <2>4, Characters DEF BehindBlank
    <3>2. ~Commented(text, p, k + 1)
      <4>1. SUFFICES ASSUME NEW j \in p..k, text[j] = Semicolon, \A m \in j..k : text[m] # Newline PROVE FALSE
        BY <1>1 DEF Commented
      <4>2. j \in p..k - 1
        BY <3>1, <4>1
      <4> QED BY <4>1, <4>2 DEF Commented
    <3>3. k + 1 \in k + 1..q /\ k + 1 \in good
      BY <1>1, <1>3, <2>1
    <3> QED BY <2>3, <3>1, <3>2, <3>3
  <2>5. CASE text[k] \notin Spaces
    <3> DEFINE e == Find(text, k, {Newline})
    <3>1. text[k] = Semicolon /\ BehindBlank(text, k) = e /\ Finds(text, k, {Newline}, e)
      BY <2>1, <2>2, <2>5, FindIs DEF BehindBlank
    <3> HIDE DEF e
    <3>2. e \in k..Len(text) + 1 /\ \A m \in k..e - 1 : m <= Len(text) /\ Peek(text, m) = text[m] /\ text[m] # Newline
      BY <1>1, <2>1, <3>1 DEF Finds, Peek
    <3>3. CASE q <= e
      <4>1. \A m \in k..q - 1 : text[m] # Newline
        BY <1>1, <2>1, <3>2, <3>3
      <4>2. Commented(text, p, q)
        BY <1>1, <2>1, <3>1, <4>1 DEF Commented
      <4>3. ~(q <= Len(text))
        BY <4>2 DEF IsGap
      <4>4. e = q
        BY <1>1, <3>2, <3>3, <4>3
      <4> QED BY <1>2, <2>3, <3>1, <4>4
    <3>4. CASE e < q
      <4>1. e <= Len(text) /\ e \in 1..Len(text) + 1 /\ e \in p..q - 1 /\ Peek(text, e) = text[e] /\ e + 1 \in k + 1..q
        BY <1>1, <2>1, <3>2, <3>4 DEF Peek
      <4>2. text[e] = Newline
        <5>1. Peek(text, e) # EndOfText
          BY <4>1, Ends
        <5> QED BY <3>1, <4>1, <5>1 DEF Finds
      <4>3. SkipWhitespace(text, e) = SkipWhitespace(text, e + 1)
        <5>1. IsBlank(text, e) /\ BehindBlank(text, e) = e + 1
          BY <4>1, <4>2, Characters DEF IsBlank, BehindBlank
        <5> QED BY <4>1, <5>1, Skips
      <4>4. ~Commented(text, p, e + 1)
        BY <1>1, <4>1, <4>2, Characters DEF Commented
      <4>5. e + 1 \in good
        BY <1>3, <4>1
      <4> QED BY <2>3, <3>1, <4>3, <4>4, <4>5
    <3> QED BY <1>1, <3>2, <3>3, <3>4
  <2> QED BY <2>4, <2>5
<1>4. \A k \in p..q : k \in good
  <2> HIDE DEF good
  <2> QED BY <1>1, <1>3, Downwards
<1>5. p \in good /\ ~Commented(text, p, p)
  BY <1>1, <1>4 DEF Commented
<1> QED BY <1>5

-----------------------------------------------------------------------------
(***************************************************************************)
(* Readings of what is left of a string or a list                          *)
(***************************************************************************)
Turns(N, stop, next) == \A q \in 1..N : ~stop[q] => next[q] \in q + 1..N
Unrolled(N, stop, value, first, next, f) ==
  f = [q \in 1..N |-> IF stop[q] THEN value[q] ELSE Before(first[q], f[next[q]])]

LEMMA ReadingsExist ==
  ASSUME NEW N \in Nat, NEW stop, NEW value, NEW first, NEW next, Turns(N, stop, next)
  PROVE  \E f : Unrolled(N, stop, value, first, next, f)
<1> DEFINE then(q, f) == IF stop[q] THEN value[q] ELSE Before(first[q], f[next[q]])
           Is(n, f) == \A q \in n..N : f[q] = then(q, f)
           good == {n \in 1..N + 1 : \E f : Is(n, f)}
<1>0. \A q \in 1..N : ~stop[q] => next[q] \in q + 1..N
  BY DEF Turns
<1>1. ASSUME NEW n \in 1..N + 1, \A j \in n + 1..N + 1 : j \in good PROVE n \in good
  <2>1. CASE n = N + 1
    BY <2>1
  <2>2. CASE n # N + 1
    <3>1. n + 1 \in good /\ n \in 1..N
      BY <1>1, <2>2
    <3>2. PICK f : Is(n + 1, f)
      BY <3>1
    <3> DEFINE g == [q \in n..N |-> IF q = n THEN then(n, f) ELSE f[q]]
    <3>3. \A q \in n + 1..N : g[q] = f[q]
      BY <3>1
    <3>4. ASSUME NEW q \in n..N PROVE then(q, g) = then(q, f)
      <4> HIDE DEF g
      <4>1. ~stop[q] => g[next[q]] = f[next[q]]
        BY <1>0, <3>1, <3>3
      <4> QED BY <4>1
    <3>5. ASSUME NEW q \in n..N PROVE g[q] = then(q, f)
      <4> HIDE DEF then
      <4> QED BY <3>2
    <3>6. Is(n, g)
      <4> HIDE DEF then, g
      <4> QED BY <3>4, <3>5
    <3> HIDE DEF g, Is
    <3> QED BY <3>6
  <2> QED BY <2>1, <2>2
<1>2. 1 \in good
  <2> HIDE DEF good
  <2>0. N + 1 \in Nat
    OBVIOUS
  <2>1. \A n \in 1..N + 1 : n \in good
    BY <1>1, <2>0, Downwards
  <2> QED BY <2>1
<1>3. PICK f : Is(1, f)
  BY <1>2
<1> HIDE DEF then
<1> DEFINE g == [q \in 1..N |-> f[q]]
<1>4. \A q \in 1..N : then(q, g) = then(q, f)
  BY <1>0 DEF then
<1>5. g = [q \in 1..N |-> then(q, g)]
  BY <1>3, <1>4
<1> HIDE DEF g
<1> QED BY <1>5 DEF then, Unrolled

LEMMA StringGoesOn ==
  ASSUME NEW text, IsWritten(text), NEW q \in 1..Len(text) + 1
  PROVE  ParseString(text, q) =
           IF Peek(text, q) = Quote THEN Reading(q + 1, <<"string", <<>>>>)
           ELSE IF Peek(text, q) = EndOfText THEN Thrown
           ELSE IF Peek(text, q) = Backslash /\ Peek(text, q + 1) # EndOfText
           THEN Before(Escaped(Peek(text, q + 1)), ParseString(text, q + 2))
           ELSE Before(Peek(text, q), ParseString(text, q + 1))
<1> DEFINE N == Len(text) + 1
           then(r, f) == LET c == Peek(text, r) IN
                         CASE c = Quote -> Reading(r + 1, <<"string", <<>>>>)
                           [] c = EndOfText -> Thrown
                           [] c = Backslash /\ Peek(text, r + 1) # EndOfText -> Before(Escaped(Peek(text, r + 1)), f[r + 2])
                           [] OTHER -> Before(c, f[r + 1])
           Is(f) == f = [r \in 1..N |-> then(r, f)]
           closes(r) == Peek(text, r) = Quote
           ended(r) == Peek(text, r) = EndOfText
           escapes(r) == Peek(text, r) = Backslash /\ Peek(text, r + 1) # EndOfText
           stop == [r \in 1..N |-> closes(r) \/ ended(r)]
           value == [r \in 1..N |-> IF closes(r) THEN Reading(r + 1, <<"string", <<>>>>) ELSE Thrown]
           first == [r \in 1..N |-> IF escapes(r) THEN Escaped(Peek(text, r + 1)) ELSE Peek(text, r)]
           next == [r \in 1..N |-> IF escapes(r) THEN r + 2 ELSE r + 1]
<1>1. Len(text) \in Nat /\ N \in Nat
  BY DEF IsWritten
<1>2. \A r \in 1..N : (ended(r) <=> r = N) /\ (escapes(r) => r + 2 <= N)
  <2>1. TAKE r \in 1..N
  <2>2. ended(r) <=> r = N
    BY <1>1, Ends
  <2>3. Peek(text, r + 1) = EndOfText <=> r + 1 > Len(text)
    BY <1>1, Ends
  <2> QED BY <1>1, <2>2, <2>3
<1>3. \A r : closes(r) => ~ended(r) /\ ~escapes(r)
  BY Characters
<1>4. \A r : ended(r) => ~escapes(r)
  BY Characters
<1>5. \A r, f : then(r, f) = IF closes(r) THEN Reading(r + 1, <<"string", <<>>>>)
                              ELSE IF ended(r) THEN Thrown
                              ELSE IF escapes(r) THEN Before(Escaped(Peek(text, r + 1)), f[r + 2])
                              ELSE Before(Peek(text, r), f[r + 1])
  BY <1>3, <1>4
<1>6. \A p : ParseString(text, p) = (CHOOSE f : Is(f))[p]
  BY DEF ParseString
<1> HIDE DEF N, closes, ended, escapes, then
<1>7. \E f : Is(f)
  <2>1. ASSUME NEW r \in 1..N, ~stop[r] PROVE next[r] \in r + 1..N
    <3>1. ~ended(r) /\ next[r] = IF escapes(r) THEN r + 2 ELSE r + 1
      BY <2>1
    <3> HIDE DEF next
    <3> QED BY <1>1, <1>2, <3>1
  <2> HIDE DEF stop, value, first, next
  <2>2. Turns(N, stop, next)
    BY <2>1 DEF Turns
  <2>3. PICK f : Unrolled(N, stop, value, first, next, f)
    BY <1>1, <2>2, ReadingsExist
  <2>4. \A r \in 1..N : (IF stop[r] THEN value[r] ELSE Before(first[r], f[next[r]])) = then(r, f)
    BY <1>5 DEF stop, value, first, next
  <2>5. f = [r \in 1..N |-> then(r, f)]
    BY <2>3, <2>4 DEF Unrolled
  <2> QED BY <2>5
<1> DEFINE f == CHOOSE h : Is(h)
<1>8. Is(f) /\ \A p : ParseString(text, p) = f[p]
  BY <1>6, <1>7
<1> HIDE DEF f
<1>9. q \in 1..N
  BY DEF N
<1>10. f[q] = then(q, f)
  BY <1>8, <1>9
<1> HIDE DEF then
<1>11. /\ ParseString(text, q) = f[q] /\ ParseString(text, q + 1) = f[q + 1]
       /\ ParseString(text, q + 2) = f[q + 2]
  BY <1>8
<1>12. f[q] = IF closes(q) THEN Reading(q + 1, <<"string", <<>>>>)
              ELSE IF ended(q) THEN Thrown
              ELSE IF escapes(q) THEN Before(Escaped(Peek(text, q + 1)), f[q + 2])
              ELSE Before(Peek(text, q), f[q + 1])
  BY <1>5, <1>10
<1> QED BY <1>11, <1>12, Zenon DEF closes, ended, escapes

\* Every reading goes on, up to the end of the text.
GoesOn(text, read) ==
  \A q \in 1..Len(text) + 1 : read[q].thrown \in BOOLEAN /\ (~read[q].thrown => read[q].pos \in q + 1..Len(text) + 1)

ItemsBy(text, read, ends, f) ==
  /\ \A p : ParseItems(text, p, read, ends) = f[SkipWhitespace(text, p)]
  /\ \A q \in 1..Len(text) + 1 :
       f[q] = IF Peek(text, q) \in ends THEN Reading(q, <<"list", <<>>>>)
              ELSE IF read[q].thrown THEN Thrown
              ELSE Before(read[q].tree, f[SkipWhitespace(text, read[q].pos)])

LEMMA ItemsGoOn ==
  ASSUME NEW text, IsWritten(text), NEW read, GoesOn(text, read), NEW ends, EndOfText \in ends
  PROVE  \E f : ItemsBy(text, read, ends, f)
<1> DEFINE N == Len(text) + 1
           then(r, f) == LET item == read[r] IN
                         IF Peek(text, r) \in ends THEN Reading(r, <<"list", <<>>>>)
                         ELSE IF item.thrown THEN Thrown
                         ELSE Before(item.tree, f[SkipWhitespace(text, item.pos)])
           Is(f) == f = [r \in 1..N |-> then(r, f)]
           stop == [r \in 1..N |-> Peek(text, r) \in ends \/ read[r].thrown]
           value == [r \in 1..N |-> IF Peek(text, r) \in ends THEN Reading(r, <<"list", <<>>>>) ELSE Thrown]
           first == [r \in 1..N |-> read[r].tree]
           next == [r \in 1..N |-> SkipWhitespace(text, read[r].pos)]
<1>1. Len(text) \in Nat /\ N \in Nat
  BY DEF IsWritten
<1>2. \A p : ParseItems(text, p, read, ends) = (CHOOSE f : Is(f))[SkipWhitespace(text, p)]
  BY DEF ParseItems
<1>3. ASSUME NEW r \in 1..N, ~stop[r] PROVE next[r] \in r + 1..N
  <2>1. ~read[r].thrown
    BY <1>3
  <2>2. read[r].pos \in r + 1..N
    BY <2>1 DEF GoesOn
  <2>3. SkipWhitespace(text, read[r].pos) \in read[r].pos..N
    BY <1>1, <2>2, SkipEnds
  <2> QED BY <1>1, <2>2, <2>3
<1>4. \E f : Is(f)
  <2> HIDE DEF stop, value, first, next, N
  <2>2. Turns(N, stop, next)
    BY <1>3 DEF Turns
  <2>3. PICK f : Unrolled(N, stop, value, first, next, f)
    BY <1>1, <2>2, ReadingsExist
  <2>4. \A r \in 1..N : (IF stop[r] THEN value[r] ELSE Before(first[r], f[next[r]])) = then(r, f)
    BY DEF stop, value, first, next
  <2>5. f = [r \in 1..N |-> then(r, f)]
    BY <2>3, <2>4 DEF Unrolled
  <2> QED BY <2>5
<1> DEFINE f == CHOOSE h : Is(h)
<1>5. Is(f)
  BY <1>4
<1>6. \A p : ParseItems(text, p, read, ends) = f[SkipWhitespace(text, p)]
  BY <1>2
<1> HIDE DEF f
<1>7. \A r \in 1..Len(text) + 1 : f[r] = then(r, f)
  BY <1>5
<1>8. ItemsBy(text, read, ends, f)
  BY <1>6, <1>7 DEF ItemsBy
<1> QED BY <1>8

-----------------------------------------------------------------------------
(***************************************************************************)
(* The parser goes on                                                      *)
(***************************************************************************)
LEMMA BeforeIs ==
  ASSUME NEW x, NEW r, r.thrown \in BOOLEAN
  PROVE  Before(x, r).thrown = r.thrown /\ (~r.thrown => Before(x, r).pos = r.pos)
<1>1. CASE r.thrown
  <2>1. Before(x, r) = Thrown
    BY <1>1 DEF Before
  <2> QED BY <1>1, <2>1 DEF Thrown
<1>2. CASE ~r.thrown
  <2>1. Before(x, r).thrown = FALSE /\ Before(x, r).pos = r.pos
    BY <1>2 DEF Before, Reading
  <2> QED BY <1>2, <2>1
<1> QED BY <1>1, <1>2

\* A reading is behind p.
EndsBehind(text, r, p) == r.thrown \in BOOLEAN /\ (~r.thrown => r.pos \in p + 1..Len(text) + 1)

LEMMA StringEnds ==
  ASSUME NEW text, IsWritten(text), NEW p \in 1..Len(text) + 1
  PROVE  EndsBehind(text, ParseString(text, p), p)
<1> DEFINE N == Len(text) + 1
           good == {q \in 1..N : EndsBehind(text, ParseString(text, q), q)}
<1>1. Len(text) \in Nat /\ N \in Nat
  BY DEF IsWritten
<1>2. ASSUME NEW q \in 1..N, \A j \in q + 1..N : j \in good PROVE q \in good
  <2>1. Peek(text, q) = EndOfText <=> q = N
    BY <1>1, Ends
  <2>2. Peek(text, q + 1) = EndOfText <=> q + 1 > Len(text)
    BY <1>1, Ends
  <2>3. CASE Peek(text, q) = Quote
    <3>1. ParseString(text, q) = Reading(q + 1, <<"string", <<>>>>)
      BY <2>3, StringGoesOn
    <3>2. ParseString(text, q).thrown = FALSE /\ ParseString(text, q).pos = q + 1
      BY <3>1 DEF Reading
    <3>3. q # N
      BY <2>1, <2>3, Characters
    <3>4. q + 1 \in q + 1..N
      BY <1>1, <3>3
    <3> QED BY <3>2, <3>4 DEF EndsBehind
  <2>4. CASE Peek(text, q) # Quote /\ Peek(text, q) = EndOfText
    <3>1. ParseString(text, q) = Thrown
      BY <2>4, StringGoesOn
    <3>2. ParseString(text, q).thrown = TRUE
      BY <3>1 DEF Thrown
    <3> QED BY <3>2 DEF EndsBehind
  <2>5. CASE Peek(text, q) # Quote /\ Peek(text, q) # EndOfText
    <3>1. \E k \in q + 1..N : \E c : ParseString(text, q) = Before(c, ParseString(text, k))
      <4>1. CASE Peek(text, q) = Backslash /\ Peek(text, q + 1) # EndOfText
        <5>1. q + 2 \in q + 1..N
          BY <1>1, <2>1, <2>2, <4>1
        <5>2. ParseString(text, q) = Before(Escaped(Peek(text, q + 1)), ParseString(text, q + 2))
          BY <2>5, <4>1, StringGoesOn
        <5> QED BY <5>1, <5>2
      <4>2. CASE ~(Peek(text, q) = Backslash /\ Peek(text, q + 1) # EndOfText)
        <5>1. q + 1 \in q + 1..N
          BY <1>1, <2>1, <2>5
        <5>2. ParseString(text, q) = Before(Peek(text, q), ParseString(text, q + 1))
          BY <2>5, <4>2, StringGoesOn
        <5> QED BY <5>1, <5>2
      <4> QED BY <4>1, <4>2
    <3>2. PICK k \in q + 1..N : \E c : ParseString(text, q) = Before(c, ParseString(text, k))
      BY <3>1
    <3>0. PICK c : ParseString(text, q) = Before(c, ParseString(text, k))
      BY <3>2
    <3>3. EndsBehind(text, ParseString(text, k), k)
      BY <1>2, <3>2
    <3> DEFINE r == ParseString(text, k)
    <3>4. r.thrown \in BOOLEAN /\ (~r.thrown => r.pos \in q + 1..N)
      BY <1>1, <3>3 DEF EndsBehind
    <3> HIDE DEF r
    <3>5. Before(c, r).thrown = r.thrown /\ (~r.thrown => Before(c, r).pos = r.pos)
      BY <3>4, BeforeIs
    <3>6. ParseString(text, q) = Before(c, r)
      BY <3>0 DEF r
    <3> QED BY <3>4, <3>5, <3>6 DEF EndsBehind
  <2> QED BY <2>3, <2>4, <2>5
<1>3. \A q \in 1..N : q \in good
  <2> HIDE DEF good, N
  <2> QED BY <1>1, <1>2, Downwards
<1> QED BY <1>3

\* What is left of a list ends where one of the ends stands.
StopsAt(text, r, q, ends) ==
  r.thrown \in BOOLEAN /\ (~r.thrown => r.pos \in q..Len(text) + 1 /\ Peek(text, r.pos) \in ends)

LEMMA ItemsEnd ==
  ASSUME NEW text, IsWritten(text), NEW read, GoesOn(text, read), NEW ends, EndOfText \in ends,
         NEW f, ItemsBy(text, read, ends, f)
  PROVE  \A q \in 1..Len(text) + 1 : StopsAt(text, f[q], q, ends)
<1> DEFINE N == Len(text) + 1
           good == {q \in 1..N : StopsAt(text, f[q], q, ends)}
<1>1. Len(text) \in Nat /\ N \in Nat
  BY DEF IsWritten
<1>2. ASSUME NEW q \in 1..N, \A j \in q + 1..N : j \in good PROVE q \in good
  <2>1. f[q] = IF Peek(text, q) \in ends THEN Reading(q, <<"list", <<>>>>)
               ELSE IF read[q].thrown THEN Thrown
               ELSE Before(read[q].tree, f[SkipWhitespace(text, read[q].pos)])
    BY DEF ItemsBy
  <2>2. CASE Peek(text, q) \in ends
    <3>1. f[q].thrown = FALSE /\ f[q].pos = q
      BY <2>1, <2>2 DEF Reading
    <3>2. q \in q..N
      BY <1>1
    <3> QED BY <2>2, <3>1, <3>2 DEF StopsAt
  <2>3. CASE Peek(text, q) \notin ends /\ read[q].thrown
    <3>1. f[q].thrown = TRUE
      BY <2>1, <2>3 DEF Thrown
    <3> QED BY <3>1 DEF StopsAt
  <2>4. CASE Peek(text, q) \notin ends /\ ~read[q].thrown
    <3>1. read[q].pos \in q + 1..N
      BY <2>4 DEF GoesOn
    <3> DEFINE k == SkipWhitespace(text, read[q].pos)
    <3>2. k \in q + 1..N
      <4>1. k \in read[q].pos..N
        BY <1>1, <3>1, SkipEnds
      <4> QED BY <1>1, <3>1, <4>1
    <3> DEFINE r == f[k]
    <3>3. f[q] = Before(read[q].tree, r)
      BY <2>1, <2>4
    <3>4. StopsAt(text, r, k, ends)
      BY <1>2, <3>2
    <3> HIDE DEF k, r
    <3>5. r.thrown \in BOOLEAN /\ (~r.thrown => r.pos \in q..N /\ Peek(text, r.pos) \in ends)
      BY <1>1, <3>2, <3>4 DEF StopsAt
    <3>6. f[q].thrown = r.thrown /\ (~r.thrown => f[q].pos = r.pos)
      BY <3>3, <3>5, BeforeIs
    <3> QED BY <3>5, <3>6 DEF StopsAt
  <2> QED BY <2>2, <2>3, <2>4
<1>3. \A q \in 1..N : q \in good
  <2> HIDE DEF good, N
  <2> QED BY <1>1, <1>2, Downwards
<1> QED BY <1>3

LEMMA ListEnds ==
  ASSUME NEW text, IsWritten(text), NEW read, GoesOn(text, read), NEW p \in 1..Len(text) + 1
  PROVE  EndsBehind(text, ParseList(text, p, read), p)
<1> DEFINE ends == {CloseParen, EndOfText}
           items == ParseItems(text, p, read, ends)
           q == SkipWhitespace(text, p)
<1>1. Len(text) \in Nat
  BY DEF IsWritten
<1>2. q \in p..Len(text) + 1
  BY SkipEnds
<1>3. StopsAt(text, items, q, ends)
  <2>1. EndOfText \in ends
    OBVIOUS
  <2> HIDE DEF ends, q
  <2>2. PICK f : ItemsBy(text, read, ends, f)
    BY <2>1, ItemsGoOn
  <2>3. items = f[q]
    BY <2>2 DEF ItemsBy, q
  <2>4. q \in 1..Len(text) + 1
    BY <1>1, <1>2
  <2> QED BY <2>1, <2>2, <2>3, <2>4, ItemsEnd
<1>4. ParseList(text, p, read) = IF items.thrown \/ Peek(text, items.pos) # CloseParen THEN Thrown
                                 ELSE Reading(items.pos + 1, items.tree)
  BY DEF ParseList
<1> HIDE DEF items, ends, q
<1>5. CASE items.thrown \/ Peek(text, items.pos) # CloseParen
  <2>1. ParseList(text, p, read).thrown = TRUE
    BY <1>4, <1>5 DEF Thrown
  <2> QED BY <2>1 DEF EndsBehind
<1>6. CASE ~items.thrown /\ Peek(text, items.pos) = CloseParen
  <2>1. ParseList(text, p, read).thrown = FALSE /\ ParseList(text, p, read).pos = items.pos + 1
    BY <1>4, <1>6 DEF Reading
  <2>2. items.pos \in q..Len(text) + 1
    BY <1>3, <1>6 DEF StopsAt
  <2>3. items.pos \in Nat \ {0} /\ items.pos <= Len(text)
    <3>1. items.pos \in Nat \ {0}
      BY <1>1, <1>2, <2>2
    <3>2. Peek(text, items.pos) # EndOfText
      BY <1>6, Characters
    <3>3. ~(items.pos > Len(text))
      BY <3>1, <3>2, Ends
    <3> QED BY <1>1, <3>1, <3>3
  <2>4. items.pos + 1 \in p + 1..Len(text) + 1
    BY <1>1, <1>2, <2>2, <2>3
  <2> QED BY <2>1, <2>4 DEF EndsBehind
<1> QED BY <1>5, <1>6

LEMMA SignlessIs ==
  ASSUME NEW p, NEW negative, NEW n
  PROVE  /\ Signless(p, negative, n).thrown \in BOOLEAN
         /\ ~Signless(p, negative, n).thrown => Signless(p, negative, n).pos = p
<1>1. CASE n > MaxNumber
  <2>1. Signless(p, negative, n).thrown = TRUE
    BY <1>1 DEF Signless, Thrown
  <2> QED BY <2>1
<1>2. CASE ~(n > MaxNumber)
  <2>1. Signless(p, negative, n).thrown = FALSE /\ Signless(p, negative, n).pos = p
    BY <1>2 DEF Signless, Reading
  <2> QED BY <2>1
<1> QED BY <1>1, <1>2

LEMMA RadixEnds ==
  ASSUME NEW text, IsWritten(text), NEW p \in 1..Len(text) + 1, NEW negative, NEW radix
  PROVE  /\ ParseRadix(text, p, negative, radix).thrown \in BOOLEAN
         /\ ~ParseRadix(text, p, negative, radix).thrown =>
              ParseRadix(text, p, negative, radix).pos \in p..Len(text) + 1
<1> DEFINE end == Find(text, p, Delimiters)
           digits == SubSeq(text, p, end - 1)
           spoilt == radix \notin 2..36 \/ digits = <<>> \/ \E i \in DOMAIN digits : DigitValue(digits[i]) >= radix
<1>1. end \in p..Len(text) + 1
  <2>1. Finds(text, p, Delimiters, end)
    BY FindIs
  <2> QED BY <2>1 DEF Finds
<1>2. ParseRadix(text, p, negative, radix) = IF spoilt THEN Thrown ELSE Signless(end, negative, NumberOf(digits, radix))
  BY DEF ParseRadix
<1> HIDE DEF end, digits, spoilt
<1>3. CASE spoilt
  <2>1. ParseRadix(text, p, negative, radix).thrown = TRUE
    BY <1>2, <1>3 DEF Thrown
  <2> QED BY <2>1
<1>4. CASE ~spoilt
  <2>1. ParseRadix(text, p, negative, radix) = Signless(end, negative, NumberOf(digits, radix))
    BY <1>2, <1>4
  <2> QED BY <1>1, <2>1, SignlessIs
<1> QED BY <1>3, <1>4

\* A number starts with a digit, or with a minus and a digit.
StartsNumber(text, q) == IsDigit(Peek(text, q)) \/ (Peek(text, q) = Minus /\ IsDigit(Peek(text, q + 1)))

LEMMA DigitsEnd ==
  ASSUME NEW text, IsWritten(text), NEW q \in 1..Len(text) + 1, StartsNumber(text, q)
  PROVE  LET first == IF Peek(text, q) = Minus THEN q + 1 ELSE q IN
         /\ first \in q..Len(text) /\ IsDigit(Peek(text, first))
         /\ BehindDigits(text, first) \in first + 1..Len(text) + 1
<1> DEFINE first == IF Peek(text, q) = Minus THEN q + 1 ELSE q
<1>1. Len(text) \in Nat
  BY DEF IsWritten
<1>2. first \in q..q + 1 /\ IsDigit(Peek(text, first))
  BY <1>1, DigitCharacters DEF StartsNumber
<1> HIDE DEF first
<1>3. first \in Nat \ {0}
  BY <1>1, <1>2
<1>4. Peek(text, first) # EndOfText
  BY <1>2, DigitCharacters
<1>5. ~(first > Len(text))
  BY <1>3, <1>4, Ends
<1>6. first \in q..Len(text) /\ first \in 1..Len(text) + 1
  BY <1>1, <1>2, <1>5
<1>7. Counts(text, first, BehindDigits(text, first))
  BY <1>6, DigitsAre
<1>8. BehindDigits(text, first) # first
  BY <1>2, <1>7 DEF Counts
<1>9. BehindDigits(text, first) \in first + 1..Len(text) + 1
  BY <1>1, <1>6, <1>7, <1>8 DEF Counts
<1> QED BY <1>2, <1>6, <1>9 DEF first

LEMMA NumberEnds ==
  ASSUME NEW text, IsWritten(text), NEW q \in 1..Len(text) + 1, StartsNumber(text, q)
  PROVE  EndsBehind(text, ParseNumber(text, q), q)
<1> DEFINE negative == Peek(text, q) = Minus
           first == IF negative THEN q + 1 ELSE q
           end == BehindDigits(text, first)
           n == NumberOf(SubSeq(text, first, end - 1), 10)
<1>1. Len(text) \in Nat
  BY DEF IsWritten
<1>2. first \in q..Len(text) /\ end \in first + 1..Len(text) + 1
  BY DigitsEnd
<1>3. ParseNumber(text, q) = IF Peek(text, end) \in {"r", "R"} THEN ParseRadix(text, end + 1, negative, n)
                             ELSE Signless(end, negative, n)
  BY DEF ParseNumber
<1> HIDE DEF negative, first, end, n
<1>4. CASE Peek(text, end) \in {"r", "R"}
  <2>1. ParseNumber(text, q) = ParseRadix(text, end + 1, negative, n)
    BY <1>3, <1>4
  <2>2. end + 1 \in 1..Len(text) + 1
    <3>1. Peek(text, end) # EndOfText
      BY <1>4, DigitCharacters, Characters
    <3>2. end \in Nat \ {0}
      BY <1>1, <1>2
    <3>3. ~(end > Len(text))
      BY <3>1, <3>2, Ends
    <3> QED BY <1>1, <1>2, <3>3
  <2>3. /\ ParseNumber(text, q).thrown \in BOOLEAN
        /\ ~ParseNumber(text, q).thrown => ParseNumber(text, q).pos \in end + 1..Len(text) + 1
    BY <2>1, <2>2, RadixEnds
  <2> QED BY <1>1, <1>2, <2>3 DEF EndsBehind
<1>5. CASE Peek(text, end) \notin {"r", "R"}
  <2>1. ParseNumber(text, q) = Signless(end, negative, n)
    BY <1>3, <1>5
  <2> QED BY <1>1, <1>2, <2>1, SignlessIs DEF EndsBehind
<1> QED BY <1>4, <1>5

LEMMA SymbolEnds ==
  ASSUME NEW text, IsWritten(text), NEW q \in 1..Len(text) + 1
  PROVE  EndsBehind(text, ParseSymbol(text, q), q)
<1> DEFINE end == Find(text, q, Delimiters)
<1>1. end \in q..Len(text) + 1 /\ Len(text) \in Nat
  <2>1. Finds(text, q, Delimiters, end)
    BY FindIs
  <2> QED BY <2>1 DEF Finds, IsWritten
<1>2. ParseSymbol(text, q) = IF end = q THEN Thrown ELSE Reading(end, <<"symbol", SubSeq(text, q, end - 1)>>)
  BY DEF ParseSymbol
<1> HIDE DEF end
<1>3. CASE end = q
  <2>1. ParseSymbol(text, q).thrown = TRUE
    BY <1>2, <1>3 DEF Thrown
  <2> QED BY <2>1 DEF EndsBehind
<1>4. CASE end # q
  <2>1. ParseSymbol(text, q).thrown = FALSE /\ ParseSymbol(text, q).pos = end
    BY <1>2, <1>4 DEF Reading
  <2>2. end \in q + 1..Len(text) + 1
    BY <1>1, <1>4
  <2> QED BY <2>1, <2>2 DEF EndsBehind
<1> QED BY <1>3, <1>4

LEMMA ExprEnds ==
  ASSUME NEW text, IsWritten(text), NEW read, GoesOn(text, read), NEW p \in 1..Len(text) + 1
  PROVE  EndsBehind(text, ParseExprBy(text, p, read), p)
<1> DEFINE q == SkipWhitespace(text, p)
           c == Peek(text, q)
           r == ParseExprBy(text, p, read)
<1>1. Len(text) \in Nat /\ q \in p..Len(text) + 1
  BY SkipEnds DEF IsWritten
<1>2. r = CASE c = EndOfText -> Thrown
            [] c = OpenParen -> ParseList(text, q + 1, read)
            [] c = Quote -> ParseString(text, q + 1)
            [] StartsNumber(text, q) -> ParseNumber(text, q)
            [] OTHER -> ParseSymbol(text, q)
  BY DEF ParseExprBy, StartsNumber
<1> HIDE DEF q, r
<1>3. r = Thrown \/ EndsBehind(text, r, q)
  <2>1. c = EndOfText => r = Thrown
    BY <1>2, Characters, DigitCharacters DEF StartsNumber
  <2>2. ASSUME c # EndOfText PROVE q + 1 \in 1..Len(text) + 1
    <3>1. q \in Nat \ {0}
      BY <1>1
    <3>2. ~(q > Len(text))
      BY <2>2, <3>1, Ends
    <3> QED BY <1>1, <3>2
  <2>3. ASSUME c = OpenParen PROVE EndsBehind(text, r, q)
    <3>1. r = ParseList(text, q + 1, read) /\ q + 1 \in 1..Len(text) + 1
      BY <1>2, <2>2, <2>3, Characters, DigitCharacters DEF StartsNumber
    <3>2. EndsBehind(text, r, q + 1)
      BY <3>1, ListEnds
    <3> QED BY <1>1, <3>2 DEF EndsBehind
  <2>4. ASSUME c = Quote PROVE EndsBehind(text, r, q)
    <3>1. r = ParseString(text, q + 1) /\ q + 1 \in 1..Len(text) + 1
      BY <1>2, <2>2, <2>4, Characters, DigitCharacters DEF StartsNumber
    <3>2. EndsBehind(text, r, q + 1)
      BY <3>1, StringEnds
    <3> QED BY <1>1, <3>2 DEF EndsBehind
  <2>5. ASSUME c # EndOfText, c # OpenParen, c # Quote PROVE EndsBehind(text, r, q)
    <3>1. q \in 1..Len(text) + 1
      BY <1>1
    <3>2. CASE StartsNumber(text, q)
      BY <1>2, <2>5, <3>1, <3>2, NumberEnds
    <3>3. CASE ~StartsNumber(text, q)
      BY <1>2, <2>5, <3>1, <3>3, SymbolEnds
    <3> QED BY <3>2, <3>3
  <2> QED BY <2>1, <2>3, <2>4, <2>5
<1>4. CASE r = Thrown
  <2>1. r.thrown = TRUE
    BY <1>4 DEF Thrown
  <2> QED BY <2>1 DEF EndsBehind, r
<1>5. CASE EndsBehind(text, r, q)
  BY <1>1, <1>5 DEF EndsBehind, r
<1> QED BY <1>3, <1>4, <1>5

-----------------------------------------------------------------------------
(***************************************************************************)
(* Lists in lists                                                          *)
(***************************************************************************)
Levels(text, u) ==
  \A n \in 0..Len(text), p \in 1..Len(text) + 1 :
    u[n][p] = IF n = 0 THEN Thrown ELSE ParseExprBy(text, p, u[n - 1])

LEMMA LevelsExist ==
  ASSUME NEW text, IsWritten(text)
  PROVE  \E u : Levels(text, u) /\ ParseExpr(text) = u[Len(text)]
<1> DEFINE N == Len(text)
           level(read, n) == [p \in 1..N + 1 |-> IF n = 0 THEN Thrown ELSE ParseExprBy(text, p, read)]
           then(n, u) == [p \in 1..N + 1 |-> IF n = 0 THEN Thrown ELSE ParseExprBy(text, p, u[n - 1])]
           Is(m, u) == u = [n \in 0..m |-> then(n, u)]
           good == {m \in 0..N : \E u : Is(m, u)}
<1>1. N \in Nat
  BY DEF IsWritten
<1>2. ParseExpr(text) = (CHOOSE u : Is(N, u))[N]
  BY DEF ParseExpr
<1>3. \A n \in Nat : \A u, v : (n = 0 \/ u[n - 1] = v[n - 1]) => then(n, u) = then(n, v)
  OBVIOUS
<1> HIDE DEF N, then
<1>4. 0 \in good
  <2> DEFINE none == [n \in 0..0 |-> <<>>]
             u == [n \in 0..0 |-> then(0, none)]
  <2>1. then(0, u) = then(0, none)
    BY <1>3, Zenon
  <2>2. u = [n \in 0..0 |-> then(n, u)]
    <3>1. \A n \in 0..0 : n = 0
      OBVIOUS
    <3>2. \A n \in 0..0 : u[n] = then(0, none)
      OBVIOUS
    <3> HIDE DEF u, none
    <3>3. \A n \in 0..0 : then(n, u) = then(0, none)
      BY <2>1, <3>1
    <3> QED BY <3>1, <3>2, <3>3 DEF u
  <2> HIDE DEF u
  <2> QED BY <1>1, <2>2
<1>5. ASSUME NEW m \in 0 + 1..N, m - 1 \in good PROVE m \in good
  <2>1. PICK u : Is(m - 1, u)
    BY <1>5
  <2> DEFINE v == [n \in 0..m |-> IF n = m THEN then(m, u) ELSE u[n]]
  <2>2. \A n \in 0..m - 1 : v[n] = u[n]
    BY <1>1
  <2>3. \A n \in 0..m : then(n, v) = then(n, u)
    <3> HIDE DEF v
    <3>1. TAKE n \in 0..m
    <3>2. n \in Nat /\ (n = 0 \/ n - 1 \in 0..m - 1)
      BY <1>1
    <3>3. n = 0 \/ v[n - 1] = u[n - 1]
      BY <2>2, <3>2
    <3> QED BY <1>3, <3>2, <3>3
  <2>4. \A n \in 0..m : v[n] = then(n, u)
    BY <1>1, <2>1
  <2>5. v = [n \in 0..m |-> v[n]]
    OBVIOUS
  <2> HIDE DEF v
  <2>6. Is(m, v)
    BY <2>3, <2>4, <2>5
  <2>7. m \in 0..N
    BY <1>1
  <2> HIDE DEF Is
  <2> QED BY <2>6, <2>7
<1>6. N \in good
  <2> HIDE DEF good
  <2>1. \A n \in 0..N : n \in good
    BY <1>1, <1>4, <1>5, Stepwise
  <2> QED BY <1>1, <2>1
<1> DEFINE u == CHOOSE v : Is(N, v)
<1>7. Is(N, u)
  BY <1>6
<1>8. ParseExpr(text) = u[N]
  BY <1>2
<1> HIDE DEF u
<1>9. \A n \in 0..N : u[n] = then(n, u)
  BY <1>7
<1>10. Levels(text, u)
  BY <1>9 DEF Levels, then, N
<1> QED BY <1>8, <1>10 DEF N

LEMMA LevelsGoOn ==
  ASSUME NEW text, IsWritten(text), NEW u, Levels(text, u)
  PROVE  \A n \in 0..Len(text) : GoesOn(text, u[n])
<1> DEFINE N == Len(text)
           good == {n \in 0..N : GoesOn(text, u[n])}
<1>1. N \in Nat
  BY DEF IsWritten
<1>2. 0 \in good
  <2>1. \A q \in 1..N + 1 : u[0][q] = Thrown
    BY <1>1 DEF Levels
  <2>2. \A q \in 1..N + 1 : u[0][q].thrown = TRUE
    BY <2>1 DEF Thrown
  <2>3. GoesOn(text, u[0])
    BY <2>2 DEF GoesOn
  <2> QED BY <1>1, <2>3
<1>3. ASSUME NEW n \in 0 + 1..N, n - 1 \in good PROVE n \in good
  <2>1. GoesOn(text, u[n - 1]) /\ n \in 0..N /\ n # 0
    BY <1>1, <1>3
  <2> DEFINE read == u[n - 1]  level == u[n]
  <2>2. ASSUME NEW q \in 1..N + 1 PROVE EndsBehind(text, level[q], q)
    <3>1. level[q] = ParseExprBy(text, q, read)
      BY <2>1 DEF Levels
    <3> HIDE DEF read, level
    <3> QED BY <2>1, <3>1, ExprEnds DEF read
  <2>3. GoesOn(text, level)
    <3> HIDE DEF level
    <3> QED BY <2>2 DEF GoesOn, EndsBehind
  <2> QED BY <2>1, <2>3
<1>4. \A n \in 0..N : n \in good
  <2> HIDE DEF good
  <2> QED BY <1>1, <1>2, <1>3, Stepwise
<1> QED BY <1>4

\* A parser that has not failed has gone on, whatever the text, and has not left it: so
\* every list, and parse_all(), come to an end.
THEOREM ParserGoesOn ==
  ASSUME NEW text \in Seq(STRING \ {EndOfText})
  PROVE  \A p \in 1..Len(text) + 1 :
           ~ParseExpr(text)[p].thrown => ParseExpr(text)[p].pos \in p + 1..Len(text) + 1
<1>1. IsWritten(text) /\ Len(text) \in 0..Len(text)
  BY DEF IsWritten, Written
<1>2. PICK u : Levels(text, u) /\ ParseExpr(text) = u[Len(text)]
  BY <1>1, LevelsExist
<1>3. GoesOn(text, u[Len(text)])
  BY <1>1, <1>2, LevelsGoOn
<1> QED BY <1>2, <1>3 DEF GoesOn

-----------------------------------------------------------------------------
(***************************************************************************)
(* Values in order, from the front                                         *)
(***************************************************************************)
\* v has one place more than w, before all others.
HasFront(v, w, b, j) ==
  /\ j \in 1..b /\ j \in DOMAIN v
  /\ (\A i \in 1..j - 1 : i \notin DOMAIN v) /\ \A i \in 1..j : i \notin DOMAIN w
  /\ \A i \in j + 1..b : (i \in DOMAIN v <=> i \in DOMAIN w) /\ (i \in DOMAIN v => w[i] = v[i])

Fronted(v, w, b, x) == InOrder(v, b) = <<x>> \o InOrder(w, b)

\* The first of the places adds its value at the front.
LEMMA InOrderFront ==
  ASSUME NEW v, NEW w, NEW b \in Nat, NEW j, HasFront(v, w, b, j)
  PROVE  Fronted(v, w, b, v[j])
<1> DEFINE S == {v[i] : i \in 1..b}
           of(x, i) == IF i \in DOMAIN x THEN <<x[i]>> ELSE <<>>
           front == <<v[j]>>
<1>1. PICK f : OrderedBy(v, b, f)
  BY InOrderIs, Zenon
<1>2. PICK g : OrderedBy(w, b, g)
  BY InOrderIs, Zenon
<1>3. f[0] = <<>> /\ \A i \in 1..b : f[i] = f[i - 1] \o of(v, i)
  BY <1>1 DEF OrderedBy
<1>4. g[0] = <<>> /\ \A i \in 1..b : g[i] = g[i - 1] \o of(w, i)
  BY <1>2 DEF OrderedBy
<1>5. \A i \in 1..b : of(v, i) \in Seq(S)
  <2>1. \A i \in 1..b : v[i] \in S
    OBVIOUS
  <2>2. \A i \in 1..b : <<v[i]>> \in Seq(S)
    <3> HIDE DEF S
    <3> QED BY <2>1
  <2> HIDE DEF S
  <2> QED BY <2>2, EmptySeq
<1>6. (\A i \in 1..j - 1 : of(v, i) = <<>>) /\ (\A i \in 1..j : of(w, i) = <<>>) /\ of(v, j) = front
  BY DEF HasFront
<1>7. \A i \in j + 1..b : of(v, i) = of(w, i)
  BY DEF HasFront
<1>0. j \in 1..b
  BY DEF HasFront
<1>8. front \in Seq(S)
  BY <1>0, <1>5, <1>6
<1> HIDE DEF S, of, front
<1> DEFINE empty == {n \in 0..j : g[n] = <<>> /\ (n < j => f[n] = <<>>)}
<1>9. ASSUME NEW n \in 0 + 1..j, n - 1 \in empty PROVE n \in empty
  <2>1. n \in 1..b /\ n \in 0..j /\ n - 1 < j
    BY <1>0
  <2>2. g[n] = <<>> \o <<>>
    <3>1. n \in 1..j
      BY <1>0
    <3> QED BY <1>4, <1>6, <1>9, <2>1, <3>1
  <2>3. n < j => f[n] = <<>> \o <<>>
    <3>1. n < j => n \in 1..j - 1
      BY <1>0
    <3> QED BY <1>3, <1>6, <1>9, <2>1, <3>1
  <2>4. <<>> \o <<>> = <<>>
    BY EmptySeq, ConcatEmptySeq
  <2> QED BY <2>1, <2>2, <2>3, <2>4
<1>10. \A n \in 0..j : n \in empty
  <2>1. 0 \in empty
    BY <1>0, <1>3, <1>4
  <2>2. j \in Nat
    BY <1>0
  <2> HIDE DEF empty
  <2> QED BY <1>9, <2>1, <2>2, Stepwise
<1> DEFINE same == {n \in j..b : g[n] \in Seq(S) /\ f[n] = front \o g[n]}
<1>11. j \in same
  <2>1. j - 1 \in empty /\ j \in empty
    BY <1>0, <1>10
  <2>2. f[j - 1] = <<>> /\ g[j] = <<>>
    BY <1>0, <2>1
  <2>3. f[j] = <<>> \o front
    BY <1>0, <1>3, <1>6, <2>2
  <2>4. <<>> \o front = front /\ front \o <<>> = front /\ <<>> \in Seq(S)
    BY <1>8, EmptySeq, ConcatEmptySeq
  <2>5. f[j] = front /\ front \o g[j] = front /\ g[j] \in Seq(S)
    BY <2>2, <2>3, <2>4, Zenon
  <2>6. j \in j..b
    BY <1>0
  <2> QED BY <2>5, <2>6
<1>12. ASSUME NEW n \in j + 1..b, n - 1 \in same PROVE n \in same
  <2>1. n \in 1..b /\ n \in j..b
    BY <1>0
  <2>2. f[n] = f[n - 1] \o of(w, n) /\ g[n] = g[n - 1] \o of(w, n) /\ of(w, n) \in Seq(S)
    BY <1>3, <1>4, <1>5, <1>7, <2>1
  <2>3. g[n - 1] \in Seq(S) /\ f[n - 1] = front \o g[n - 1]
    BY <1>12
  <2>4. (front \o g[n - 1]) \o of(w, n) = front \o (g[n - 1] \o of(w, n))
    <3> DEFINE s == g[n - 1]  t == of(w, n)
    <3>1. s \in Seq(S) /\ t \in Seq(S)
      BY <2>2, <2>3
    <3> HIDE DEF s, t
    <3>2. (front \o s) \o t = front \o (s \o t)
      BY <1>8, <3>1, ConcatAssociative
    <3> QED BY <3>2 DEF s, t
  <2>5. g[n - 1] \o of(w, n) \in Seq(S)
    BY <2>2, <2>3, ConcatProperties
  <2> QED BY <2>1, <2>2, <2>3, <2>4, <2>5
<1>13. \A n \in j..b : n \in same
  <2>1. j \in Nat
    BY <1>0
  <2> HIDE DEF same
  <2> QED BY <1>11, <1>12, <2>1, Stepwise
<1>14. f[b] = front \o g[b]
  BY <1>0, <1>13
<1> QED BY <1>1, <1>2, <1>14 DEF OrderedBy, front, Fronted

-----------------------------------------------------------------------------
(***************************************************************************)
(* Strings                                                                 *)
(***************************************************************************)
\* A backslash escapes if it is not escaped.
LEMMA EscapesAlternate ==
  ASSUME NEW text, NEW a \in Nat \ {0}, text[a] # Backslash
  PROVE  /\ ~Escapes(text, a)
         /\ \A k \in Nat : k > a => (Escapes(text, k) <=> text[k] = Backslash /\ ~Escapes(text, k - 1))
<1>1. ~Escapes(text, a)
  BY DEF Escapes
<1>2. ASSUME NEW k \in Nat, k > a, Escapes(text, k) PROVE text[k] = Backslash /\ ~Escapes(text, k - 1)
  <2>1. PICK m \in 1..k - 1 : text[m] # Backslash /\ (\A j \in m + 1..k : text[j] = Backslash) /\ (k - m) % 2 = 1
    BY <1>2 DEF Escapes
  <2>2. text[k] = Backslash
    BY <2>1
  <2>3. ASSUME Escapes(text, k - 1) PROVE FALSE
    <3>1. PICK i \in 1..k - 2 : /\ text[i] # Backslash /\ (\A j \in i + 1..k - 1 : text[j] = Backslash)
                                /\ (k - 1 - i) % 2 = 1
      BY <2>3 DEF Escapes
    <3>2. i = m
      <4>1. ~(i < m)
        <5> SUFFICES ASSUME i < m PROVE FALSE
          OBVIOUS
        <5>1. m \in i + 1..k - 1
          BY <1>2, <2>1, <3>1
        <5> QED BY <2>1, <3>1, <5>1
      <4>2. ~(m < i)
        <5> SUFFICES ASSUME m < i PROVE FALSE
          OBVIOUS
        <5>1. i \in m + 1..k
          BY <1>2, <2>1, <3>1
        <5> QED BY <2>1, <3>1, <5>1
      <4> QED BY <2>1, <3>1, <4>1, <4>2
    <3>3. (k - m) % 2 = 1 /\ (k - m - 1) % 2 = 1 /\ k - m \in Nat
      BY <1>2, <2>1, <3>1, <3>2
    <3> DEFINE d == k - m
    <3> HIDE DEF d
    <3>4. d % 2 = 1 /\ (d - 1) % 2 = 1 /\ d \in Nat
      BY <3>3 DEF d
    <3> QED BY <3>4
  <2> QED BY <2>2, <2>3
<1>3. ASSUME NEW k \in Nat, k > a, text[k] = Backslash, ~Escapes(text, k - 1) PROVE Escapes(text, k)
  <2> DEFINE others == {m \in 0..k - 1 : m # 0 /\ text[m] # Backslash}
             m == Highest(others)
  <2>1. k - 1 \in Nat /\ others \in SUBSET (0..k - 1) /\ a \in others
    BY <1>3
  <2>2. m \in others /\ \A j \in others : j <= m
    <3> HIDE DEF others
    <3> QED BY <2>1, HighestIs
  <2>3. m \in 1..k - 1 /\ text[m] # Backslash
    BY <2>2
  <2>4. ASSUME NEW j \in m + 1..k PROVE text[j] = Backslash
    <3>1. CASE j = k
      BY <1>3, <3>1
    <3>2. CASE j # k
      <4>1. j \notin others /\ j \in 0..k - 1 /\ j # 0
        <5> HIDE DEF m
        <5>1. j \in 0..k - 1 /\ j # 0 /\ ~(j <= m)
          BY <1>3, <2>3, <3>2
        <5> QED BY <2>2, <5>1
      <4> QED BY <4>1
    <3> QED BY <3>1, <3>2
  <2> HIDE DEF m
  <2>5. CASE (k - m) % 2 = 1
    BY <2>3, <2>4, <2>5 DEF Escapes
  <2>6. CASE (k - m) % 2 # 1
    <3> DEFINE d == k - m
    <3>1. d \in Nat \ {0} /\ k - 1 - m = d - 1 /\ d % 2 # 1
      BY <1>3, <2>3, <2>6
    <3>2. d # 1 /\ (d - 1) % 2 = 1
      <4> HIDE DEF d
      <4> QED BY <3>1
    <3>3. m \in 1..k - 1 - 1 /\ (k - 1 - m) % 2 = 1
      BY <1>3, <2>3, <3>1, <3>2
    <3>4. \A j \in m + 1..k - 1 : text[j] = Backslash
      BY <1>3, <2>3, <2>4
    <3>5. Escapes(text, k - 1)
      BY <2>3, <3>3, <3>4 DEF Escapes
    <3> QED BY <1>3, <3>5
  <2> QED BY <2>5, <2>6
<1> QED BY <1>1, <1>2, <1>3

IsString(text, a, b) ==
  /\ text[a] = Quote /\ a < b
  /\ \A k \in a + 1..b - 2 : text[k] = Quote => Escapes(text, k - 1)
  /\ IsClosed(text, a, b) \/ b = Len(text) + 1

LEMMA KindString ==
  ASSUME NEW text, IsWritten(text), NEW a \in 1..Len(text) + 1, NEW b \in 1..Len(text) + 1,
         IsWord(text, a, b), Kind(text, a) = "string"
  PROVE  IsString(text, a, b)
<1>1. Len(text) \in Nat /\ a < b
  BY DEF IsWritten, IsWord
<1>2. Peek(text, a) = text[a]
  BY <1>1 DEF Peek
<1>3. Peek(text, a) = Quote
  <2> SUFFICES ASSUME Peek(text, a) # Quote PROVE FALSE
    OBVIOUS
  <2>1. Kind(text, a) \in {"open", "close", "number", "symbol"}
    BY DEF Kind
  <2> QED BY <2>1
<1>4. (\A k \in a + 1..b - 2 : text[k] = Quote => Escapes(text, k - 1)) /\ (IsClosed(text, a, b) \/ b = Len(text) + 1)
  BY DEF IsWord
<1> QED BY <1>1, <1>2, <1>3, <1>4 DEF IsString

LEMMA BeforeReading ==
  ASSUME NEW c, NEW p, NEW kind, NEW s
  PROVE  Before(c, Reading(p, <<kind, s>>)) = Reading(p, <<kind, <<c>> \o s>>)
BY DEF Before, Reading

\* What the characters of a string from q on stand for
KeptFrom(text, a, b, q) ==
  [k \in {i \in a + 1..b - 2 : ~Escapes(text, i) /\ q <= i} |-> IF Escapes(text, k - 1) THEN Escaped(text[k]) ELSE text[k]]

LEMMA StringClosed ==
  ASSUME NEW text, IsWritten(text), NEW a \in 1..Len(text) + 1, NEW b \in 1..Len(text) + 1,
         IsString(text, a, b), IsClosed(text, a, b)
  PROVE  ParseString(text, a + 1) = Reading(b, <<"string", StringOf(text, a, b)>>)
<1> DEFINE kept(q) == KeptFrom(text, a, b, q)
           tree(q) == Reading(b, <<"string", InOrder(kept(q), b)>>)
           good == {q \in a + 1..b - 1 : ~Escapes(text, q - 1) => ParseString(text, q) = tree(q)}
<1>1. /\ Len(text) \in Nat /\ a \in Nat \ {0} /\ b \in Nat /\ a + 1 < b /\ text[b - 1] = Quote /\ ~Escapes(text, b - 2)
      /\ text[a] # Backslash
  BY Characters DEF IsWritten, IsString, IsClosed
<1>2. ~Escapes(text, a) /\ \A k \in Nat : k > a => (Escapes(text, k) <=> text[k] = Backslash /\ ~Escapes(text, k - 1))
  BY <1>1, EscapesAlternate
<1>3. ASSUME NEW q \in a + 1..b - 1, \A j \in q + 1..b - 1 : j \in good PROVE q \in good
  <2> SUFFICES ASSUME ~Escapes(text, q - 1) PROVE ParseString(text, q) = tree(q)
    OBVIOUS
  <2>1. q \in Nat /\ q > a /\ q \in 1..Len(text) /\ q \in 1..Len(text) + 1 /\ Peek(text, q) = text[q] /\ Peek(text, q) # EndOfText
    BY <1>1, Ends
  <2>2. CASE q = b - 1
    <3>1. ParseString(text, q) = Reading(q + 1, <<"string", <<>>>>)
      BY <1>1, <2>1, <2>2, StringGoesOn
    <3>2. DOMAIN kept(q) = {}
      BY <1>1, <2>2 DEF KeptFrom
    <3>3. InOrder(kept(q), b) = <<>>
      BY <1>1, <3>2, InOrderOfNone
    <3> QED BY <1>1, <2>2, <3>1, <3>3
  <2>3. CASE q # b - 1
    <3>1. q \in a + 1..b - 2 /\ text[q] # Quote
      BY <1>1, <2>3 DEF IsString
    <3>2. Peek(text, q + 1) = text[q + 1] /\ Peek(text, q + 1) # EndOfText
      BY <1>1, <2>1, <3>1, Ends
    <3>3. CASE text[q] = Backslash
      <4>1. ParseString(text, q) = Before(Escaped(text[q + 1]), ParseString(text, q + 2))
        BY <2>1, <3>1, <3>2, <3>3, StringGoesOn
      <4>2. Escapes(text, q)
        BY <1>2, <2>1, <3>3
      <4>3. q # b - 2
        BY <1>1, <4>2
      <4>4. q + 1 \in a + 1..b - 2 /\ q + 1 \in Nat /\ q + 1 > a /\ q + 1 - 1 = q
        BY <1>1, <3>1, <4>3
      <4>5. ~Escapes(text, q + 1)
        <5> DEFINE k == q + 1
        <5>1. k \in Nat /\ k > a /\ k - 1 = q
          BY <4>4
        <5> HIDE DEF k
        <5>2. ~Escapes(text, k)
          BY <1>2, <4>2, <5>1
        <5> QED BY <5>2 DEF k
      <4>6. ParseString(text, q + 2) = tree(q + 2)
        <5>1. q + 2 \in q + 1..b - 1 /\ q + 2 - 1 = q + 1
          BY <1>1, <4>4
        <5> HIDE DEF tree
        <5> QED BY <1>3, <4>5, <5>1
      <4>7. InOrder(kept(q), b) = <<Escaped(text[q + 1])>> \o InOrder(kept(q + 2), b)
        <5> DEFINE v == kept(q)  w == kept(q + 2)  j == q + 1
        <5>1. /\ j \in 1..b /\ j \in DOMAIN v /\ v[j] = Escaped(text[j])
              /\ \A i \in 1..j - 1 : i \notin DOMAIN v
          <6>1. \A i : i \in DOMAIN v <=> i \in a + 1..b - 2 /\ ~Escapes(text, i) /\ q <= i
            BY DEF KeptFrom
          <6>2. j \in DOMAIN v
            BY <4>4, <4>5, <6>1
          <6>3. v[j] = Escaped(text[j])
            BY <4>2, <4>4, <6>2 DEF KeptFrom
          <6>4. \A i \in 1..j - 1 : i \notin DOMAIN v
            BY <2>1, <4>2, <6>1
          <6>5. j \in 1..b
            BY <1>1, <4>4
          <6> QED BY <6>2, <6>3, <6>4, <6>5
        <5>2. /\ \A i \in 1..j : i \notin DOMAIN w
              /\ \A i \in j + 1..b : (i \in DOMAIN v <=> i \in DOMAIN w) /\ (i \in DOMAIN v => w[i] = v[i])
          <6>1. \A i \in 1..j : ~(q + 2 <= i)
            BY <2>1
          <6>2. \A i \in j + 1..b : q <= i /\ q + 2 <= i
            BY <2>1
          <6> QED BY <6>1, <6>2 DEF KeptFrom
        <5> HIDE DEF v, w, j
        <5>3. HasFront(v, w, b, j)
          BY <5>1, <5>2 DEF HasFront
        <5>4. Fronted(v, w, b, v[j])
          BY <1>1, <5>3, InOrderFront
        <5> QED BY <5>1, <5>4 DEF v, w, j, Fronted
      <4> QED BY <4>1, <4>6, <4>7, BeforeReading
    <3>4. CASE text[q] # Backslash
      <4>1. ParseString(text, q) = Before(text[q], ParseString(text, q + 1))
        BY <2>1, <3>1, <3>4, StringGoesOn
      <4>2. ~Escapes(text, q)
        BY <1>2, <2>1, <3>4
      <4>3. ParseString(text, q + 1) = tree(q + 1)
        <5>1. q + 1 \in q + 1..b - 1 /\ q + 1 - 1 = q
          BY <1>1, <3>1
        <5> HIDE DEF tree
        <5> QED BY <1>3, <4>2, <5>1
      <4>4. InOrder(kept(q), b) = <<text[q]>> \o InOrder(kept(q + 1), b)
        <5> DEFINE v == kept(q)  w == kept(q + 1)
        <5>1. q \in DOMAIN v /\ v[q] = text[q] /\ \A i \in 1..q - 1 : i \notin DOMAIN v
          <6>1. \A i : i \in DOMAIN v <=> i \in a + 1..b - 2 /\ ~Escapes(text, i) /\ q <= i
            BY DEF KeptFrom
          <6>2. q \in DOMAIN v
            BY <2>1, <3>1, <4>2, <6>1
          <6>3. v[q] = text[q]
            BY <6>2 DEF KeptFrom
          <6>4. \A i \in 1..q - 1 : i \notin DOMAIN v
            BY <2>1, <6>1
          <6> QED BY <6>2, <6>3, <6>4
        <5>2. /\ \A i \in 1..q : i \notin DOMAIN w
              /\ \A i \in q + 1..b : (i \in DOMAIN v <=> i \in DOMAIN w) /\ (i \in DOMAIN v => w[i] = v[i])
          <6>1. \A i \in 1..q : ~(q + 1 <= i)
            BY <2>1
          <6>2. \A i \in q + 1..b : q <= i /\ q + 1 <= i
            BY <2>1
          <6> QED BY <6>1, <6>2 DEF KeptFrom
        <5>3. q \in 1..b
          BY <1>1, <2>1
        <5> HIDE DEF v, w
        <5>4. HasFront(v, w, b, q)
          BY <5>1, <5>2, <5>3 DEF HasFront
        <5>5. Fronted(v, w, b, v[q])
          BY <1>1, <5>4, InOrderFront
        <5> QED BY <5>1, <5>5 DEF v, w, Fronted
      <4> QED BY <4>1, <4>3, <4>4, BeforeReading
    <3> QED BY <3>3, <3>4
  <2> QED BY <2>2, <2>3
<1>4. a + 1 \in good
  <2>1. a + 1 \in Nat /\ b - 1 \in Nat /\ a + 1 \in a + 1..b - 1
    BY <1>1
  <2> HIDE DEF good
  <2>2. \A q \in a + 1..b - 1 : q \in good
    BY <1>3, <2>1, Downwards, ZenonT(60)
  <2> QED BY <2>1, <2>2
<1>5. ParseString(text, a + 1) = tree(a + 1)
  <2>1. a + 1 - 1 = a
    BY <1>1
  <2> HIDE DEF tree
  <2> QED BY <1>2, <1>4, <2>1
<1>6. StringOf(text, a, b) = InOrder(kept(a + 1), b)
  <2>1. {k \in a + 1..b - 2 : ~Escapes(text, k)} = {i \in a + 1..b - 2 : ~Escapes(text, i) /\ a + 1 <= i}
    BY <1>1
  <2> QED BY <2>1 DEF StringOf, KeptFrom
<1> QED BY <1>5, <1>6

LEMMA StringOpen ==
  ASSUME NEW text, IsWritten(text), NEW a \in 1..Len(text) + 1, NEW b \in 1..Len(text) + 1,
         IsString(text, a, b), ~IsClosed(text, a, b)
  PROVE  ParseString(text, a + 1) = Thrown
<1> DEFINE N == Len(text) + 1
           good == {q \in a + 1..N : ~Escapes(text, q - 1) \/ q = N => ParseString(text, q) = Thrown}
<1>1. /\ Len(text) \in Nat /\ N \in Nat /\ a \in Nat \ {0} /\ b = N /\ a < b /\ text[a] # Backslash
  BY Characters DEF IsWritten, IsString
<1>2. ~Escapes(text, a) /\ \A k \in Nat : k > a => (Escapes(text, k) <=> text[k] = Backslash /\ ~Escapes(text, k - 1))
  BY <1>1, EscapesAlternate
<1>3. \A c : Before(c, Thrown) = Thrown
  BY DEF Before, Thrown
<1>4. ASSUME NEW q \in a + 1..N, \A j \in q + 1..N : j \in good PROVE q \in good
  <2> SUFFICES ASSUME ~Escapes(text, q - 1) \/ q = N PROVE ParseString(text, q) = Thrown
    OBVIOUS
  <2>1. q \in Nat \ {0} /\ q > a /\ q \in 1..N
    BY <1>1
  <2>2. CASE q = N
    <3>1. Peek(text, q) = EndOfText
      BY <1>1, <2>2 DEF Peek
    <3> QED BY <2>1, <3>1, Characters, StringGoesOn
  <2>3. CASE q # N
    <3>1. q <= Len(text) /\ Peek(text, q) = text[q] /\ Peek(text, q) # EndOfText /\ ~Escapes(text, q - 1)
      BY <1>1, <2>1, <2>3, Ends
    <3>2. text[q] # Quote
      <4>1. SUFFICES ASSUME text[q] = Quote PROVE FALSE
        OBVIOUS
      <4>2. CASE q \in a + 1..b - 2
        BY <3>1, <4>1, <4>2 DEF IsString
      <4>3. CASE q \notin a + 1..b - 2
        <5>1. q = b - 1 /\ b - 2 = q - 1 /\ a + 1 < b
          BY <1>1, <2>1, <3>1, <4>3
        <5> QED BY <3>1, <4>1, <5>1 DEF IsClosed
      <4> QED BY <4>2, <4>3
    <3>3. CASE text[q] = Backslash /\ Peek(text, q + 1) # EndOfText
      <4>1. ParseString(text, q) = Before(Escaped(Peek(text, q + 1)), ParseString(text, q + 2))
        BY <2>1, <3>1, <3>2, <3>3, StringGoesOn
      <4>2. ~(q + 1 > Len(text))
        <5> DEFINE k == q + 1
        <5>1. k \in Nat \ {0}
          BY <2>1
        <5> HIDE DEF k
        <5>2. Peek(text, k) = EndOfText <=> k > Len(text)
          BY <5>1, Ends
        <5> QED BY <3>3, <5>2 DEF k
      <4>3. Escapes(text, q)
        BY <1>2, <2>1, <3>1, <3>3
      <4>4. ~Escapes(text, q + 1)
        <5> DEFINE k == q + 1
        <5>1. k \in Nat /\ k > a /\ k - 1 = q
          BY <2>1
        <5> HIDE DEF k
        <5>2. ~Escapes(text, k)
          BY <1>2, <4>3, <5>1
        <5> QED BY <5>2 DEF k
      <4>5. ParseString(text, q + 2) = Thrown
        <5>1. q + 2 \in q + 1..N /\ q + 2 - 1 = q + 1
          BY <1>1, <2>1, <4>2
        <5> QED BY <1>4, <4>4, <5>1
      <4> QED BY <1>3, <4>1, <4>5
    <3>4. CASE text[q] = Backslash /\ Peek(text, q + 1) = EndOfText
      <4>1. ParseString(text, q) = Before(text[q], ParseString(text, q + 1))
        BY <2>1, <3>1, <3>2, <3>4, StringGoesOn
      <4>2. q + 1 = N /\ q + 1 \in q + 1..N
        <5> DEFINE k == q + 1
        <5>1. k \in Nat \ {0}
          BY <2>1
        <5> HIDE DEF k
        <5>2. Peek(text, k) = EndOfText <=> k > Len(text)
          BY <5>1, Ends
        <5>3. k > Len(text)
          BY <3>4, <5>2 DEF k
        <5> QED BY <1>1, <2>1, <3>1, <5>3 DEF k
      <4>3. ParseString(text, q + 1) = Thrown
        BY <1>4, <4>2
      <4> QED BY <1>3, <4>1, <4>3
    <3>5. CASE text[q] # Backslash
      <4>1. ParseString(text, q) = Before(text[q], ParseString(text, q + 1))
        BY <2>1, <3>1, <3>2, <3>5, StringGoesOn
      <4>2. ~Escapes(text, q)
        BY <1>2, <2>1, <3>5
      <4>3. q + 1 \in q + 1..N /\ q + 1 - 1 = q
        BY <1>1, <2>1, <3>1
      <4>4. ParseString(text, q + 1) = Thrown
        BY <1>4, <4>2, <4>3
      <4> QED BY <1>3, <4>1, <4>4
    <3> QED BY <3>3, <3>4, <3>5
  <2> QED BY <2>2, <2>3
<1>5. a + 1 \in good
  <2>1. a + 1 \in Nat /\ a + 1 \in a + 1..N
    BY <1>1
  <2> HIDE DEF good, N
  <2>2. \A q \in a + 1..N : q \in good
    BY <1>1, <1>4, <2>1, Downwards
  <2> QED BY <2>1, <2>2
<1>6. a + 1 - 1 = a
  BY <1>1
<1> QED BY <1>2, <1>5, <1>6

LEMMA StringRead ==
  ASSUME NEW text, IsWritten(text), NEW a \in 1..Len(text) + 1, NEW b \in 1..Len(text) + 1,
         IsWord(text, a, b), Kind(text, a) = "string"
  PROVE  ParseString(text, a + 1) = IF IsSpoilt(text, a, b) THEN Thrown ELSE Reading(b, Atom(text, a, b))
<1>1. IsString(text, a, b)
  BY KindString
<1>2. IsSpoilt(text, a, b) <=> ~IsClosed(text, a, b)
  BY DEF IsSpoilt
<1>3. Atom(text, a, b) = <<"string", StringOf(text, a, b)>>
  BY DEF Atom
<1>4. CASE IsClosed(text, a, b)
  BY <1>1, <1>2, <1>3, <1>4, StringClosed
<1>5. CASE ~IsClosed(text, a, b)
  BY <1>1, <1>2, <1>5, StringOpen
<1> QED BY <1>4, <1>5

-----------------------------------------------------------------------------
(***************************************************************************)
(* Words                                                                   *)
(***************************************************************************)
LEMMA KindIs ==
  ASSUME NEW text, NEW a
  PROVE  Kind(text, a) = IF Peek(text, a) = OpenParen THEN "open" ELSE IF Peek(text, a) = CloseParen THEN "close"
                         ELSE IF Peek(text, a) = Quote THEN "string"
                         ELSE IF StartsNumber(text, a) THEN "number" ELSE "symbol"
<1> DEFINE c == Peek(text, a)
<1>1. StartsNumber(text, a) => c # OpenParen /\ c # CloseParen /\ c # Quote
  BY Characters, DigitCharacters DEF StartsNumber
<1>2. Kind(text, a) = CASE c = OpenParen -> "open" [] c = CloseParen -> "close" [] c = Quote -> "string"
                        [] StartsNumber(text, a) -> "number" [] OTHER -> "symbol"
  BY DEF Kind, StartsNumber
<1> HIDE DEF c
<1>3. c = OpenParen => c # CloseParen /\ c # Quote
  BY Characters
<1>4. c = CloseParen => c # Quote
  BY Characters
<1>5. Kind(text, a) = IF c = OpenParen THEN "open" ELSE IF c = CloseParen THEN "close"
                      ELSE IF c = Quote THEN "string" ELSE IF StartsNumber(text, a) THEN "number" ELSE "symbol"
  BY <1>1, <1>2, <1>3, <1>4
<1> QED BY <1>5 DEF c

LEMMA KindsApart ==
  /\ "open" # "close" /\ "open" # "string" /\ "open" # "number" /\ "open" # "symbol" /\ "close" # "string"
  /\ "close" # "number" /\ "close" # "symbol" /\ "string" # "number" /\ "string" # "symbol" /\ "number" # "symbol"
OBVIOUS

\* Words of one piece end at a delimiter, and hold none.
IsPiece(text, a, b) ==
  /\ text[a] \notin Spaces \cup {Semicolon}
  /\ (\A k \in a..b - 1 : text[k] \notin Delimiters) /\ Peek(text, b) \in Delimiters

LEMMA WordIs ==
  ASSUME NEW text, NEW a, NEW b, IsWord(text, a, b)
  PROVE  /\ a < b
         /\ Kind(text, a) \in {"open", "close"} => b = a + 1
         /\ Kind(text, a) = "number" /\ ~HasRadix(text, a) => b = BehindDigits(text, FirstDigit(text, a))
         /\ Kind(text, a) = "symbol" \/ (Kind(text, a) = "number" /\ HasRadix(text, a)) => IsPiece(text, a, b)
<1>1. a < b
  BY DEF IsWord
<1>2. ASSUME Kind(text, a) \in {"open", "close"} PROVE b = a + 1
  <2>1. Kind(text, a) # "string" /\ Kind(text, a) # "number"
    BY <1>2
  <2> QED BY <1>2, <2>1 DEF IsWord
<1>3. ASSUME Kind(text, a) = "number", ~HasRadix(text, a) PROVE b = BehindDigits(text, FirstDigit(text, a))
  <2>1. Kind(text, a) # "string" /\ Kind(text, a) \notin {"open", "close"}
    BY <1>3
  <2> QED BY <1>3, <2>1 DEF IsWord
<1>4. ASSUME Kind(text, a) = "symbol" \/ (Kind(text, a) = "number" /\ HasRadix(text, a)) PROVE IsPiece(text, a, b)
  <2>1. Kind(text, a) # "string" /\ Kind(text, a) \notin {"open", "close"} /\ ~(Kind(text, a) = "number" /\ ~HasRadix(text, a))
    BY <1>4
  <2> QED BY <2>1 DEF IsWord, IsPiece
<1> QED BY <1>1, <1>2, <1>3, <1>4

LEMMA SymbolRead ==
  ASSUME NEW text, IsWritten(text), NEW a \in 1..Len(text) + 1, NEW b \in 1..Len(text) + 1,
         IsWord(text, a, b), Kind(text, a) = "symbol"
  PROVE  ParseSymbol(text, a) = Reading(b, Atom(text, a, b)) /\ ~IsSpoilt(text, a, b)
<1>1. Len(text) \in Nat /\ a < b /\ IsPiece(text, a, b)
  BY WordIs DEF IsWritten
<1>2. \A k \in a..b - 1 : Peek(text, k) = text[k]
  BY <1>1 DEF Peek
<1>3. Finds(text, a, Delimiters, b)
  BY <1>1, <1>2, Characters DEF Finds, IsPiece
<1>4. Find(text, a, Delimiters) = b
  BY <1>3, FindIs
<1>5. Atom(text, a, b) = <<"symbol", SubSeq(text, a, b - 1)>>
  BY KindsApart DEF Atom
<1>6. ParseSymbol(text, a) = IF b = a THEN Thrown ELSE Reading(b, <<"symbol", SubSeq(text, a, b - 1)>>)
  BY <1>4 DEF ParseSymbol
<1>7. b # a
  BY <1>1
<1>8. ~IsSpoilt(text, a, b)
  BY KindsApart DEF IsSpoilt
<1> QED BY <1>5, <1>6, <1>7, <1>8

LEMMA NumberRead ==
  ASSUME NEW text, IsWritten(text), NEW a \in 1..Len(text) + 1, NEW b \in 1..Len(text) + 1,
         IsWord(text, a, b), Kind(text, a) = "number"
  PROVE  ParseNumber(text, a) = IF IsSpoilt(text, a, b) THEN Thrown ELSE Reading(b, Atom(text, a, b))
<1> DEFINE negative == text[a] = Minus
           first == FirstDigit(text, a)
           end == BehindDigits(text, first)
           n == NumberOf(SubSeq(text, first, end - 1), 10)
           result(m) == <<"number", IF negative THEN -m ELSE m>>
<1>1. Len(text) \in Nat /\ a < b /\ Peek(text, a) = text[a] /\ StartsNumber(text, a)
  <2>1. Len(text) \in Nat /\ a < b
    BY WordIs DEF IsWritten
  <2>2. StartsNumber(text, a)
    BY KindIs, KindsApart
  <2> QED BY <2>1, <2>2 DEF Peek
<1>2. first = IF Peek(text, a) = Minus THEN a + 1 ELSE a
  BY <1>1 DEF FirstDigit
<1>3. /\ first \in a..Len(text) /\ end \in first + 1..Len(text) + 1
      /\ \A k \in first..end - 1 : IsDigit(Peek(text, k))
  <2>1. first \in a..Len(text) /\ end \in first + 1..Len(text) + 1
    BY <1>1, <1>2, DigitsEnd
  <2>2. first \in 1..Len(text) + 1
    BY <1>1, <2>1
  <2> HIDE DEF first
  <2>3. Counts(text, first, end)
    BY <2>2, DigitsAre
  <2> QED BY <2>1, <2>3 DEF Counts
<1>4. ParseNumber(text, a) = IF HasRadix(text, a) THEN ParseRadix(text, end + 1, negative, n) ELSE Signless(end, negative, n)
  BY <1>1 DEF ParseNumber, HasRadix, FirstDigit
<1>5. Atom(text, a, b) = result(MagnitudeOf(text, a, b))
  BY KindsApart DEF Atom
<1>6. IsSpoilt(text, a, b) <=> ~IsNumber(text, a, b)
  BY KindsApart DEF IsSpoilt
<1>7. Radix(text, a) = IF HasRadix(text, a) THEN n ELSE 10
  BY DEF Radix
<1>8. DigitsIn(text, a, b) = SubSeq(text, IF HasRadix(text, a) THEN end + 1 ELSE first, b - 1)
  BY DEF DigitsIn
<1>9. \A p, m : Signless(p, negative, m) = IF m > MaxNumber THEN Thrown ELSE Reading(p, result(m))
  BY DEF Signless
<1>10. CASE HasRadix(text, a)
  <2> DEFINE digits == SubSeq(text, end + 1, b - 1)
             magnitude == NumberOf(digits, n)
             spoilt == n \notin 2..36 \/ digits = <<>> \/ \E i \in DOMAIN digits : DigitValue(digits[i]) >= n
  <2>1. Peek(text, end) \in {"r", "R"}
    BY <1>10 DEF HasRadix
  <2>2. IsPiece(text, a, b)
    BY <1>10, WordIs
  <2>3. \A k \in a..end : Peek(text, k) \notin Delimiters
    <3>1. \A c : IsDigit(c) \/ c \in {"r", "R"} => c \notin Delimiters
      BY DigitCharacters
    <3>2. first # a => Peek(text, a) \notin Delimiters
      <4>1. Minus \notin Delimiters
        BY Characters DEF Delimiters
      <4> QED BY <1>2, <4>1
    <3>3. TAKE k \in a..end
    <3>4. k \in first..end - 1 \/ k = end \/ (k = a /\ first # a)
      <4>1. first = a \/ first = a + 1
        BY <1>2
      <4> HIDE DEF first, end
      <4> QED BY <1>1, <1>3, <4>1
    <3> QED BY <1>3, <2>1, <3>1, <3>2, <3>4
  <2>4. end + 1 \in 1..Len(text) + 1 /\ end + 1 <= b
    <3>1. b \notin a..end
      BY <2>2, <2>3 DEF IsPiece
    <3> HIDE DEF end, first
    <3> QED BY <1>1, <1>3, <3>1
  <2>5. Find(text, end + 1, Delimiters) = b
    <3> HIDE DEF end, first
    <3>1. \A k \in end + 1..b - 1 : k \in a..b - 1 /\ Peek(text, k) = text[k]
      BY <1>1, <1>3 DEF Peek
    <3>2. Finds(text, end + 1, Delimiters, b)
      BY <1>1, <2>2, <2>4, <3>1, Characters DEF Finds, IsPiece
    <3> QED BY <2>4, <3>2, FindIs
  <2>6. ParseRadix(text, end + 1, negative, n) = IF spoilt THEN Thrown ELSE Signless(b, negative, magnitude)
    <3>1. ParseRadix(text, end + 1, negative, n) =
            LET e == Find(text, end + 1, Delimiters)  ds == SubSeq(text, end + 1, e - 1) IN
            IF n \notin 2..36 \/ ds = <<>> \/ \E i \in DOMAIN ds : DigitValue(ds[i]) >= n
            THEN Thrown ELSE Signless(e, negative, NumberOf(ds, n))
      BY DEF ParseRadix
    <3> HIDE DEF end, n, negative
    <3> QED BY <2>5, <3>1
  <2>7. MagnitudeOf(text, a, b) = magnitude
    BY <1>7, <1>8, <1>10 DEF MagnitudeOf
  <2>8. IsNumber(text, a, b) <=> ~spoilt /\ ~(magnitude > MaxNumber)
    <3>1. DigitsIn(text, a, b) = digits /\ Radix(text, a) = n
      BY <1>7, <1>8, <1>10
    <3>2. IsNumber(text, a, b) <=>
            /\ Radix(text, a) \in 2..36 /\ DigitsIn(text, a, b) # <<>>
            /\ ~(HasRadix(text, a) /\ \E i \in DOMAIN DigitsIn(text, a, b) : DigitValue(DigitsIn(text, a, b)[i]) >= Radix(text, a))
            /\ ~(MagnitudeOf(text, a, b) > MaxNumber)
      BY DEF IsNumber
    <3> HIDE DEF digits, n, magnitude
    <3> QED BY <1>10, <2>7, <3>1, <3>2
  <2> HIDE DEF spoilt, magnitude, n, end, negative, result
  <2> QED BY <1>4, <1>5, <1>6, <1>9, <1>10, <2>6, <2>7, <2>8
<1>11. CASE ~HasRadix(text, a)
  <2> DEFINE digits == SubSeq(text, first, b - 1)
  <2>1. b = end
    BY <1>11, WordIs
  <2>2. MagnitudeOf(text, a, b) = n
    BY <1>7, <1>8, <1>11, <2>1 DEF MagnitudeOf
  <2>3. DigitsIn(text, a, b) = digits /\ Radix(text, a) = 10
    BY <1>7, <1>8, <1>11
  <2>4. digits # <<>>
    <3> HIDE DEF first, end
    <3>1. first \in Int /\ b - 1 \in Int /\ first <= b - 1 /\ \A i \in first..b - 1 : text[i] \in Written
      BY <1>1, <1>3, <2>1 DEF IsWritten
    <3>2. Len(SubSeq(text, first, b - 1)) = b - 1 - first + 1
      BY <3>1, SubSeqProperties
    <3>3. Len(<<>>) = 0
      OBVIOUS
    <3> QED BY <1>1, <1>3, <2>1, <3>2, <3>3
  <2>5. IsNumber(text, a, b) <=> ~(n > MaxNumber)
    <3>1. IsNumber(text, a, b) <=>
            /\ Radix(text, a) \in 2..36 /\ DigitsIn(text, a, b) # <<>>
            /\ ~(HasRadix(text, a) /\ \E i \in DOMAIN DigitsIn(text, a, b) : DigitValue(DigitsIn(text, a, b)[i]) >= Radix(text, a))
            /\ ~(MagnitudeOf(text, a, b) > MaxNumber)
      BY DEF IsNumber
    <3> HIDE DEF digits, n
    <3> QED BY <1>11, <2>2, <2>3, <2>4, <3>1
  <2> HIDE DEF n, end, negative, result
  <2> QED BY <1>4, <1>5, <1>6, <1>9, <1>11, <2>1, <2>2, <2>5
<1> QED BY <1>10, <1>11

\* What parse_expr() does where a word stands
LEMMA WordRead ==
  ASSUME NEW text, IsWritten(text), NEW a \in 1..Len(text) + 1, NEW b \in 1..Len(text) + 1, IsWord(text, a, b), NEW read
  PROVE  /\ ~IsBlank(text, a) /\ a <= Len(text)
         /\ Kind(text, a) = "open" => ParseExprBy(text, a, read) = ParseList(text, a + 1, read)
         /\ Kind(text, a) = "close" => ParseExprBy(text, a, read) = Thrown
         /\ Kind(text, a) \notin {"open", "close"} =>
              ParseExprBy(text, a, read) = IF IsSpoilt(text, a, b) THEN Thrown ELSE Reading(b, Atom(text, a, b))
<1> DEFINE c == Peek(text, a)
           kind == Kind(text, a)
           r == ParseExprBy(text, a, read)
<1>1. Len(text) \in Nat /\ a < b /\ a <= Len(text) /\ c = text[a] /\ c # EndOfText
  <2>1. Len(text) \in Nat /\ a < b
    BY WordIs DEF IsWritten
  <2> QED BY <2>1, Ends
<1>2. /\ c = OpenParen => kind = "open"
      /\ c # OpenParen /\ c = CloseParen => kind = "close"
      /\ c # OpenParen /\ c # CloseParen /\ c = Quote => kind = "string"
      /\ c # OpenParen /\ c # CloseParen /\ c # Quote /\ StartsNumber(text, a) => kind = "number"
      /\ c # OpenParen /\ c # CloseParen /\ c # Quote /\ ~StartsNumber(text, a) => kind = "symbol"
  BY KindIs
<1>3. ~IsBlank(text, a)
  <2>1. \A x \in Spaces \cup {Semicolon} : x # OpenParen /\ x # CloseParen /\ x # Quote /\ x # Minus /\ ~IsDigit(x)
    BY Characters, DigitCharacters
  <2>2. SUFFICES ASSUME c \in Spaces \cup {Semicolon} PROVE FALSE
    BY DEF IsBlank
  <2>3. kind = "symbol"
    BY <1>2, <2>1, <2>2 DEF StartsNumber
  <2>4. IsPiece(text, a, b)
    BY <2>3, WordIs
  <2> QED BY <1>1, <2>2, <2>4 DEF IsPiece
<1>4. SkipWhitespace(text, a) = a
  BY <1>3, Skips
<1>5. r = CASE c = EndOfText -> Thrown
            [] c = OpenParen -> ParseList(text, a + 1, read)
            [] c = Quote -> ParseString(text, a + 1)
            [] StartsNumber(text, a) -> ParseNumber(text, a)
            [] OTHER -> ParseSymbol(text, a)
  BY <1>4 DEF ParseExprBy, StartsNumber
<1>6. StartsNumber(text, a) => c # OpenParen /\ c # CloseParen /\ c # Quote
  BY Characters, DigitCharacters DEF StartsNumber
<1> HIDE DEF r, c
<1>7. CASE c = OpenParen
  <2>1. r = ParseList(text, a + 1, read)
    BY <1>1, <1>5, <1>6, <1>7, Characters
  <2> QED BY <1>1, <1>2, <1>3, <1>7, <2>1, KindsApart DEF r
<1>8. CASE c # OpenParen /\ c = CloseParen
  <2>1. r = ParseSymbol(text, a)
    BY <1>1, <1>5, <1>6, <1>8, Characters
  <2>2. Finds(text, a, Delimiters, a)
    BY <1>1, <1>8, Characters DEF Finds, c
  <2>3. Find(text, a, Delimiters) = a
    BY <2>2, FindIs
  <2>4. r = Thrown
    BY <2>1, <2>3 DEF ParseSymbol
  <2> QED BY <1>1, <1>2, <1>3, <1>8, <2>4, KindsApart DEF r
<1>9. CASE c # OpenParen /\ c # CloseParen /\ c = Quote
  <2>1. r = ParseString(text, a + 1) /\ kind = "string"
    BY <1>1, <1>2, <1>5, <1>6, <1>9, Characters
  <2> QED BY <1>1, <1>3, <2>1, StringRead, KindsApart DEF r
<1>10. CASE c # OpenParen /\ c # CloseParen /\ c # Quote /\ StartsNumber(text, a)
  <2>1. r = ParseNumber(text, a) /\ kind = "number"
    BY <1>1, <1>2, <1>5, <1>10
  <2> QED BY <1>1, <1>3, <2>1, NumberRead, KindsApart DEF r
<1>11. CASE c # OpenParen /\ c # CloseParen /\ c # Quote /\ ~StartsNumber(text, a)
  <2>1. r = ParseSymbol(text, a) /\ kind = "symbol"
    BY <1>1, <1>2, <1>5, <1>11
  <2> QED BY <1>1, <1>3, <2>1, SymbolRead, KindsApart DEF r
<1> QED BY <1>7, <1>8, <1>9, <1>10, <1>11

-----------------------------------------------------------------------------
(***************************************************************************)
(* The places of a text                                                    *)
(***************************************************************************)
HasPlaces(t) ==
  /\ IsWritten(t.characters) /\ Count(t) \in Nat /\ DOMAIN t.words = 1..Count(t) /\ Len(t.characters) \in Nat
  /\ \A i \in 1..Count(t) :
       /\ Begin(t, i) \in 1..Len(t.characters) + 1 /\ Behind(t, i) \in 1..Len(t.characters) + 1
       /\ IsWord(t.characters, Begin(t, i), Behind(t, i))
       /\ Begin(t, i) = t.words[i].first /\ Behind(t, i) = t.words[i].behind
       /\ Begin(t, i) < Behind(t, i) /\ WordKind(t, i) = Kind(t.characters, Begin(t, i))
       /\ WordKind(t, i) = "open" => Depth(t, i) = Depth(t, i - 1) + 1
       /\ WordKind(t, i) = "close" => Depth(t, i) = Depth(t, i - 1) - 1
       /\ WordKind(t, i) \notin {"open", "close"} => Depth(t, i) = Depth(t, i - 1)
  /\ \A i \in 0..Count(t) : /\ Depth(t, i) \in Int
                            /\ IsGap(t.characters, Behind(t, i), Begin(t, i + 1)) /\ Behind(t, i) <= Begin(t, i + 1)

LEMMA TextHasPlaces == ASSUME NEW t, IsText(t) PROVE HasPlaces(t)
<1> DEFINE N == Len(t.characters) + 1
           word(i) == t.words[i]
           Places == [first : 1..N, behind : 1..N, depth : Int]
<1>1. IsWritten(t.characters) /\ Len(t.characters) \in Nat
  BY DEF IsText, IsWritten, Written
<1>2. t.words \in Seq(Places)
  BY DEF IsText
<1>3. Count(t) \in Nat /\ DOMAIN t.words = 1..Count(t) /\ \A i \in 1..Count(t) : word(i) \in Places
  <2> HIDE DEF Places
  <2> QED BY <1>2 DEF Count
<1>4. \A i \in 1..Count(t) : word(i).first \in 1..N /\ word(i).behind \in 1..N /\ word(i).depth \in Int
  BY <1>3
<1>5. \A i \in 1..Count(t) : Begin(t, i) = word(i).first /\ Behind(t, i) = word(i).behind /\ Depth(t, i) = word(i).depth
  BY <1>3 DEF Begin, Behind, Depth
<1>6. \A i \in 1..Count(t) : IsWord(t.characters, word(i).first, word(i).behind)
  BY <1>3 DEF IsText
<1>7. \A i \in 0..Count(t) : IsGap(t.characters, Behind(t, i), Begin(t, i + 1)) /\ Behind(t, i) <= Begin(t, i + 1)
  BY DEF IsText, IsGap
<1>8. \A i \in 1..Count(t) :
        Depth(t, i) = Depth(t, i - 1) + CASE WordKind(t, i) = "open" -> 1 [] WordKind(t, i) = "close" -> -1 [] OTHER -> 0
  BY <1>3 DEF IsText
<1>9. \A i \in 0..Count(t) : Depth(t, i) \in Int
  <2>1. Depth(t, 0) = 0
    BY DEF Depth
  <2> QED BY <1>3, <1>4, <1>5, <2>1
<1> HIDE DEF word, Places
<1>10. \A i \in 1..Count(t) :
         /\ WordKind(t, i) = "open" => Depth(t, i) = Depth(t, i - 1) + 1
         /\ WordKind(t, i) = "close" => Depth(t, i) = Depth(t, i - 1) - 1
         /\ WordKind(t, i) \notin {"open", "close"} => Depth(t, i) = Depth(t, i - 1)
  <2>1. TAKE i \in 1..Count(t)
  <2>2. Depth(t, i - 1) \in Int
    BY <1>3, <1>9
  <2> QED BY <1>8, <2>2, KindsApart
<1>11. \A i \in 1..Count(t) : word(i).first < word(i).behind
  BY <1>6, WordIs
<1> QED BY <1>1, <1>3, <1>4, <1>5, <1>6, <1>7, <1>9, <1>10, <1>11 DEF HasPlaces, WordKind, word

\* There are not more words than characters.
LEMMA PlacesInOrder ==
  ASSUME NEW t, HasPlaces(t)
  PROVE  Count(t) <= Len(t.characters)
<1> DEFINE good == {i \in 1..Count(t) : i <= Begin(t, i)}
<1>1. ASSUME NEW i \in 1 + 1..Count(t), i - 1 \in good PROVE i \in good
  <2>1. i - 1 \in 1..Count(t) /\ i - 1 \in 0..Count(t) /\ i \in 1..Count(t) /\ Count(t) \in Nat
    BY <1>1 DEF HasPlaces
  <2> DEFINE k == i - 1
  <2>2. k + 1 = i
    BY <2>1
  <2> HIDE DEF k
  <2>3. k <= Begin(t, k) /\ Begin(t, k) < Behind(t, k) /\ Behind(t, k) <= Begin(t, k + 1) /\ k \in Int
    BY <1>1, <2>1 DEF HasPlaces, k
  <2>4. Begin(t, k) \in Int /\ Behind(t, k) \in Int /\ Begin(t, i) \in Int
    BY <2>1 DEF HasPlaces, k
  <2> QED BY <2>1, <2>2, <2>3, <2>4
<1>2. \A i \in 1..Count(t) : i \in good
  <2>1. 1 <= Count(t) => 1 \in good
    BY DEF HasPlaces
  <2>2. Count(t) \in Nat
    BY DEF HasPlaces
  <2> HIDE DEF good
  <2> QED BY <1>1, <2>1, <2>2, Stepwise
<1>3. CASE Count(t) = 0
  BY <1>3 DEF HasPlaces
<1>4. CASE Count(t) # 0
  <2> DEFINE n == Count(t)
  <2>1. n \in 1..Count(t) /\ n \in good
    BY <1>2, <1>4 DEF HasPlaces
  <2>2. n <= Begin(t, n) /\ Begin(t, n) \in 1..Len(t.characters) + 1 /\ Behind(t, n) \in 1..Len(t.characters) + 1
        /\ Begin(t, n) < Behind(t, n) /\ Len(t.characters) \in Nat
    BY <2>1 DEF HasPlaces
  <2> HIDE DEF n
  <2> QED BY <2>1, <2>2 DEF n
<1> QED BY <1>3, <1>4

\* From behind a word, the next one is found.
LEMMA NextWord ==
  ASSUME NEW t, HasPlaces(t), NEW i \in 0..Count(t)
  PROVE  /\ Begin(t, i + 1) \in 1..Len(t.characters) + 1 /\ Behind(t, i) \in 1..Len(t.characters) + 1
         /\ SkipWhitespace(t.characters, Behind(t, i)) = Begin(t, i + 1)
         /\ SkipWhitespace(t.characters, Begin(t, i + 1)) = Begin(t, i + 1)
<1> DEFINE text == t.characters
           a == Begin(t, i + 1)
           p == Behind(t, i)
<1>1. IsWritten(text) /\ Len(text) \in Nat /\ Count(t) \in Nat
  BY DEF HasPlaces
<1>2. p \in 1..Len(text) + 1
  <2>1. CASE i = 0
    BY <1>1, <2>1 DEF Behind
  <2>2. CASE i # 0
    BY <1>1, <2>2 DEF HasPlaces
  <2> QED BY <2>1, <2>2
<1>3. a \in 1..Len(text) + 1 /\ ~IsBlank(text, a)
  <2>1. CASE i = Count(t)
    <3>1. a = Len(text) + 1
      BY <1>1, <2>1 DEF Begin
    <3>2. Peek(text, a) = EndOfText
      BY <1>1, <3>1 DEF Peek
    <3> QED BY <1>1, <3>1, <3>2, Characters DEF IsBlank
  <2>2. CASE i # Count(t)
    <3> DEFINE k == i + 1
    <3>1. k \in 1..Count(t)
      BY <1>1, <2>2
    <3> HIDE DEF k
    <3>2. /\ Begin(t, k) \in 1..Len(text) + 1 /\ Behind(t, k) \in 1..Len(text) + 1
          /\ IsWord(text, Begin(t, k), Behind(t, k))
      BY <3>1 DEF HasPlaces
    <3>3. ~IsBlank(text, Begin(t, k))
      BY <1>1, <3>2, WordRead
    <3> QED BY <3>2, <3>3 DEF k
  <2> QED BY <2>1, <2>2
<1>4. IsGap(text, p, a)
  BY DEF HasPlaces
<1> HIDE DEF text, a, p
<1>5. SkipWhitespace(text, p) = a /\ SkipWhitespace(text, a) = a
  BY <1>1, <1>2, <1>3, <1>4, GapSkipped, Skips
<1> QED BY <1>2, <1>3, <1>5 DEF text, a, p

-----------------------------------------------------------------------------
(***************************************************************************)
(* Lists and their items                                                   *)
(***************************************************************************)
Matched(t, i, m) ==
  /\ m \in i + 1..Count(t) + 1 /\ m \in Nat
  /\ \A j \in i + 1..m - 1 : Depth(t, j) >= Depth(t, i)
  /\ m <= Count(t) => Depth(t, m) = Depth(t, i) - 1 /\ WordKind(t, m) = "close"

LEMMA MatchIs ==
  ASSUME NEW t, HasPlaces(t), NEW i \in 0..Count(t)
  PROVE  Matched(t, i, Match(t, i))
<1> DEFINE S == {j \in i + 1..Count(t) : Depth(t, j) < Depth(t, i)} \cup {Count(t) + 1}
           m == Match(t, i)
<1>1. Count(t) \in Nat /\ i \in Nat
  BY DEF HasPlaces
<1>2. S \in SUBSET Nat /\ S # {}
  BY <1>1
<1>3. m \in S /\ \A j \in S : m <= j
  <2> HIDE DEF S
  <2>1. m = Lowest(S)
    BY DEF Match, S
  <2> QED BY <1>2, <2>1, LowestIs
<1>4. m \in i + 1..Count(t) + 1 /\ (m <= Count(t) => Depth(t, m) < Depth(t, i))
  BY <1>1, <1>3
<1>5. ASSUME NEW j \in i + 1..m - 1 PROVE Depth(t, j) >= Depth(t, i)
  <2> HIDE DEF m
  <2>1. j \in i + 1..Count(t) /\ ~(m <= j)
    BY <1>1, <1>4
  <2>2. j \notin S
    <3> HIDE DEF S
    <3> QED BY <1>3, <2>1
  <2>3. ~(Depth(t, j) < Depth(t, i))
    BY <2>1, <2>2
  <2>4. Depth(t, j) \in Int /\ Depth(t, i) \in Int
    BY <1>1, <2>1 DEF HasPlaces
  <2> QED BY <2>3, <2>4
<1> HIDE DEF m, S
<1>6. ASSUME m <= Count(t) PROVE Depth(t, m) = Depth(t, i) - 1 /\ WordKind(t, m) = "close"
  <2>1. m \in 1..Count(t) /\ m - 1 \in 0..Count(t) /\ m \in 0..Count(t)
    BY <1>1, <1>4, <1>6
  <2>2. Depth(t, m - 1) \in Int /\ Depth(t, m) \in Int /\ Depth(t, i) \in Int
    BY <2>1 DEF HasPlaces
  <2>3. Depth(t, m - 1) >= Depth(t, i)
    <3>1. CASE m - 1 = i
      BY <2>2, <3>1
    <3>2. CASE m - 1 # i
      <4>1. m - 1 \in i + 1..m - 1
        BY <1>1, <1>4, <3>2
      <4> QED BY <1>5, <4>1
    <3> QED BY <3>1, <3>2
  <2>4. Depth(t, m) < Depth(t, i)
    BY <1>4, <1>6
  <2>5. /\ WordKind(t, m) = "open" => Depth(t, m) = Depth(t, m - 1) + 1
        /\ WordKind(t, m) = "close" => Depth(t, m) = Depth(t, m - 1) - 1
        /\ WordKind(t, m) \notin {"open", "close"} => Depth(t, m) = Depth(t, m - 1)
    BY <2>1 DEF HasPlaces
  <2>6. WordKind(t, m) = "close"
    BY <2>2, <2>3, <2>4, <2>5
  <2> QED BY <2>2, <2>3, <2>4, <2>5, <2>6
<1>7. m \in Nat
  BY <1>1, <1>4
<1> QED BY <1>4, <1>5, <1>6, <1>7 DEF Matched, m

\* Where an item of a list ends, the next one begins, or the list ends.
Separated(t, i, j) ==
  /\ WordKind(t, j) # "close" /\ LastOf(t, j) >= j /\ LastOf(t, j) \in Nat
  /\ LastOf(t, j) <= Count(t) => LastOf(t, j) < Match(t, i) /\ LastOf(t, j) + 1 \in ItemsOf(t, i) \cup {Match(t, i)}
  /\ LastOf(t, j) > Count(t) => Match(t, i) > Count(t)
  /\ \A k \in j + 1..LastOf(t, j) : k \notin ItemsOf(t, i)

LEMMA ItemsSeparated ==
  ASSUME NEW t, HasPlaces(t), NEW i \in 0..Count(t), NEW j \in ItemsOf(t, i)
  PROVE  Separated(t, i, j) /\ j \in 1..Count(t)
<1> DEFINE m == Match(t, i)
           e == Match(t, j)
<1>1. Count(t) \in Nat /\ Matched(t, i, m) /\ i \in Nat
  <2>1. Count(t) \in Nat
    BY DEF HasPlaces
  <2> QED BY <2>1, MatchIs
<1>2. j \in i + 1..m - 1 /\ Depth(t, j - 1) = Depth(t, i)
  BY DEF ItemsOf
<1> HIDE DEF m
<1>3. \A k : k \in ItemsOf(t, i) <=> k \in i + 1..m - 1 /\ Depth(t, k - 1) = Depth(t, i)
  BY DEF ItemsOf, m
<1>4. j \in 1..Count(t) /\ j \in 0..Count(t) /\ j - 1 \in 0..Count(t)
  BY <1>1, <1>2 DEF Matched
<1>5. Depth(t, j) \in Int /\ Depth(t, i) \in Int /\ Depth(t, j - 1) \in Int
  BY <1>4 DEF HasPlaces
<1>6. Depth(t, j) >= Depth(t, i)
  BY <1>1, <1>2 DEF Matched
<1>7. /\ WordKind(t, j) = "open" => Depth(t, j) = Depth(t, j - 1) + 1
      /\ WordKind(t, j) = "close" => Depth(t, j) = Depth(t, j - 1) - 1
      /\ WordKind(t, j) \notin {"open", "close"} => Depth(t, j) = Depth(t, j - 1)
  BY <1>4 DEF HasPlaces
<1>8. WordKind(t, j) # "close"
  BY <1>2, <1>5, <1>6, <1>7
<1>9. CASE WordKind(t, j) # "open"
  <2>1. LastOf(t, j) = j /\ Depth(t, j) = Depth(t, i)
    BY <1>2, <1>7, <1>8, <1>9 DEF LastOf
  <2>2. j < m /\ m <= Count(t) + 1 /\ m \in Nat
    BY <1>1, <1>2 DEF Matched
  <2>3. j + 1 \in ItemsOf(t, i) \cup {m}
    <3> DEFINE k == j + 1
    <3>1. k - 1 = j /\ (k # m => k \in i + 1..m - 1)
      BY <1>1, <1>2, <1>4, <2>2
    <3> HIDE DEF k
    <3>2. k \in ItemsOf(t, i) \cup {m}
      BY <1>3, <2>1, <3>1
    <3> QED BY <3>2 DEF k
  <2> QED BY <1>1, <1>4, <1>8, <2>1, <2>2, <2>3 DEF Separated, m
<1>10. CASE WordKind(t, j) = "open"
  <2>1. LastOf(t, j) = e /\ Depth(t, j) = Depth(t, i) + 1
    BY <1>2, <1>7, <1>10 DEF LastOf
  <2>2. Matched(t, j, e)
    BY <1>4, MatchIs
  <2> HIDE DEF e
  <2>3. e \in j + 1..Count(t) + 1 /\ e \in Nat /\ m \in Nat /\ m \in i + 1..Count(t) + 1
    BY <1>1, <2>2 DEF Matched
  <2>4. \A k \in j..e - 1 : Depth(t, k) # Depth(t, i)
    <3>1. TAKE k \in j..e - 1
    <3>2. CASE k = j
      BY <1>5, <2>1, <3>2
    <3>3. CASE k # j
      <4>1. k \in j + 1..e - 1 /\ k \in 0..Count(t)
        BY <1>1, <1>4, <2>3, <3>3
      <4>2. Depth(t, k) >= Depth(t, j) /\ Depth(t, k) \in Int
        BY <2>2, <4>1 DEF Matched, HasPlaces
      <4> QED BY <1>5, <2>1, <4>2
    <3> QED BY <3>2, <3>3
  <2>5. ASSUME m <= Count(t) PROVE e < m
    <3>1. Depth(t, m) = Depth(t, i) - 1
      BY <1>1, <2>5 DEF Matched
    <3>2. m \in j + 1..e - 1 => Depth(t, m) >= Depth(t, j)
      BY <2>2 DEF Matched
    <3>3. e = m => Depth(t, m) = Depth(t, j) - 1
      BY <2>2, <2>5 DEF Matched
    <3>4. j < m
      BY <1>2, <1>4, <2>3
    <3>5. m \notin j + 1..e - 1 /\ e # m
      BY <1>5, <2>1, <3>1, <3>2, <3>3
    <3> QED BY <1>4, <2>3, <3>4, <3>5
  <2>6. ASSUME e <= Count(t) PROVE e < m /\ e + 1 \in ItemsOf(t, i) \cup {m}
    <3>1. e < m
      BY <1>1, <2>3, <2>5, <2>6
    <3>2. Depth(t, e) = Depth(t, i)
      BY <1>5, <2>1, <2>2, <2>6 DEF Matched
    <3> DEFINE k == e + 1
    <3>3. k - 1 = e /\ (k # m => k \in i + 1..m - 1)
      BY <1>1, <1>2, <1>4, <2>3, <3>1
    <3> HIDE DEF k
    <3>4. k \in ItemsOf(t, i) \cup {m}
      BY <1>3, <3>2, <3>3
    <3> QED BY <3>1, <3>4 DEF k
  <2>7. \A k \in j + 1..e : k \notin ItemsOf(t, i)
    <3>1. TAKE k \in j + 1..e
    <3>2. k - 1 \in j..e - 1
      BY <1>4, <2>3
    <3>3. Depth(t, k - 1) # Depth(t, i)
      BY <2>4, <3>2
    <3> QED BY <1>3, <3>3
  <2>8. e > Count(t) => m > Count(t)
    BY <1>1, <2>3, <2>5
  <2>9. e >= j
    BY <1>4, <2>3
  <2> QED BY <1>4, <1>8, <2>1, <2>3, <2>6, <2>7, <2>8, <2>9 DEF Separated, m
<1> QED BY <1>9, <1>10

LEMMA FirstItem ==
  ASSUME NEW t, HasPlaces(t), NEW i \in 0..Count(t)
  PROVE  i + 1 \in ItemsOf(t, i) \cup {Match(t, i)}
<1> DEFINE m == Match(t, i)  k == i + 1
<1>1. Matched(t, i, m) /\ Count(t) \in Nat
  BY MatchIs DEF HasPlaces
<1> HIDE DEF m
<1>2. m \in i + 1..Count(t) + 1 /\ m \in Nat
  BY <1>1 DEF Matched
<1>3. k - 1 = i /\ (k # m => k \in i + 1..m - 1)
  BY <1>1, <1>2
<1> HIDE DEF k
<1>4. k \in ItemsOf(t, i) \cup {m}
  BY <1>3 DEF ItemsOf, m
<1> QED BY <1>4 DEF k, m

\* Every word in a list that is closed is in an item.
LEMMA ItemsCover ==
  ASSUME NEW t, HasPlaces(t), NEW i \in 0..Count(t), Match(t, i) <= Count(t), NEW w \in i + 1..Match(t, i) - 1
  PROVE  \E j \in ItemsOf(t, i) : w \in j..LastOf(t, j)
<1> DEFINE m == Match(t, i)
           S == {j \in 0..w : j \in ItemsOf(t, i)}
           j == Highest(S)
<1>1. Count(t) \in Nat /\ Matched(t, i, m) /\ i \in Nat
  <2>1. Count(t) \in Nat
    BY DEF HasPlaces
  <2> QED BY <2>1, MatchIs
<1>2. w \in Nat /\ w < m /\ i + 1 <= w /\ m \in Nat /\ m <= Count(t)
  BY <1>1 DEF Matched
<1>3. i + 1 \in S
  <2>1. i + 1 \in ItemsOf(t, i)
    BY <1>1, <1>2, FirstItem
  <2> QED BY <1>1, <1>2, <2>1
<1>4. j \in S /\ \A k \in S : k <= j
  <2>1. S \in SUBSET (0..w) /\ S # {}
    BY <1>3
  <2> HIDE DEF S
  <2> QED BY <1>2, <2>1, HighestIs
<1>5. j \in ItemsOf(t, i) /\ j \in 0..w
  BY <1>4
<1> HIDE DEF j
<1>6. Separated(t, i, j) /\ j \in 1..Count(t)
  BY <1>5, ItemsSeparated
<1>7. LastOf(t, j) \in Nat /\ LastOf(t, j) <= Count(t)
  BY <1>1, <1>2, <1>6 DEF Separated
<1>8. ASSUME LastOf(t, j) < w PROVE FALSE
  <2> DEFINE k == LastOf(t, j) + 1
  <2>1. k \in ItemsOf(t, i) \cup {m}
    BY <1>6, <1>7 DEF Separated
  <2>2. k \in 0..w /\ k # m /\ ~(k <= j)
    BY <1>2, <1>5, <1>6, <1>7, <1>8 DEF Separated
  <2> HIDE DEF k, m
  <2>3. k \in S
    BY <2>1, <2>2
  <2> HIDE DEF S
  <2> QED BY <1>4, <2>2, <2>3
<1>9. w \in j..LastOf(t, j)
  BY <1>2, <1>5, <1>7, <1>8
<1> QED BY <1>5, <1>9

\* What a part of a text says
LEMMA TreeIs ==
  ASSUME NEW t, HasPlaces(t), NEW i \in 1..Count(t)
  PROVE  TreeOf(t, i) =
           IF WordKind(t, i) = "open" THEN <<"list", InOrder([k \in ItemsOf(t, i) |-> TreeOf(t, k)], Count(t))>>
           ELSE Atom(t.characters, Begin(t, i), Behind(t, i))
<1> DEFINE N == Count(t)
           items(j) == ItemsOf(t, j)
           atom(j) == Atom(t.characters, t.words[j].first, t.words[j].behind)
           open(j) == WordKind(t, j) = "open"
           then(j, f) == IF open(j) THEN <<"list", InOrder([k \in items(j) |-> f[k]], N)>> ELSE atom(j)
           Is(f) == f = [j \in DOMAIN t.words |-> then(j, f)]
           From(n, f) == \A j \in n..N : f[j] = then(j, f)
           good == {n \in 1..N + 1 : \E f : From(n, f)}
<1>1. N \in Nat /\ DOMAIN t.words = 1..N
  BY DEF HasPlaces
<1>2. \A j \in 1..N : \A k \in items(j) : k \in j + 1..N
  <2>1. TAKE j \in 1..N
  <2>2. Matched(t, j, Match(t, j))
    BY <1>1, MatchIs
  <2> QED BY <1>1, <2>2 DEF ItemsOf, Matched
<1>3. \A j : TreeOf(t, j) = (CHOOSE f : Is(f))[j]
  BY DEF TreeOf
<1>4. ASSUME NEW n \in 1..N, NEW f, NEW g, \A k \in n + 1..N : g[k] = f[k] PROVE then(n, g) = then(n, f)
  <2>1. \A k \in items(n) : g[k] = f[k]
    BY <1>2, <1>4
  <2> HIDE DEF items, N
  <2>2. [k \in items(n) |-> g[k]] = [k \in items(n) |-> f[k]]
    BY <2>1
  <2> HIDE DEF open, atom
  <2> QED BY <2>2
<1> HIDE DEF N, items, then
<1>5. ASSUME NEW n \in 1..N + 1, \A j \in n + 1..N + 1 : j \in good PROVE n \in good
  <2>1. CASE n = N + 1
    BY <1>1, <2>1
  <2>2. CASE n # N + 1
    <3>1. n + 1 \in good /\ n \in 1..N
      BY <1>1, <1>5, <2>2
    <3>2. PICK f : From(n + 1, f)
      BY <3>1
    <3> DEFINE g == [q \in n..N |-> IF q = n THEN then(n, f) ELSE f[q]]
    <3>3. \A q \in n + 1..N : g[q] = f[q]
      BY <1>1, <3>1
    <3>4. \A q \in n..N : g[q] = then(q, f)
      BY <1>1, <3>1, <3>2
    <3> HIDE DEF g
    <3>5. \A q \in n..N : then(q, g) = then(q, f)
      <4>1. TAKE q \in n..N
      <4>2. q \in 1..N /\ \A k \in q + 1..N : k \in n + 1..N
        BY <1>1, <3>1
      <4>3. \A k \in q + 1..N : g[k] = f[k]
        BY <3>3, <4>2
      <4> QED BY <1>4, <4>2, <4>3
    <3>6. From(n, g)
      BY <3>4, <3>5
    <3> HIDE DEF From
    <3> QED BY <3>6
  <2> QED BY <2>1, <2>2
<1>6. 1 \in good
  <2>1. N + 1 \in Nat /\ 1 \in 1..N + 1
    BY <1>1
  <2> HIDE DEF good
  <2>2. \A n \in 1..N + 1 : n \in good
    BY <1>5, <2>1, Downwards
  <2> QED BY <2>1, <2>2
<1>7. \E f : Is(f)
  <2>1. PICK f : From(1, f)
    BY <1>6
  <2> DEFINE g == [q \in 1..N |-> f[q]]
  <2>2. \A q \in 1..N : g[q] = f[q]
    OBVIOUS
  <2>3. \A q \in 1..N : g[q] = then(q, f)
    BY <2>1
  <2>4. g = [q \in 1..N |-> g[q]]
    OBVIOUS
  <2> HIDE DEF g
  <2>5. \A q \in 1..N : then(q, g) = then(q, f)
    <3>1. TAKE q \in 1..N
    <3>2. \A k \in q + 1..N : g[k] = f[k]
      BY <1>1, <2>2
    <3> QED BY <1>4, <3>2
  <2>6. g = [q \in 1..N |-> then(q, g)]
    BY <2>3, <2>4, <2>5
  <2>7. Is(g)
    BY <1>1, <2>6
  <2> QED BY <2>7
<1> DEFINE f == CHOOSE h : Is(h)
<1>8. Is(f)
  BY <1>7
<1>9. \A j : TreeOf(t, j) = f[j]
  BY <1>3
<1> HIDE DEF f
<1>10. i \in 1..N
  BY DEF N
<1>11. f[i] = then(i, f)
  BY <1>1, <1>8, <1>10
<1>12. [k \in ItemsOf(t, i) |-> TreeOf(t, k)] = [k \in ItemsOf(t, i) |-> f[k]]
  BY <1>9
<1>13. atom(i) = Atom(t.characters, Begin(t, i), Behind(t, i))
  BY DEF HasPlaces
<1> QED BY <1>9, <1>11, <1>12, <1>13 DEF then, items, N

-----------------------------------------------------------------------------
(***************************************************************************)
(* The reading of what stands at a word                                    *)
(***************************************************************************)
Read(t, i) == IF IsRefused(t, i) THEN Thrown ELSE Reading(Behind(t, LastOf(t, i)), TreeOf(t, i))

\* What the words behind the i-th are read as
ReadsBehind(t, i, read) == \A j \in i + 1..Count(t) : read[Begin(t, j)] = Read(t, j)

ItemTrees(t, i, j) == [k \in {x \in ItemsOf(t, i) : j <= x} |-> TreeOf(t, k)]

ItemsFail(t, i, j, ends) ==
  (\E k \in ItemsOf(t, i) : j <= k /\ IsRefused(t, k)) \/ (Match(t, i) <= Count(t) /\ CloseParen \notin ends)

ItemsRead(t, i, j, ends) ==
  IF ItemsFail(t, i, j, ends) THEN Thrown
  ELSE Reading(Begin(t, Match(t, i)), <<"list", InOrder(ItemTrees(t, i, j), Count(t))>>)

LEMMA ListEndRead ==
  ASSUME NEW t, HasPlaces(t), NEW i \in 0..Count(t), NEW read, ReadsBehind(t, i, read),
         NEW ends, EndOfText \in ends, ends \subseteq {CloseParen, EndOfText},
         NEW f, ItemsBy(t.characters, read, ends, f)
  PROVE  f[Begin(t, Match(t, i))] = ItemsRead(t, i, Match(t, i), ends)
<1> DEFINE text == t.characters
           m == Match(t, i)
           a == Begin(t, m)
<1>1. /\ IsWritten(text) /\ Len(text) \in Nat /\ Count(t) \in Nat /\ Matched(t, i, m)
  BY MatchIs DEF HasPlaces
<1> HIDE DEF m
<1>2. m \in i + 1..Count(t) + 1 /\ m \in Nat /\ ItemsOf(t, i) \subseteq i + 1..m - 1
  BY <1>1 DEF Matched, ItemsOf, m
<1>3. \A k \in ItemsOf(t, i) : ~(m <= k)
  BY <1>2
<1>4. InOrder(ItemTrees(t, i, m), Count(t)) = <<>>
  <2>1. DOMAIN ItemTrees(t, i, m) = {}
    BY <1>3 DEF ItemTrees
  <2> QED BY <1>1, <2>1, InOrderOfNone
<1>5. ItemsFail(t, i, m, ends) <=> m <= Count(t) /\ CloseParen \notin ends
  BY <1>3 DEF ItemsFail, m
<1>6. ItemsRead(t, i, m, ends) = IF m <= Count(t) /\ CloseParen \notin ends THEN Thrown ELSE Reading(a, <<"list", <<>>>>)
  BY <1>4, <1>5 DEF ItemsRead, m
<1> HIDE DEF a
<1>7. CASE m = Count(t) + 1
  <2>1. a = Len(text) + 1
    BY <1>1, <1>7 DEF a, Begin
  <2>2. Peek(text, a) \in ends /\ a \in 1..Len(text) + 1
    BY <1>1, <2>1 DEF Peek
  <2>3. f[a] = Reading(a, <<"list", <<>>>>)
    BY <2>2 DEF ItemsBy
  <2>4. ~(m <= Count(t))
    BY <1>1, <1>7
  <2> QED BY <1>6, <2>3, <2>4 DEF m, a
<1>8. CASE m # Count(t) + 1
  <2>1. m \in 1..Count(t) /\ m \in i + 1..Count(t) /\ m <= Count(t)
    BY <1>1, <1>2, <1>8
  <2>2. WordKind(t, m) = "close"
    BY <1>1, <2>1 DEF Matched
  <2>3. Kind(text, a) = "close" /\ a \in 1..Len(text) + 1
    BY <2>1, <2>2 DEF HasPlaces, a
  <2>4. Peek(text, a) = CloseParen
    BY <2>3, KindIs, KindsApart
  <2>5. CASE CloseParen \in ends
    <3>1. f[a] = Reading(a, <<"list", <<>>>>)
      BY <2>3, <2>4, <2>5 DEF ItemsBy
    <3> QED BY <1>6, <2>5, <3>1 DEF m, a
  <2>6. CASE CloseParen \notin ends
    <3>1. read[a] = Thrown
      <4>1. IsRefused(t, m)
        BY <2>2 DEF IsRefused
      <4>2. read[a] = Read(t, m)
        BY <2>1 DEF ReadsBehind, a
      <4> QED BY <4>1, <4>2 DEF Read
    <3>2. read[a].thrown
      BY <3>1 DEF Thrown
    <3>3. f[a] = Thrown
      BY <2>3, <2>4, <2>6, <3>2 DEF ItemsBy
    <3> QED BY <1>6, <2>1, <2>6, <3>3 DEF m, a
  <2> QED BY <2>5, <2>6
<1> QED BY <1>7, <1>8

LEMMA ItemRead ==
  ASSUME NEW t, HasPlaces(t), NEW i \in 0..Count(t), NEW read, ReadsBehind(t, i, read),
         NEW ends, EndOfText \in ends, ends \subseteq {CloseParen, EndOfText},
         NEW f, ItemsBy(t.characters, read, ends, f), NEW j \in ItemsOf(t, i),
         LastOf(t, j) <= Count(t) => f[Begin(t, LastOf(t, j) + 1)] = ItemsRead(t, i, LastOf(t, j) + 1, ends)
  PROVE  f[Begin(t, j)] = ItemsRead(t, i, j, ends)
<1> DEFINE text == t.characters
           m == Match(t, i)
           a == Begin(t, j)
           next == LastOf(t, j) + 1
<1>1. IsWritten(text) /\ Len(text) \in Nat /\ Count(t) \in Nat /\ Matched(t, i, m) /\ i \in Nat
  <2>1. IsWritten(text) /\ Len(text) \in Nat /\ Count(t) \in Nat
    BY DEF HasPlaces
  <2> QED BY <2>1, MatchIs
<1>2. Separated(t, i, j) /\ j \in 1..Count(t)
  BY ItemsSeparated
<1>3. j \in i + 1..Count(t)
  BY <1>1, <1>2 DEF ItemsOf
<1>4. a \in 1..Len(text) + 1 /\ WordKind(t, j) = Kind(text, a) /\ IsWord(text, a, Behind(t, j)) /\ Behind(t, j) \in 1..Len(text) + 1
  BY <1>2 DEF HasPlaces
<1>5. Peek(text, a) \notin ends
  <2>1. Kind(text, a) # "close"
    BY <1>2, <1>4 DEF Separated
  <2>2. Peek(text, a) = CloseParen => Kind(text, a) = "close"
    BY KindIs, Characters
  <2>3. a <= Len(text)
    BY <1>1, <1>4, WordRead
  <2> HIDE DEF a
  <2>4. Peek(text, a) # EndOfText
    BY <1>1, <1>4, <2>3, Ends
  <2> QED BY <2>1, <2>2, <2>4
<1>6. read[a] = Read(t, j)
  BY <1>3 DEF ReadsBehind
<1>7. f[a] = IF read[a].thrown THEN Thrown ELSE Before(read[a].tree, f[SkipWhitespace(text, read[a].pos)])
  BY <1>4, <1>5 DEF ItemsBy
<1>8. CASE IsRefused(t, j)
  <2>1. read[a].thrown
    BY <1>6, <1>8 DEF Read, Thrown
  <2>2. f[a] = Thrown
    BY <1>7, <2>1
  <2>3. ItemsFail(t, i, j, ends)
    BY <1>2, <1>8 DEF ItemsFail
  <2> QED BY <2>2, <2>3 DEF ItemsRead
<1>9. CASE ~IsRefused(t, j)
  <2>1. LastOf(t, j) \in Nat /\ LastOf(t, j) >= j /\ LastOf(t, j) <= Count(t) /\ LastOf(t, j) \in 0..Count(t)
    <3>1. LastOf(t, j) \in Nat /\ LastOf(t, j) >= j
      BY <1>2 DEF Separated
    <3>2. ~(LastOf(t, j) > Count(t))
      BY <1>9 DEF IsRefused
    <3> QED BY <1>1, <3>1, <3>2
  <2>2. read[a].thrown = FALSE /\ read[a].tree = TreeOf(t, j) /\ read[a].pos = Behind(t, LastOf(t, j))
    BY <1>6, <1>9 DEF Read, Reading
  <2>3. SkipWhitespace(text, read[a].pos) = Begin(t, next)
    BY <2>1, <2>2, NextWord
  <2>4. f[a] = Before(TreeOf(t, j), f[Begin(t, next)])
    BY <1>7, <2>2, <2>3
  <2>5. f[a] = Before(TreeOf(t, j), ItemsRead(t, i, next, ends))
    BY <2>1, <2>4
  <2>6. \A k \in ItemsOf(t, i) : j <= k => k = j \/ next <= k
    <3>1. TAKE k \in ItemsOf(t, i)
    <3>2. k \in Int
      BY DEF ItemsOf
    <3>3. k \notin j + 1..LastOf(t, j)
      BY <1>2 DEF Separated
    <3> QED BY <1>2, <2>1, <3>2, <3>3
  <2>7. \A k \in ItemsOf(t, i) : next <= k => j <= k /\ k # j
    <3>1. TAKE k \in ItemsOf(t, i)
    <3>2. k \in Int
      BY DEF ItemsOf
    <3> QED BY <1>2, <2>1, <3>2
  <2>8. ItemsFail(t, i, j, ends) <=> ItemsFail(t, i, next, ends)
    <3> HIDE DEF next
    <3> QED BY <1>9, <2>6, <2>7 DEF ItemsFail
  <2>9. CASE ItemsFail(t, i, next, ends)
    <3>1. ItemsRead(t, i, next, ends) = Thrown /\ ItemsRead(t, i, j, ends) = Thrown
      BY <2>8, <2>9 DEF ItemsRead
    <3>2. Before(TreeOf(t, j), Thrown) = Thrown
      BY DEF Before, Thrown
    <3> QED BY <2>5, <3>1, <3>2
  <2>10. CASE ~ItemsFail(t, i, next, ends)
    <3> DEFINE v == ItemTrees(t, i, j)
               w == ItemTrees(t, i, next)
    <3>1. HasFront(v, w, Count(t), j) /\ v[j] = TreeOf(t, j)
      <4>1. \A k : k \in DOMAIN v <=> k \in ItemsOf(t, i) /\ j <= k
        BY DEF ItemTrees
      <4>2. \A k : k \in DOMAIN w <=> k \in ItemsOf(t, i) /\ next <= k
        BY DEF ItemTrees
      <4>3. (\A k \in DOMAIN v : v[k] = TreeOf(t, k)) /\ (\A k \in DOMAIN w : w[k] = TreeOf(t, k))
        BY DEF ItemTrees
      <4> HIDE DEF v, w, next
      <4>4. j \in DOMAIN v
        BY <1>2, <4>1
      <4>5. \A k \in 1..j - 1 : k \notin DOMAIN v
        BY <1>2, <4>1
      <4>6. \A k \in 1..j : k \notin DOMAIN w
        BY <1>2, <2>7, <4>2
      <4>7. \A k \in j + 1..Count(t) : (k \in DOMAIN v <=> k \in DOMAIN w) /\ (k \in DOMAIN v => w[k] = v[k])
        <5>1. TAKE k \in j + 1..Count(t)
        <5>2. k # j /\ j <= k
          BY <1>2
        <5>3. k \in DOMAIN v <=> k \in DOMAIN w
          BY <2>6, <4>1, <4>2, <5>2
        <5> QED BY <4>3, <5>3
      <4> QED BY <1>2, <4>3, <4>4, <4>5, <4>6, <4>7 DEF HasFront
    <3>2. Fronted(v, w, Count(t), v[j])
      <4> HIDE DEF v, w
      <4> QED BY <1>1, <3>1, InOrderFront
    <3> HIDE DEF v, w
    <3>3. InOrder(v, Count(t)) = <<TreeOf(t, j)>> \o InOrder(w, Count(t))
      BY <3>1, <3>2 DEF Fronted
    <3>4. ItemsRead(t, i, next, ends) = Reading(Begin(t, m), <<"list", InOrder(w, Count(t))>>)
      BY <2>10 DEF ItemsRead, w
    <3>5. ItemsRead(t, i, j, ends) = Reading(Begin(t, m), <<"list", InOrder(v, Count(t))>>)
      BY <2>8, <2>10 DEF ItemsRead, v
    <3> HIDE DEF next, m
    <3> QED BY <2>5, <3>3, <3>4, <3>5, BeforeReading
  <2> QED BY <2>9, <2>10
<1> QED BY <1>8, <1>9

LEMMA ItemsAreRead ==
  ASSUME NEW t, HasPlaces(t), NEW i \in 0..Count(t), NEW read, ReadsBehind(t, i, read),
         NEW ends, EndOfText \in ends, ends \subseteq {CloseParen, EndOfText},
         NEW f, ItemsBy(t.characters, read, ends, f)
  PROVE  f[Begin(t, i + 1)] = ItemsRead(t, i, i + 1, ends)
<1> DEFINE m == Match(t, i)
           Right(j) == f[Begin(t, j)] = ItemsRead(t, i, j, ends)
           good == {j \in i + 1..m : j \in ItemsOf(t, i) \cup {m} => Right(j)}
<1>1. Count(t) \in Nat /\ Matched(t, i, m) /\ i \in Nat
  <2>1. Count(t) \in Nat
    BY DEF HasPlaces
  <2> QED BY <2>1, MatchIs
<1>2. m \in Nat /\ m \in i + 1..Count(t) + 1
  BY <1>1 DEF Matched
<1>3. Right(m)
  BY ListEndRead
<1>4. ASSUME NEW j \in ItemsOf(t, i),
             LastOf(t, j) <= Count(t) => Right(LastOf(t, j) + 1)
      PROVE  Right(j)
  BY <1>4, ItemRead
<1> HIDE DEF m, Right
<1>5. ASSUME NEW j \in i + 1..m, \A k \in j + 1..m : k \in good PROVE j \in good
  <2> SUFFICES ASSUME j \in ItemsOf(t, i), j # m PROVE Right(j)
    BY <1>3
  <2>1. Separated(t, i, j)
    BY ItemsSeparated
  <2>2. ASSUME LastOf(t, j) <= Count(t) PROVE Right(LastOf(t, j) + 1)
    <3> DEFINE k == LastOf(t, j) + 1
    <3>1. k \in ItemsOf(t, i) \cup {m} /\ LastOf(t, j) \in Nat /\ LastOf(t, j) >= j /\ LastOf(t, j) < m
      BY <2>1, <2>2 DEF Separated, m
    <3>2. k \in j + 1..m
      BY <1>1, <1>2, <3>1
    <3> HIDE DEF k
    <3>3. Right(k)
      BY <1>5, <3>1, <3>2
    <3> QED BY <3>3 DEF k
  <2> QED BY <1>4, <2>2
<1>6. i + 1 \in good
  <2>1. i + 1 \in Nat /\ i + 1 \in i + 1..m
    BY <1>1, <1>2
  <2> HIDE DEF good
  <2>2. \A j \in i + 1..m : j \in good
    BY <1>2, <1>5, <2>1, Downwards
  <2> QED BY <2>1, <2>2
<1>7. i + 1 \in ItemsOf(t, i) \cup {m}
  BY FirstItem DEF m
<1> QED BY <1>6, <1>7 DEF Right

\* All items of a list
LEMMA AllItems ==
  ASSUME NEW t, HasPlaces(t), NEW i \in 0..Count(t)
  PROVE  /\ ItemTrees(t, i, i + 1) = [k \in ItemsOf(t, i) |-> TreeOf(t, k)]
         /\ (\E k \in ItemsOf(t, i) : i + 1 <= k /\ IsRefused(t, k)) <=> \E k \in ItemsOf(t, i) : IsRefused(t, k)
<1>1. \A k \in ItemsOf(t, i) : i + 1 <= k
  <2>1. Matched(t, i, Match(t, i))
    BY MatchIs
  <2> QED BY <2>1 DEF ItemsOf, Matched
<1>2. {x \in ItemsOf(t, i) : i + 1 <= x} = ItemsOf(t, i)
  BY <1>1
<1> QED BY <1>1, <1>2 DEF ItemTrees

SpoiltAt(t, j) == IsSpoilt(t.characters, t.words[j].first, t.words[j].behind)

LEMMA RefusedLists ==
  ASSUME NEW t, HasPlaces(t), NEW i \in 1..Count(t), WordKind(t, i) = "open"
  PROVE  IsRefused(t, i) <=> Match(t, i) > Count(t) \/ \E k \in ItemsOf(t, i) : IsRefused(t, k)
<1> DEFINE m == Match(t, i)
<1>1. Count(t) \in Nat /\ i \in Nat /\ i \in 0..Count(t) /\ Matched(t, i, m)
  <2>1. Count(t) \in Nat /\ i \in 0..Count(t)
    BY DEF HasPlaces
  <2> QED BY <2>1, MatchIs
<1>2. m \in Nat /\ m \in i + 1..Count(t) + 1
  BY <1>1 DEF Matched
<1>3. \A j : IsRefused(t, j) <=> j > Count(t) \/ WordKind(t, j) = "close" \/ LastOf(t, j) > Count(t)
                                 \/ \E k \in j..LastOf(t, j) : SpoiltAt(t, k)
  BY DEF IsRefused, SpoiltAt
<1>4. IsRefused(t, i) <=> m > Count(t) \/ \E k \in i..m : SpoiltAt(t, k)
  <2>1. LastOf(t, i) = m /\ ~(i > Count(t)) /\ WordKind(t, i) # "close"
    BY <1>1, KindsApart DEF LastOf
  <2> HIDE DEF m
  <2> QED BY <1>3, <2>1
<1>5. CASE m > Count(t)
  BY <1>4, <1>5
<1>6. CASE ~(m > Count(t))
  <2>0. m <= Count(t)
    BY <1>1, <1>2, <1>6
  <2>1. ASSUME NEW k \in ItemsOf(t, i), IsRefused(t, k) PROVE \E j \in i..m : SpoiltAt(t, j)
    <3>1. Separated(t, i, k) /\ k \in 1..Count(t)
      BY <1>1, ItemsSeparated
    <3>2. LastOf(t, k) \in Nat /\ LastOf(t, k) <= Count(t) /\ LastOf(t, k) < m /\ WordKind(t, k) # "close"
      BY <1>1, <1>6, <3>1 DEF Separated
    <3>3. PICK j \in k..LastOf(t, k) : SpoiltAt(t, j)
      BY <1>1, <1>3, <2>1, <3>1, <3>2
    <3>4. i <= k
      BY <1>1 DEF ItemsOf
    <3>5. j \in i..m
      <4> HIDE DEF m
      <4> QED BY <1>1, <1>2, <3>1, <3>2, <3>4
    <3> QED BY <3>3, <3>5
  <2>2. ASSUME NEW j \in i..m, SpoiltAt(t, j) PROVE \E k \in ItemsOf(t, i) : IsRefused(t, k)
    <3>1. j \in 1..Count(t)
      BY <1>1, <1>2, <2>0
    <3>2. WordKind(t, j) \notin {"open", "close"}
      <4>1. WordKind(t, j) = "string" \/ WordKind(t, j) = "number"
        BY <2>2 DEF SpoiltAt, IsSpoilt, WordKind
      <4> QED BY <4>1, KindsApart
    <3>3. WordKind(t, m) = "close"
      BY <1>1, <2>0 DEF Matched
    <3>4. j \in i + 1..m - 1
      <4>1. j # i /\ j # m
        BY <3>2, <3>3
      <4> QED BY <1>1, <1>2, <4>1
    <3>5. PICK k \in ItemsOf(t, i) : j \in k..LastOf(t, k)
      BY <1>1, <2>0, <3>4, ItemsCover
    <3>6. IsRefused(t, k)
      BY <1>3, <2>2, <3>5
    <3> QED BY <3>6
  <2> QED BY <1>4, <1>6, <2>1, <2>2
<1> QED BY <1>5, <1>6

LEMMA ListRead ==
  ASSUME NEW t, HasPlaces(t), NEW i \in 1..Count(t), WordKind(t, i) = "open",
         NEW read, GoesOn(t.characters, read), ReadsBehind(t, i, read)
  PROVE  ParseList(t.characters, Begin(t, i) + 1, read) = Read(t, i)
<1> DEFINE text == t.characters
           m == Match(t, i)
           ends == {CloseParen, EndOfText}
           items == ParseItems(text, Begin(t, i) + 1, read, ends)
           trees == InOrder([k \in ItemsOf(t, i) |-> TreeOf(t, k)], Count(t))
           failed == \E k \in ItemsOf(t, i) : IsRefused(t, k)
<1>1. IsWritten(text) /\ Len(text) \in Nat /\ Count(t) \in Nat /\ i \in 0..Count(t) /\ Matched(t, i, m)
  <2>1. IsWritten(text) /\ Len(text) \in Nat /\ Count(t) \in Nat /\ i \in 0..Count(t)
    BY DEF HasPlaces
  <2> QED BY <2>1, MatchIs
<1>2. Behind(t, i) = Begin(t, i) + 1
  <2>1. IsWord(text, Begin(t, i), Behind(t, i)) /\ Kind(text, Begin(t, i)) = "open"
    BY DEF HasPlaces
  <2> QED BY <2>1, WordIs
<1>3. EndOfText \in ends /\ ends \subseteq {CloseParen, EndOfText} /\ CloseParen \in ends
  OBVIOUS
<1>4. items = IF failed THEN Thrown ELSE Reading(Begin(t, m), <<"list", trees>>)
  <2> HIDE DEF ends
  <2>1. PICK f : ItemsBy(text, read, ends, f)
    BY <1>1, <1>3, ItemsGoOn
  <2>2. f[Begin(t, i + 1)] = ItemsRead(t, i, i + 1, ends)
    BY <1>1, <1>3, <2>1, ItemsAreRead
  <2>3. items = f[SkipWhitespace(text, Behind(t, i))]
    BY <1>2, <2>1 DEF ItemsBy
  <2>4. SkipWhitespace(text, Behind(t, i)) = Begin(t, i + 1)
    BY <1>1, NextWord
  <2>5. ItemsFail(t, i, i + 1, ends) <=> failed
    <3>1. (\E k \in ItemsOf(t, i) : i + 1 <= k /\ IsRefused(t, k)) <=> failed
      BY <1>1, AllItems
    <3> HIDE DEF failed
    <3> QED BY <1>3, <3>1 DEF ItemsFail
  <2>6. InOrder(ItemTrees(t, i, i + 1), Count(t)) = trees
    BY <1>1, AllItems
  <2> HIDE DEF failed, trees, items
  <2> QED BY <2>2, <2>3, <2>4, <2>5, <2>6 DEF ItemsRead
<1>5. ParseList(text, Begin(t, i) + 1, read) = IF items.thrown \/ Peek(text, items.pos) # CloseParen THEN Thrown
                                               ELSE Reading(items.pos + 1, items.tree)
  BY DEF ParseList
<1>6. IsRefused(t, i) <=> m > Count(t) \/ failed
  BY RefusedLists
<1>7. TreeOf(t, i) = <<"list", trees>> /\ LastOf(t, i) = m
  BY TreeIs DEF LastOf
<1>8. m \in Nat /\ m \in i + 1..Count(t) + 1
  BY <1>1 DEF Matched
<1> HIDE DEF items, trees, failed, ends, m
<1>9. CASE failed
  <2>1. items.thrown
    BY <1>4, <1>9 DEF Thrown
  <2> QED BY <1>5, <1>6, <1>9, <2>1 DEF Read
<1>10. CASE ~failed /\ m > Count(t)
  <2>1. items.pos = Begin(t, m)
    BY <1>4, <1>10 DEF Reading
  <2>2. Begin(t, m) = Len(text) + 1
    BY <1>1, <1>8, <1>10 DEF Begin
  <2>3. Peek(text, items.pos) = EndOfText
    BY <1>1, <2>1, <2>2 DEF Peek
  <2> QED BY <1>5, <1>6, <1>10, <2>3, Characters DEF Read
<1>11. CASE ~failed /\ ~(m > Count(t))
  <2>1. items.thrown = FALSE /\ items.pos = Begin(t, m) /\ items.tree = <<"list", trees>>
    BY <1>4, <1>11 DEF Reading
  <2>2. m \in 1..Count(t) /\ m <= Count(t)
    BY <1>1, <1>8, <1>11
  <2>3. WordKind(t, m) = "close"
    BY <1>1, <2>2 DEF Matched
  <2>4. Kind(text, Begin(t, m)) = "close" /\ IsWord(text, Begin(t, m), Behind(t, m))
    BY <2>2, <2>3 DEF HasPlaces
  <2>5. Peek(text, Begin(t, m)) = CloseParen
    BY <2>4, KindIs, KindsApart
  <2>6. Behind(t, m) = Begin(t, m) + 1
    BY <2>4, WordIs
  <2> QED BY <1>5, <1>6, <1>7, <1>11, <2>1, <2>5, <2>6 DEF Read
<1> QED BY <1>9, <1>10, <1>11

LEMMA AtomIsRead ==
  ASSUME NEW t, HasPlaces(t), NEW i \in 1..Count(t), WordKind(t, i) \notin {"open", "close"}
  PROVE  Read(t, i) = IF IsSpoilt(t.characters, Begin(t, i), Behind(t, i)) THEN Thrown
                      ELSE Reading(Behind(t, i), Atom(t.characters, Begin(t, i), Behind(t, i)))
<1>1. LastOf(t, i) = i
  BY DEF LastOf
<1>2. TreeOf(t, i) = Atom(t.characters, Begin(t, i), Behind(t, i))
  BY TreeIs
<1>3. /\ Count(t) \in Nat /\ t.words[i].first = Begin(t, i) /\ t.words[i].behind = Behind(t, i)
  BY DEF HasPlaces
<1>4. IsRefused(t, i) <=> IsSpoilt(t.characters, Begin(t, i), Behind(t, i))
  <2>1. ~(i > Count(t)) /\ \A j \in i..i : j = i
    BY <1>3
  <2>2. i \in i..i
    BY <1>3
  <2> QED BY <1>1, <1>3, <2>1, <2>2 DEF IsRefused
<1> QED BY <1>1, <1>2, <1>4 DEF Read

-----------------------------------------------------------------------------
(***************************************************************************)
(* All of a text                                                           *)
(***************************************************************************)
\* The i-th word is read where lists may be in as many lists as words follow.
LEMMA LevelRead ==
  ASSUME NEW t, HasPlaces(t), NEW u, Levels(t.characters, u), NEW i \in 1..Count(t), NEW n \in 1..Len(t.characters),
         ReadsBehind(t, i, u[n - 1])
  PROVE  u[n][Begin(t, i)] = Read(t, i)
<1> DEFINE text == t.characters
           a == Begin(t, i)
           b == Behind(t, i)
           read == u[n - 1]
<1>1. /\ IsWritten(text) /\ a \in 1..Len(text) + 1 /\ b \in 1..Len(text) + 1 /\ IsWord(text, a, b)
      /\ WordKind(t, i) = Kind(text, a) /\ Len(text) \in Nat
  BY DEF HasPlaces
<1>2. n \in 0..Len(text) /\ n # 0 /\ n - 1 \in 0..Len(text)
  BY <1>1
<1>3. u[n][a] = ParseExprBy(text, a, read)
  BY <1>1, <1>2 DEF Levels
<1>4. GoesOn(text, read)
  BY <1>1, <1>2, LevelsGoOn
<1> HIDE DEF read, a, b
<1>5. CASE Kind(text, a) = "open"
  <2>1. ParseExprBy(text, a, read) = ParseList(text, a + 1, read)
    BY <1>1, <1>5, WordRead
  <2>2. ParseList(text, a + 1, read) = Read(t, i)
    BY <1>1, <1>4, <1>5, ListRead DEF read, a
  <2> QED BY <1>3, <2>1, <2>2 DEF a
<1>6. CASE Kind(text, a) = "close"
  <2>1. ParseExprBy(text, a, read) = Thrown
    BY <1>1, <1>6, WordRead
  <2>2. IsRefused(t, i)
    BY <1>1, <1>6 DEF IsRefused
  <2> QED BY <1>3, <2>1, <2>2 DEF Read, a
<1>7. CASE Kind(text, a) \notin {"open", "close"}
  <2>1. ParseExprBy(text, a, read) = IF IsSpoilt(text, a, b) THEN Thrown ELSE Reading(b, Atom(text, a, b))
    BY <1>1, <1>7, WordRead
  <2>2. Read(t, i) = IF IsSpoilt(text, a, b) THEN Thrown ELSE Reading(b, Atom(text, a, b))
    BY <1>1, <1>7, AtomIsRead DEF a, b
  <2> QED BY <1>3, <2>1, <2>2 DEF a
<1> QED BY <1>5, <1>6, <1>7

LEMMA WordsAreRead ==
  ASSUME NEW t, HasPlaces(t), NEW u, Levels(t.characters, u)
  PROVE  \A i \in 1..Count(t) : \A n \in 1..Len(t.characters) :
           Count(t) + 1 - i <= n => u[n][Begin(t, i)] = Read(t, i)
<1> DEFINE N == Len(t.characters)
           Right(i) == \A n \in 1..N : Count(t) + 1 - i <= n => u[n][Begin(t, i)] = Read(t, i)
           good == {i \in 1..Count(t) : Right(i)}
<1>1. N \in Nat /\ Count(t) \in Nat
  BY DEF HasPlaces
<1>2. ASSUME NEW i \in 1..Count(t), \A j \in i + 1..Count(t) : j \in good PROVE i \in good
  <2> SUFFICES ASSUME NEW n \in 1..N, Count(t) + 1 - i <= n PROVE u[n][Begin(t, i)] = Read(t, i)
    OBVIOUS
  <2>1. ASSUME NEW j \in i + 1..Count(t) PROVE u[n - 1][Begin(t, j)] = Read(t, j)
    <3> DEFINE m == n - 1
    <3>1. m \in 1..N /\ Count(t) + 1 - j <= m
      BY <1>1
    <3>2. Right(j)
      BY <1>2
    <3> HIDE DEF m
    <3>3. u[m][Begin(t, j)] = Read(t, j)
      BY <3>1, <3>2
    <3> QED BY <3>3 DEF m
  <2>2. ReadsBehind(t, i, u[n - 1])
    BY <2>1 DEF ReadsBehind
  <2> QED BY <2>2, LevelRead
<1>3. \A i \in 1..Count(t) : i \in good
  <2>1. 1 \in Nat
    OBVIOUS
  <2> HIDE DEF good
  <2> QED BY <1>1, <1>2, <2>1, Downwards
<1> QED BY <1>3

\* All words are read by the parser.
LEMMA ParserReads ==
  ASSUME NEW t, HasPlaces(t)
  PROVE  GoesOn(t.characters, ParseExpr(t.characters)) /\ ReadsBehind(t, 0, ParseExpr(t.characters))
<1> DEFINE text == t.characters
           N == Len(text)
<1>1. IsWritten(text) /\ N \in Nat /\ Count(t) \in Nat /\ Count(t) <= N
  BY PlacesInOrder DEF HasPlaces
<1>2. PICK u : Levels(text, u) /\ ParseExpr(text) = u[N]
  BY <1>1, LevelsExist
<1>3. GoesOn(text, u[N])
  <2>1. N \in 0..N
    BY <1>1
  <2> QED BY <1>1, <1>2, <2>1, LevelsGoOn
<1>4. ASSUME NEW i \in 0 + 1..Count(t) PROVE u[N][Begin(t, i)] = Read(t, i)
  <2>1. i \in 1..Count(t) /\ N \in 1..N /\ Count(t) + 1 - i <= N
    BY <1>1
  <2> QED BY <1>2, <2>1, WordsAreRead
<1> QED BY <1>2, <1>3, <1>4 DEF ReadsBehind

\* parse() reads the first expression of a text as what is written there, and throws when
\* there is none: when the text is blank, when a parenthesis closes nothing, and when a list
\* or a string has no end or a number is none, in that expression.
THEOREM ParsesFirst ==
  ASSUME NEW t, IsText(t)
  PROVE  /\ IsRefused(t, 1) => Parse(t.characters) = Thrown
         /\ ~IsRefused(t, 1) => Parse(t.characters) = Reading(Behind(t, LastOf(t, 1)), TreeOf(t, 1))
<1> DEFINE text == t.characters
           N == Len(text)
           a == Begin(t, 1)
<1>1. HasPlaces(t)
  BY TextHasPlaces
<1>2. IsWritten(text) /\ N \in Nat /\ Count(t) \in Nat /\ 0 \in 0..Count(t) /\ Count(t) <= N
  <2>1. IsWritten(text) /\ N \in Nat /\ Count(t) \in Nat
    BY <1>1 DEF HasPlaces
  <2> QED BY <1>1, <2>1, PlacesInOrder
<1>3. a \in 1..N + 1 /\ SkipWhitespace(text, 1) = a /\ SkipWhitespace(text, a) = a
  <2>1. Behind(t, 0) = 1 /\ 0 + 1 = 1
    BY DEF Behind
  <2> QED BY <1>1, <1>2, <2>1, NextWord
<1>4. PICK u : Levels(text, u) /\ ParseExpr(text) = u[N]
  BY <1>2, LevelsExist
<1> HIDE DEF a
<1>5. u[N][1] = u[N][a]
  <2>1. 1 \in 1..N + 1 /\ N \in 0..N
    BY <1>2
  <2>2. CASE N = 0
    BY <1>3, <1>4, <2>1, <2>2 DEF Levels
  <2>3. CASE N # 0
    <3>1. u[N][1] = ParseExprBy(text, 1, u[N - 1]) /\ u[N][a] = ParseExprBy(text, a, u[N - 1])
      BY <1>3, <1>4, <2>1, <2>3 DEF Levels
    <3>2. ParseExprBy(text, 1, u[N - 1]) = ParseExprBy(text, a, u[N - 1])
      BY <1>3 DEF ParseExprBy
    <3> QED BY <3>1, <3>2
  <2> QED BY <2>2, <2>3
<1>6. Parse(text) = u[N][a]
  BY <1>4, <1>5 DEF Parse
<1>7. CASE Count(t) = 0
  <2>1. a = N + 1 /\ 1 > Count(t)
    BY <1>7 DEF Begin, a
  <2>2. IsRefused(t, 1)
    BY <2>1 DEF IsRefused
  <2>3. Peek(text, a) = EndOfText
    BY <1>2, <2>1 DEF Peek
  <2>4. u[N][a] = Thrown
    <3>1. N \in 0..N
      BY <1>2
    <3>2. CASE N = 0
      BY <1>3, <1>4, <3>1, <3>2 DEF Levels
    <3>3. CASE N # 0
      <4>1. u[N][a] = ParseExprBy(text, a, u[N - 1])
        BY <1>3, <1>4, <3>1, <3>3 DEF Levels
      <4>2. ParseExprBy(text, a, u[N - 1]) = Thrown
        BY <1>3, <2>3, Characters, DigitCharacters DEF ParseExprBy
      <4> QED BY <4>1, <4>2
    <3> QED BY <3>2, <3>3
  <2> QED BY <1>6, <2>2, <2>4
<1>8. CASE Count(t) # 0
  <2>1. 1 \in 1..Count(t) /\ N \in 1..N /\ Count(t) + 1 - 1 <= N
    BY <1>2, <1>8
  <2>2. u[N][a] = Read(t, 1)
    BY <1>1, <1>4, <2>1, WordsAreRead DEF a
  <2> QED BY <1>6, <2>2 DEF Read
<1> QED BY <1>7, <1>8

\* parse_all() reads all expressions of a text as what is written there, and throws when
\* one of them is refused or a parenthesis closes nothing.
THEOREM ParsesAll ==
  ASSUME NEW t, IsText(t)
  PROVE  /\ AllRefused(t) => ParseAll(t.characters) = Thrown
         /\ ~AllRefused(t) => ParseAll(t.characters) = Reading(Len(t.characters) + 1, AllOf(t))
<1> DEFINE text == t.characters
           N == Len(text)
           read == ParseExpr(text)
           ends == {EndOfText}
           all == ParseAll(text)
           m == Match(t, 0)
           trees == InOrder([k \in ItemsOf(t, 0) |-> TreeOf(t, k)], Count(t))
           failed == \E k \in ItemsOf(t, 0) : IsRefused(t, k)
<1>1. HasPlaces(t)
  BY TextHasPlaces
<1>2. IsWritten(text) /\ N \in Nat /\ Count(t) \in Nat /\ 0 \in 0..Count(t)
  BY <1>1 DEF HasPlaces
<1>3. Matched(t, 0, m)
  BY <1>1, <1>2, MatchIs
<1>4. EndOfText \in ends /\ ends \subseteq {CloseParen, EndOfText} /\ CloseParen \notin ends
  BY Characters
<1>5. GoesOn(text, read) /\ ReadsBehind(t, 0, read)
  BY <1>1, ParserReads
<1> HIDE DEF read, ends
<1>6. all = ItemsRead(t, 0, 0 + 1, ends)
  <2>1. PICK f : ItemsBy(text, read, ends, f)
    BY <1>2, <1>4, <1>5, ItemsGoOn
  <2>2. f[Begin(t, 0 + 1)] = ItemsRead(t, 0, 0 + 1, ends)
    BY <1>1, <1>2, <1>4, <1>5, <2>1, ItemsAreRead
  <2>3. SkipWhitespace(text, 1) = Begin(t, 0 + 1)
    <3>1. Behind(t, 0) = 1
      BY DEF Behind
    <3> QED BY <1>1, <1>2, <3>1, NextWord
  <2>4. all = f[SkipWhitespace(text, 1)]
    BY <2>1 DEF ParseAll, ItemsBy, read, ends
  <2> QED BY <2>2, <2>3, <2>4
<1>7. ItemsFail(t, 0, 0 + 1, ends) <=> AllRefused(t)
  <2>1. (\E k \in ItemsOf(t, 0) : 0 + 1 <= k /\ IsRefused(t, k)) <=> failed
    BY <1>1, <1>2, AllItems
  <2>2. ItemsFail(t, 0, 0 + 1, ends) <=>
          (\E k \in ItemsOf(t, 0) : 0 + 1 <= k /\ IsRefused(t, k)) \/ (m <= Count(t) /\ CloseParen \notin ends)
    BY DEF ItemsFail
  <2>3. AllRefused(t) <=> m <= Count(t) \/ failed
    BY DEF AllRefused
  <2> HIDE DEF m, failed
  <2> QED BY <1>4, <2>1, <2>2, <2>3
<1>8. InOrder(ItemTrees(t, 0, 0 + 1), Count(t)) = trees
  BY <1>1, <1>2, AllItems
<1>9. AllOf(t) = <<"list", trees>>
  BY DEF AllOf
<1> HIDE DEF all, trees, failed
<1>10. CASE AllRefused(t)
  BY <1>6, <1>7, <1>10 DEF ItemsRead, all
<1>11. CASE ~AllRefused(t)
  <2>1. ~(m <= Count(t))
    BY <1>11 DEF AllRefused
  <2>2. Begin(t, m) = N + 1
    BY <2>1 DEF Begin
  <2> HIDE DEF m
  <2> QED BY <1>6, <1>7, <1>8, <1>9, <1>11, <2>2 DEF ItemsRead, all, m
<1> QED BY <1>10, <1>11

-----------------------------------------------------------------------------
(***************************************************************************)
(* Every text has places                                                   *)
(***************************************************************************)
\* What is skipped is a gap.
LEMMA SkippedIsGap ==
  ASSUME NEW text, IsWritten(text), NEW p \in 1..Len(text) + 1
  PROVE  IsGap(text, p, SkipWhitespace(text, p))
<1> DEFINE N == Len(text) + 1
           good == {q \in 1..N : IsGap(text, q, SkipWhitespace(text, q))}
<1>1. Len(text) \in Nat /\ N \in Nat
  BY DEF IsWritten
<1>2. ASSUME NEW q \in 1..N, \A j \in q + 1..N : j \in good PROVE q \in good
  <2> DEFINE e == BehindBlank(text, q)
             s == SkipWhitespace(text, q)
  <2>1. s \in q..N /\ ~IsBlank(text, s)
    BY SkipEnds
  <2>2. CASE ~IsBlank(text, q)
    <3>1. s = q
      BY <2>2, Skips
    <3> QED BY <1>1, <3>1 DEF IsGap, Commented
  <2>3. CASE IsBlank(text, q)
    <3>1. e \in q + 1..N /\ SkipWhitespace(text, e) = s
      BY <2>3, Skips, BlankEnds
    <3>2. e \in good
      BY <1>2, <3>1
    <3>3. IsGap(text, e, s)
      BY <3>1, <3>2
    <3>4. e <= s
      BY <3>3 DEF IsGap
    <3>5. \A k \in q..s : Commented(text, e, k) => Commented(text, q, k)
      BY <1>1, <2>1, <3>1 DEF Commented
    <3>6. Peek(text, q) = text[q] /\ text[q] \in Spaces \cup {Semicolon} /\ q <= Len(text)
      BY <1>1, <3>1, <2>3 DEF IsBlank, Peek
    <3>7. /\ \A k \in q..e - 1 : k = q \/ Commented(text, q, k)
          /\ s <= Len(text) => ~Commented(text, q, s)
      <4>1. CASE text[q] \in Spaces
        <5>1. e = q + 1 /\ text[q] # Semicolon
          BY <3>6, <4>1, Characters DEF BehindBlank
        <5>2. Commented(text, q, s) => Commented(text, e, s)
          <6>1. SUFFICES ASSUME NEW k \in q..s - 1, text[k] = Semicolon, \A m \in k..s - 1 : text[m] # Newline
                PROVE  Commented(text, e, s)
            BY DEF Commented
          <6>2. k \in e..s - 1
            BY <5>1, <6>1
          <6> QED BY <6>1, <6>2 DEF Commented
        <5>3. \A k \in q..e - 1 : k = q
          BY <5>1
        <5> QED BY <3>3, <5>2, <5>3 DEF IsGap
      <4>2. CASE text[q] \notin Spaces
        <5>1. text[q] = Semicolon /\ Finds(text, q, {Newline}, e)
          BY <3>6, <4>2, FindIs DEF BehindBlank
        <5> HIDE DEF e
        <5>2. \A m \in q..e - 1 : text[m] # Newline
          <6>1. \A m \in q..e - 1 : m <= Len(text) /\ Peek(text, m) \notin {Newline}
            BY <1>1, <3>1, <5>1 DEF Finds
          <6> QED BY <6>1 DEF Peek
        <5>3. \A k \in q..e - 1 : k = q \/ Commented(text, q, k)
          <6>1. TAKE k \in q..e - 1
          <6>2. CASE k # q
            <7>1. q \in q..k - 1 /\ \A m \in q..k - 1 : m \in q..e - 1
              BY <1>1, <3>1, <6>2
            <7> QED BY <5>1, <5>2, <7>1 DEF Commented
          <6> QED BY <6>2
        <5>4. s <= Len(text) => ~Commented(text, q, s)
          <6>1. SUFFICES ASSUME s <= Len(text), NEW k \in q..s - 1, text[k] = Semicolon, \A m \in k..s - 1 : text[m] # Newline
                PROVE  FALSE
            BY DEF Commented
          <6>2. e <= Len(text) /\ e \in Nat \ {0}
            BY <1>1, <2>1, <3>1, <3>4, <6>1
          <6>3. Peek(text, e) = text[e] /\ Peek(text, e) # EndOfText
            BY <6>2, Ends
          <6>4. Peek(text, e) = Newline /\ text[e] = Newline
            <7>1. Peek(text, e) \in {Newline} \cup {EndOfText}
              BY <5>1, Zenon DEF Finds
            <7> QED BY <6>3, <7>1
          <6>5. e # s
            BY <2>1, <6>4, Characters DEF IsBlank
          <6>6. CASE k < e
            BY <1>1, <2>1, <3>1, <3>4, <6>1, <6>4, <6>5, <6>6
          <6>7. CASE e <= k
            <7>1. Commented(text, e, s)
              BY <1>1, <2>1, <3>1, <6>1, <6>7 DEF Commented
            <7> QED BY <3>3, <6>1, <7>1 DEF IsGap
          <6> QED BY <1>1, <2>1, <3>1, <6>6, <6>7
        <5> QED BY <5>3, <5>4
      <4> QED BY <4>1, <4>2
    <3>8. \A k \in q..s - 1 : text[k] \in Spaces \cup {Semicolon} \/ Commented(text, q, k)
      <4>1. \A k \in e..s - 1 : text[k] \in Spaces \cup {Semicolon} \/ Commented(text, e, k)
        BY <3>3 DEF IsGap
      <4>2. TAKE k \in q..s - 1
      <4>3. k \in q..e - 1 \/ k \in e..s - 1
        BY <1>1, <2>1, <3>1
      <4> HIDE DEF e, s
      <4>4. k \in q..s
        BY <1>1, <2>1
      <4> QED BY <3>5, <3>6, <3>7, <4>1, <4>3, <4>4
    <3> HIDE DEF e, s
    <3>9. IsGap(text, q, s)
      BY <1>1, <2>1, <3>7, <3>8 DEF IsGap
    <3> QED BY <3>9 DEF s
  <2> QED BY <2>2, <2>3
<1>3. \A q \in 1..N : q \in good
  <2> HIDE DEF good, N
  <2> QED BY <1>1, <1>2, Downwards
<1> QED BY <1>3

\* What is not blank begins a word.
LEMMA WordBegins ==
  ASSUME NEW text, IsWritten(text), NEW a \in 1..Len(text), ~IsBlank(text, a)
  PROVE  \E b \in a + 1..Len(text) + 1 : IsWord(text, a, b)
<1> DEFINE kind == Kind(text, a)
           N == Len(text) + 1
<1>1. Len(text) \in Nat /\ Peek(text, a) = text[a] /\ a \in 1..N
  BY DEF IsWritten, Peek
<1>2. kind \in {"open", "close"} \/ kind = "string" \/ kind = "number" \/ kind = "symbol"
  BY KindIs, Zenon
<1>3. CASE kind \in {"open", "close"}
  <2>1. IsWord(text, a, a + 1)
    BY <1>1, <1>3 DEF IsWord
  <2> QED BY <1>1, <2>1
<1>4. CASE kind = "string"
  <2> DEFINE ends == {k \in a + 1..Len(text) : text[k] = Quote /\ ~Escapes(text, k - 1)}
  <2>1. kind \notin {"open", "close"}
    BY <1>4
  <2>2. CASE ends = {}
    <3>1. \A k \in a + 1..N - 2 : k \in a + 1..Len(text)
      BY <1>1
    <3>2. \A k \in a + 1..N - 2 : text[k] = Quote => Escapes(text, k - 1)
      BY <2>2, <3>1
    <3>3. IsWord(text, a, N)
      BY <1>1, <1>4, <2>1, <3>2 DEF IsWord
    <3> QED BY <1>1, <3>3
  <2>3. CASE ends # {}
    <3>1. ends \in SUBSET Nat
      BY <1>1
    <3>2. PICK k \in ends : \A j \in ends : k <= j
      <4> HIDE DEF ends
      <4> QED BY <2>3, <3>1, LowestIs
    <3>3. k \in a + 1..Len(text) /\ text[k] = Quote /\ ~Escapes(text, k - 1)
      BY <3>2
    <3>4. \A j \in a + 1..k - 1 : j \in a + 1..Len(text) /\ ~(k <= j)
      BY <1>1, <3>3
    <3>5. \A j \in a + 1..k - 1 : text[j] = Quote => Escapes(text, j - 1)
      BY <3>2, <3>4
    <3> DEFINE b == k + 1
    <3>6. a + 1 < b /\ b - 1 = k /\ b - 2 = k - 1 /\ b \in a + 1..N
      BY <1>1, <3>3
    <3> HIDE DEF b
    <3>7. IsClosed(text, a, b)
      BY <3>3, <3>6 DEF IsClosed
    <3>8. a < b
      BY <1>1, <3>6
    <3>9. IsWord(text, a, b)
      BY <1>4, <2>1, <3>5, <3>6, <3>7, <3>8 DEF IsWord
    <3> QED BY <3>6, <3>9
  <2> QED BY <2>2, <2>3
<1>5. CASE kind = "number" /\ ~HasRadix(text, a)
  <2>1. kind \notin {"open", "close"} /\ kind # "string"
    BY <1>5
  <2> DEFINE b == BehindDigits(text, FirstDigit(text, a))
  <2>2. StartsNumber(text, a)
    BY <1>5, KindIs, KindsApart
  <2>3. FirstDigit(text, a) \in a..Len(text) /\ b \in FirstDigit(text, a) + 1..N
    BY <1>1, <2>2, DigitsEnd DEF FirstDigit
  <2>4. b \in a + 1..N
    BY <1>1, <2>3
  <2> HIDE DEF b
  <2>5. a < b
    BY <1>1, <2>4
  <2>6. IsWord(text, a, b)
    BY <1>5, <2>1, <2>5 DEF IsWord, b
  <2> QED BY <2>4, <2>6
<1>6. CASE kind = "symbol" \/ (kind = "number" /\ HasRadix(text, a))
  <2>1. kind \notin {"open", "close"} /\ kind # "string" /\ ~(kind = "number" /\ ~HasRadix(text, a))
    BY <1>6
  <2> DEFINE b == Find(text, a, Delimiters)
  <2>2. Finds(text, a, Delimiters, b)
    BY <1>1, FindIs
  <2>3. text[a] # OpenParen /\ text[a] # CloseParen
    BY <1>1, <2>1, KindIs
  <2>4. text[a] \notin Delimiters \cup {EndOfText} /\ text[a] \notin Spaces \cup {Semicolon}
    BY <1>1, <2>3, Ends DEF Delimiters, IsBlank
  <2> HIDE DEF b
  <2>5. b \in a + 1..N /\ a < b
    <3>1. b # a
      BY <1>1, <2>2, <2>4 DEF Finds
    <3> QED BY <1>1, <2>2, <3>1 DEF Finds
  <2>6. \A k \in a..b - 1 : text[k] \notin Delimiters
    <3>1. \A k \in a..b - 1 : k <= Len(text) /\ Peek(text, k) \notin Delimiters
      BY <1>1, <2>2, <2>5 DEF Finds
    <3> QED BY <3>1 DEF Peek
  <2>7. Peek(text, b) \in Delimiters
    BY <2>2, Characters DEF Finds
  <2>8. IsWord(text, a, b)
    BY <2>1, <2>4, <2>5, <2>6, <2>7 DEF IsWord
  <2> QED BY <2>5, <2>8
<1> QED BY <1>2, <1>3, <1>4, <1>5, <1>6

\* Words from q to the end of the text, with nothing but gaps between them
Stretch(text) == 1..Len(text) + 1
Follow(text, q, n, first, behind) ==
  /\ n \in Nat /\ \A i \in 1..n : first[i] \in Stretch(text) /\ behind[i] \in Stretch(text) /\ IsWord(text, first[i], behind[i])
  /\ \A i \in 0..n : IsGap(text, IF i = 0 THEN q ELSE behind[i], IF i < n THEN first[i + 1] ELSE Len(text) + 1)

LEMMA WordsFollow ==
  ASSUME NEW text, IsWritten(text)
  PROVE  \A q \in Stretch(text) : \E n, first, behind : Follow(text, q, n, first, behind)
<1> DEFINE N == Len(text) + 1
           good == {q \in 1..N : \E n, first, behind : Follow(text, q, n, first, behind)}
<1>1. Len(text) \in Nat /\ N \in Nat
  BY DEF IsWritten
<1>2. ASSUME NEW q \in 1..N, \A j \in q + 1..N : j \in good PROVE q \in good
  <2> DEFINE s == SkipWhitespace(text, q)
  <2>1. s \in q..N /\ ~IsBlank(text, s) /\ IsGap(text, q, s)
    BY SkipEnds, SkippedIsGap
  <2> HIDE DEF s
  <2>2. CASE s = N
    <3>1. Follow(text, q, 0, <<>>, <<>>)
      BY <1>1, <2>1, <2>2 DEF Follow
    <3> QED BY <3>1
  <2>3. CASE s # N
    <3>1. s \in 1..Len(text) /\ s \in Stretch(text)
      BY <1>1, <2>1, <2>3 DEF Stretch
    <3>2. PICK b \in s + 1..N : IsWord(text, s, b)
      BY <2>1, <3>1, WordBegins
    <3>3. b \in Stretch(text) /\ b \in q + 1..N
      BY <1>1, <2>1, <3>2 DEF Stretch
    <3>4. b \in good
      BY <1>2, <3>3
    <3>5. PICK n, first, behind : Follow(text, b, n, first, behind)
      BY <3>4
    <3> DEFINE f == [i \in 1..n + 1 |-> IF i = 1 THEN s ELSE first[i - 1]]
               g == [i \in 1..n + 1 |-> IF i = 1 THEN b ELSE behind[i - 1]]
    <3>6. n \in Nat /\ n + 1 \in Nat
      BY <3>5 DEF Follow
    <3>7. f[1] = s /\ g[1] = b /\ \A i \in 1..n : f[i + 1] = first[i] /\ g[i + 1] = behind[i]
      BY <3>6
    <3> HIDE DEF f, g
    <3>8. \A i \in 1..n + 1 : f[i] \in Stretch(text) /\ g[i] \in Stretch(text) /\ IsWord(text, f[i], g[i])
      <4>1. TAKE i \in 1..n + 1
      <4>2. CASE i = 1
        BY <3>1, <3>2, <3>3, <3>7, <4>2
      <4>3. CASE i # 1
        <5>1. PICK j \in 1..n : i = j + 1
          <6>1. i - 1 \in 1..n /\ i = (i - 1) + 1
            BY <3>6, <4>3
          <6> QED BY <6>1
        <5> QED BY <3>5, <3>7, <5>1 DEF Follow
      <4> QED BY <4>2, <4>3
    <3>9. \A i \in 0..n + 1 : IsGap(text, IF i = 0 THEN q ELSE g[i], IF i < n + 1 THEN f[i + 1] ELSE N)
      <4>1. TAKE i \in 0..n + 1
      <4>2. CASE i = 0
        BY <2>1, <3>6, <3>7, <4>2
      <4>3. CASE i # 0
        <5>1. PICK j \in 0..n : i = j + 1
          <6>1. i - 1 \in 0..n /\ i = (i - 1) + 1
            BY <3>6, <4>3
          <6> QED BY <6>1
        <5>2. IsGap(text, IF j = 0 THEN b ELSE behind[j], IF j < n THEN first[j + 1] ELSE N)
          BY <3>5 DEF Follow
        <5>3. g[i] = IF j = 0 THEN b ELSE behind[j]
          BY <3>6, <3>7, <5>1
        <5>4. (IF i < n + 1 THEN f[i + 1] ELSE N) = IF j < n THEN first[j + 1] ELSE N
          <6>1. i < n + 1 <=> j < n
            BY <3>6, <5>1
          <6>2. j < n => j + 1 \in 1..n /\ i + 1 = (j + 1) + 1
            BY <3>6, <5>1
          <6>3. j < n => f[i + 1] = first[j + 1]
            BY <3>7, <6>2
          <6> QED BY <6>1, <6>3
        <5> QED BY <4>3, <5>2, <5>3, <5>4
      <4> QED BY <4>2, <4>3
    <3>10. Follow(text, q, n + 1, f, g)
      BY <3>6, <3>8, <3>9 DEF Follow
    <3> QED BY <3>10
  <2> QED BY <2>2, <2>3
<1>3. \A q \in 1..N : q \in good
  <2> HIDE DEF good, N
  <2> QED BY <1>1, <1>2, Downwards
<1> QED BY <1>3 DEF Stretch

\* Sums of steps
LEMMA SumsExist ==
  ASSUME NEW n \in Nat, NEW step, \A i \in 1..n : step[i] \in Int
  PROVE  \E d : d[0] = 0 /\ \A i \in 1..n : d[i] \in Int /\ d[i] = d[i - 1] + step[i]
<1> DEFINE Sums(k, d) == d[0] = 0 /\ d[k] \in Int /\ \A i \in 1..k : d[i] \in Int /\ d[i] = d[i - 1] + step[i]
           good == {k \in 0..n : \E d : Sums(k, d)}
<1>1. 0 \in good
  <2>1. Sums(0, [i \in {0} |-> 0])
    OBVIOUS
  <2> HIDE DEF Sums
  <2> QED BY <2>1
<1>2. ASSUME NEW k \in 0 + 1..n, k - 1 \in good PROVE k \in good
  <2>1. PICK d : Sums(k - 1, d)
    BY <1>2
  <2> DEFINE e == [i \in 0..k |-> IF i = k THEN d[k - 1] + step[k] ELSE d[i]]
  <2>2. k \in 1..n /\ k \in Nat
    OBVIOUS
  <2>3. e[k] = d[k - 1] + step[k] /\ \A i \in 0..k - 1 : e[i] = d[i]
    BY <2>2
  <2> HIDE DEF e
  <2>4. d[k - 1] \in Int /\ step[k] \in Int
    BY <2>1, <2>2
  <2>5. e[0] = 0 /\ e[k] \in Int
    BY <2>1, <2>2, <2>3, <2>4
  <2>6. \A i \in 1..k : e[i] \in Int /\ e[i] = e[i - 1] + step[i]
    <3>1. TAKE i \in 1..k
    <3>2. CASE i = k
      BY <2>2, <2>3, <2>4, <3>2
    <3>3. CASE i # k
      <4>1. i \in 1..k - 1 /\ i \in 0..k - 1 /\ i - 1 \in 0..k - 1
        BY <2>2, <3>3
      <4> QED BY <2>1, <2>3, <4>1
    <3> QED BY <3>2, <3>3
  <2>7. Sums(k, e)
    BY <2>5, <2>6
  <2> HIDE DEF Sums
  <2> QED BY <2>2, <2>7
<1>3. \A k \in 0..n : k \in good
  <2> HIDE DEF good
  <2> QED BY <1>1, <1>2, Stepwise
<1> QED BY <1>3

\* Every sequence of characters is a text, in which the words stand at some places: the
\* theorems above leave no file out.
THEOREM EveryTextHasPlaces ==
  ASSUME NEW characters \in Seq(STRING \ {EndOfText})
  PROVE  \E words : IsText([characters |-> characters, words |-> words])
<1>1. IsWritten(characters) /\ Len(characters) \in Nat /\ 1 \in Stretch(characters)
  BY DEF IsWritten, Written, Stretch
<1>2. PICK n, first, behind : Follow(characters, 1, n, first, behind)
  BY <1>1, WordsFollow
<1> DEFINE Change(kind) == CASE kind = "open" -> 1 [] kind = "close" -> -1 [] OTHER -> 0
           step == [i \in 1..n |-> Change(Kind(characters, first[i]))]
<1>3. n \in Nat /\ \A i \in 1..n : step[i] \in Int
  <2>1. \A kind : Change(kind) \in Int
    BY KindsApart
  <2> HIDE DEF Change
  <2> QED BY <1>2, <2>1 DEF Follow
<1>4. \A i \in 1..n : step[i] = Change(Kind(characters, first[i]))
  OBVIOUS
<1> HIDE DEF step
<1>5. PICK d : d[0] = 0 /\ \A i \in 1..n : d[i] \in Int /\ d[i] = d[i - 1] + step[i]
  BY <1>3, SumsExist
<1> DEFINE words == [i \in 1..n |-> [first |-> first[i], behind |-> behind[i], depth |-> d[i]]]
           t == [characters |-> characters, words |-> words]
           Places == [first : Stretch(characters), behind : Stretch(characters), depth : Int]
<1>6. t.characters = characters /\ t.words = words
  OBVIOUS
<1>7. words \in Seq(Places) /\ Len(words) = n /\ DOMAIN words = 1..n
  <2>1. \A i \in 1..n : words[i] \in Places
    BY <1>2, <1>5 DEF Follow
  <2>2. words = [i \in 1..n |-> words[i]]
    OBVIOUS
  <2> HIDE DEF words, Places
  <2> QED BY <1>3, <2>1, <2>2
<1>8. \A i \in 1..n : words[i].first = first[i] /\ words[i].behind = behind[i] /\ words[i].depth = d[i]
  OBVIOUS
<1> HIDE DEF words, t
<1>9. Count(t) = n
  BY <1>6, <1>7 DEF Count
<1>10. /\ \A i \in 1..n : Begin(t, i) = first[i] /\ Behind(t, i) = behind[i] /\ Depth(t, i) = d[i]
       /\ Depth(t, 0) = 0 /\ Behind(t, 0) = 1 /\ Begin(t, n + 1) = Len(characters) + 1
  BY <1>3, <1>6, <1>8, <1>9 DEF Begin, Behind, Depth
<1>11. \A i \in DOMAIN t.words : IsWord(t.characters, t.words[i].first, t.words[i].behind)
  BY <1>2, <1>6, <1>7, <1>8 DEF Follow
<1>12. \A i \in 0..Count(t) : IsGap(t.characters, Behind(t, i), Begin(t, i + 1))
  <2>1. TAKE i \in 0..Count(t)
  <2>2. IsGap(characters, IF i = 0 THEN 1 ELSE behind[i], IF i < n THEN first[i + 1] ELSE Len(characters) + 1)
    BY <1>2, <1>9 DEF Follow
  <2>3. Behind(t, i) = IF i = 0 THEN 1 ELSE behind[i]
    BY <1>3, <1>9, <1>10
  <2>4. Begin(t, i + 1) = IF i < n THEN first[i + 1] ELSE Len(characters) + 1
    <3>1. i < n => i + 1 \in 1..n
      BY <1>3, <1>9
    <3>2. ~(i < n) => i + 1 = n + 1
      BY <1>3, <1>9
    <3> QED BY <1>10, <3>1, <3>2
  <2> QED BY <1>6, <2>2, <2>3, <2>4
<1>13. \A i \in DOMAIN t.words : Depth(t, i) = Depth(t, i - 1) + Change(WordKind(t, i))
  <2>1. TAKE i \in DOMAIN t.words
  <2>2. i \in 1..n /\ WordKind(t, i) = Kind(characters, first[i])
    BY <1>6, <1>7, <1>8 DEF WordKind
  <2>3. Depth(t, i - 1) = d[i - 1]
    <3>1. i = 1 \/ i - 1 \in 1..n
      BY <1>3, <2>2
    <3>2. i = 1 => i - 1 = 0
      OBVIOUS
    <3> QED BY <1>5, <1>10, <3>1, <3>2
  <2> HIDE DEF Change
  <2> QED BY <1>4, <1>5, <1>10, <2>2, <2>3
<1>14. IsText(t)
  <2>1. t.words \in Seq([first : 1..Len(t.characters) + 1, behind : 1..Len(t.characters) + 1, depth : Int])
    BY <1>6, <1>7 DEF Stretch
  <2>2. t.characters \in Seq(STRING \ {EndOfText})
    BY <1>6
  <2> QED BY <1>11, <1>12, <1>13, <2>1, <2>2 DEF IsText
<1> QED BY <1>14 DEF t

\* A word ends at one place only.
LEMMA StringEndsOnce ==
  ASSUME NEW text, IsWritten(text), NEW a \in 1..Len(text) + 1, NEW b \in 1..Len(text) + 1, NEW c \in 1..Len(text) + 1,
         IsString(text, a, b), IsString(text, a, c)
  PROVE  ~(b < c)
<1> SUFFICES ASSUME b < c PROVE FALSE
  OBVIOUS
<1>1. Len(text) \in Nat /\ b # Len(text) + 1
  BY DEF IsWritten
<1>2. a + 1 < b /\ text[b - 1] = Quote /\ ~Escapes(text, b - 2)
  BY <1>1 DEF IsString, IsClosed
<1> DEFINE k == b - 1
<1>3. k \in a + 1..c - 2 /\ k - 1 = b - 2
  BY <1>1, <1>2
<1> HIDE DEF k
<1> QED BY <1>2, <1>3 DEF IsString, k

LEMMA WordEndsOnce ==
  ASSUME NEW text, IsWritten(text), NEW a \in 1..Len(text) + 1, NEW b \in 1..Len(text) + 1, NEW c \in 1..Len(text) + 1,
         IsWord(text, a, b), IsWord(text, a, c)
  PROVE  b = c
<1> DEFINE kind == Kind(text, a)
<1>1. kind \in {"open", "close"} \/ kind = "string" \/ kind = "number" \/ kind = "symbol"
  BY KindIs, Zenon
<1>2. CASE kind \in {"open", "close"}
  BY <1>2, WordIs
<1>3. CASE kind = "string"
  <2>1. IsString(text, a, b) /\ IsString(text, a, c)
    BY <1>3, KindString
  <2>2. ~(b < c) /\ ~(c < b)
    BY <2>1, StringEndsOnce
  <2>3. Len(text) \in Nat
    BY DEF IsWritten
  <2> QED BY <2>2, <2>3
<1>4. CASE kind = "number" /\ ~HasRadix(text, a)
  BY <1>4, WordIs
<1>5. CASE kind = "symbol" \/ (kind = "number" /\ HasRadix(text, a))
  <2>1. ASSUME NEW e \in 1..Len(text) + 1, IsWord(text, a, e) PROVE e = Find(text, a, Delimiters)
    <3>1. Len(text) \in Nat /\ a < e /\ IsPiece(text, a, e)
      BY <1>5, <2>1, WordIs DEF IsWritten
    <3>2. \A k \in a..e - 1 : Peek(text, k) = text[k]
      BY <3>1 DEF Peek
    <3>3. Finds(text, a, Delimiters, e)
      BY <3>1, <3>2, Characters DEF Finds, IsPiece
    <3> QED BY <3>3, FindIs
  <2> QED BY <2>1
<1> QED BY <1>1, <1>2, <1>3, <1>4, <1>5

SamePlaces(t, u, i) ==
  /\ i <= Count(u) /\ Behind(t, i) = Behind(u, i) /\ Depth(t, i) = Depth(u, i)
  /\ i > 0 => Begin(t, i) = Begin(u, i)

LEMMA WordsAgree ==
  ASSUME NEW t, NEW u, HasPlaces(t), HasPlaces(u), t.characters = u.characters
  PROVE  \A i \in 0..Count(t) : SamePlaces(t, u, i)
<1> DEFINE text == t.characters
           good == {i \in 0..Count(t) : SamePlaces(t, u, i)}
<1>1. Count(t) \in Nat /\ Count(u) \in Nat /\ IsWritten(text) /\ Len(text) \in Nat
  BY DEF HasPlaces
<1>2. 0 \in good
  BY <1>1 DEF SamePlaces, Behind, Depth
<1>3. ASSUME NEW i \in 0 + 1..Count(t), i - 1 \in good PROVE i \in good
  <2> DEFINE k == i - 1
  <2>1. k \in 0..Count(t) /\ k \in Nat /\ k + 1 = i /\ SamePlaces(t, u, k) /\ i \in 1..Count(t) /\ i > 0
    BY <1>1, <1>3
  <2> HIDE DEF k
  <2>2. k \in 0..Count(u) /\ Behind(t, k) = Behind(u, k) /\ Depth(t, k) = Depth(u, k)
    BY <1>1, <2>1 DEF SamePlaces
  <2>3. Begin(t, i) = SkipWhitespace(text, Behind(t, k))
    BY <2>1, NextWord
  <2>4. Begin(u, i) = SkipWhitespace(text, Behind(u, k))
    BY <2>1, <2>2, NextWord
  <2>5. Begin(t, i) = Begin(u, i)
    BY <2>2, <2>3, <2>4
  <2>6. /\ Begin(t, i) \in 1..Len(text) + 1 /\ Behind(t, i) \in 1..Len(text) + 1 /\ Begin(t, i) < Behind(t, i)
        /\ IsWord(text, Begin(t, i), Behind(t, i)) /\ WordKind(t, i) = Kind(text, Begin(t, i))
    BY <2>1 DEF HasPlaces
  <2>7. i <= Count(u)
    <3>1. SUFFICES ASSUME ~(i <= Count(u)) PROVE FALSE
      OBVIOUS
    <3>2. Begin(u, i) = Len(text) + 1
      BY <3>1 DEF Begin
    <3> QED BY <1>1, <2>5, <2>6, <3>2
  <2>8. i \in 1..Count(u)
    BY <1>1, <2>1, <2>7
  <2>9. /\ Behind(u, i) \in 1..Len(text) + 1
        /\ IsWord(text, Begin(u, i), Behind(u, i)) /\ WordKind(u, i) = Kind(text, Begin(u, i))
    BY <2>8 DEF HasPlaces
  <2>10. Behind(t, i) = Behind(u, i)
    BY <1>1, <2>5, <2>6, <2>9, WordEndsOnce
  <2>11. WordKind(t, i) = WordKind(u, i)
    BY <2>5, <2>6, <2>9
  <2>12. Depth(t, i) = Depth(u, i)
    <3>1. /\ WordKind(t, i) = "open" => Depth(t, i) = Depth(t, i - 1) + 1
          /\ WordKind(t, i) = "close" => Depth(t, i) = Depth(t, i - 1) - 1
          /\ WordKind(t, i) \notin {"open", "close"} => Depth(t, i) = Depth(t, i - 1)
      BY <2>1 DEF HasPlaces
    <3>2. /\ WordKind(u, i) = "open" => Depth(u, i) = Depth(u, i - 1) + 1
          /\ WordKind(u, i) = "close" => Depth(u, i) = Depth(u, i - 1) - 1
          /\ WordKind(u, i) \notin {"open", "close"} => Depth(u, i) = Depth(u, i - 1)
      BY <2>8 DEF HasPlaces
    <3>3. Depth(t, i - 1) = Depth(u, i - 1)
      BY <2>2 DEF k
    <3> QED BY <2>11, <3>1, <3>2, <3>3, Zenon
  <2>13. SamePlaces(t, u, i)
    BY <2>5, <2>7, <2>10, <2>12 DEF SamePlaces
  <2> QED BY <2>1, <2>13
<1>4. \A i \in 0..Count(t) : i \in good
  <2> HIDE DEF good
  <2> QED BY <1>1, <1>2, <1>3, Stepwise
<1> QED BY <1>4

\* The characters alone say where the words are and how deep: what a text says is never a
\* matter of choice.
THEOREM CharactersSayPlaces ==
  ASSUME NEW t, NEW u, IsText(t), IsText(u), t.characters = u.characters
  PROVE  t.words = u.words
<1>1. HasPlaces(t) /\ HasPlaces(u)
  BY TextHasPlaces
<1>2. (\A i \in 0..Count(t) : SamePlaces(t, u, i)) /\ (\A i \in 0..Count(u) : SamePlaces(u, t, i))
  BY <1>1, WordsAgree
<1>3. Count(t) \in Nat /\ Count(u) \in Nat /\ DOMAIN t.words = 1..Count(t) /\ DOMAIN u.words = 1..Count(u)
  BY <1>1 DEF HasPlaces
<1>4. Count(t) = Count(u)
  <2>1. Count(t) \in 0..Count(t) /\ Count(u) \in 0..Count(u)
    BY <1>3
  <2>2. Count(t) <= Count(u) /\ Count(u) <= Count(t)
    BY <1>2, <2>1 DEF SamePlaces
  <2> QED BY <1>3, <2>2
<1> DEFINE Places == [first : 1..Len(t.characters) + 1, behind : 1..Len(t.characters) + 1, depth : Int]
<1>5. t.words \in Seq(Places) /\ u.words \in Seq(Places)
  BY DEF IsText
<1>6. ASSUME NEW i \in 1..Count(t) PROVE t.words[i] = u.words[i]
  <2>1. t.words[i] \in Places /\ u.words[i] \in Places
    <3> HIDE DEF Places
    <3> QED BY <1>3, <1>4, <1>5
  <2>2. SamePlaces(t, u, i) /\ i > 0 /\ i # 0
    BY <1>2, <1>3
  <2>3. /\ Begin(t, i) = t.words[i].first /\ Behind(t, i) = t.words[i].behind
        /\ Begin(u, i) = u.words[i].first /\ Behind(u, i) = u.words[i].behind
    BY <1>1, <1>4 DEF HasPlaces
  <2>4. Depth(t, i) = t.words[i].depth /\ Depth(u, i) = u.words[i].depth
    BY <2>2 DEF Depth
  <2>5. t.words[i].first = u.words[i].first /\ t.words[i].behind = u.words[i].behind /\ t.words[i].depth = u.words[i].depth
    BY <2>2, <2>3, <2>4 DEF SamePlaces
  <2> QED BY <2>1, <2>5
<1> HIDE DEF Places
<1> QED BY <1>3, <1>4, <1>5, <1>6

-----------------------------------------------------------------------------
(***************************************************************************)
(* Files                                                                   *)
(***************************************************************************)
\* So what a tool has read is what the file says.
FileIsRead ==
  /\ file \in Files
  /\ ast # Unread => ast = IF IsRefused(file, 1) THEN Nothing ELSE TreeOf(file, 1)

THEOREM FilesReadAsWritten == ReaderSpec => []ReadsWhatWasWritten
<1>1. ReaderInit => FileIsRead
  BY DEF ReaderInit, FileIsRead
<1>2. FileIsRead /\ [ParseFile]_<<file, ast>> => FileIsRead'
  <2> SUFFICES ASSUME FileIsRead, [ParseFile]_<<file, ast>> PROVE FileIsRead'
    OBVIOUS
  <2>1. CASE ParseFile
    <3> DEFINE reading == Parse(file.characters)
    <3>1. IsText(file) /\ file' = file /\ file \in Files
      BY <2>1, FilesAssumption DEF FileIsRead, ParseFile
    <3>2. ast' = IF reading.thrown THEN Nothing ELSE reading.tree
      BY <2>1 DEF ParseFile
    <3>3. CASE IsRefused(file, 1)
      <4>1. reading = Thrown
        BY <3>1, <3>3, ParsesFirst
      <4>2. reading.thrown
        BY <4>1 DEF Thrown
      <4> HIDE DEF reading
      <4> QED BY <3>1, <3>2, <3>3, <4>2 DEF FileIsRead
    <3>4. CASE ~IsRefused(file, 1)
      <4>1. reading = Reading(Behind(file, LastOf(file, 1)), TreeOf(file, 1))
        BY <3>1, <3>4, ParsesFirst
      <4>2. reading.thrown = FALSE /\ reading.tree = TreeOf(file, 1)
        BY <4>1 DEF Reading
      <4> HIDE DEF reading
      <4> QED BY <3>1, <3>2, <3>4, <4>2 DEF FileIsRead
    <3> QED BY <3>3, <3>4
  <2>2. CASE UNCHANGED <<file, ast>>
    BY <2>2 DEF FileIsRead
  <2> QED BY <2>1, <2>2
<1>3. FileIsRead => ReadsWhatWasWritten
  <2> SUFFICES ASSUME FileIsRead PROVE ReadsWhatWasWritten
    OBVIOUS
  <2> DEFINE all == ParseAll(file.characters)
  <2>1. IsText(file)
    BY FilesAssumption DEF FileIsRead
  <2>2. CASE AllRefused(file)
    <3>1. all = Thrown
      BY <2>1, <2>2, ParsesAll
    <3>2. all.thrown
      BY <3>1 DEF Thrown
    <3> QED BY <2>2, <3>2 DEF FileIsRead, ReadsWhatWasWritten
  <2>3. CASE ~AllRefused(file)
    <3>1. all = Reading(Len(file.characters) + 1, AllOf(file))
      BY <2>1, <2>3, ParsesAll
    <3>2. all.thrown = FALSE /\ all.tree = AllOf(file)
      BY <3>1 DEF Reading
    <3> QED BY <2>3, <3>2 DEF FileIsRead, ReadsWhatWasWritten
  <2> QED BY <2>2, <2>3
<1> QED BY <1>1, <1>2, <1>3, PTL DEF ReaderSpec
=============================================================================
