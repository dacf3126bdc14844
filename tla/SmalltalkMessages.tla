-------------------------- MODULE SmalltalkMessages ---------------------------
(***************************************************************************)
(* What message expressions mean, written from above: an expression is     *)
(* split at what binds least, where the parser puts together what binds    *)
(* most.  A text is a sequence of words with so many blanks behind each,   *)
(* and maybe some before the first.  A part of an expression is known by   *)
(* the place of its word.                                                  *)
(***************************************************************************)
EXTENDS SmalltalkParser, Places, FiniteSets

\* The text up to its n-th word, with the blanks behind
SpelledTo(text, n) ==
  LET blanks(k) == [i \in 1..k |-> " "]
      upTo[i \in 0..Len(text.words)] ==
        IF i = 0 THEN blanks(text.margin) ELSE upTo[i - 1] \o text.words[i] \o blanks(text.gaps[i])
  IN upTo[n]

Spelled(text) == SpelledTo(text, Len(text.words))

\* The position in the text at which a word starts
StartOf(text, i) == Len(SpelledTo(text, i - 1))

WordType(word) ==
  CASE word[1] \in Digits -> "number"
    [] word[1] \in BinaryOps -> "binary"
    [] word[1] \in Letters /\ Last(word) = ":" -> "keyword"
    [] word[1] \in Letters /\ Last(word) # ":" -> "identifier"
    [] OTHER -> "unknown"

IsName(word) == word # <<>> /\ word[1] \in Letters /\ \A i \in DOMAIN word : word[i] \in Letters \cup Digits

IsWord(word) ==
  \/ WordType(word) = "number" /\ \A i \in DOMAIN word : word[i] \in Digits
  \/ WordType(word) = "binary" /\ Len(word) = 1
  \/ WordType(word) = "identifier" /\ IsName(word)
  \/ WordType(word) = "keyword" /\ IsName(Front(word))
  \/ WordType(word) = "unknown" /\ word[1] \notin Blanks

\* Two words without a blank between them, of which the first does not go on.
Apart(word, next) ==
  /\ WordType(word) = "number" => next[1] \notin Digits
  /\ WordType(word) = "identifier" => next[1] \notin Letters \cup Digits \cup {":"}

\* The places for the keywords and arguments of one message, which nobody counts: 10
\* words are asked for, and malloc rounds them up to a multiple of 8.
KEYWORD_ROOM == 16

\* A text whose words can be told apart, and that the parser has room for
WellWritten(text) ==
  /\ text.words \in Seq(Seq(STRING) \ {<<>>}) /\ \A i \in DOMAIN text.words : IsWord(text.words[i])
  /\ text.gaps \in [DOMAIN text.words -> Nat] /\ text.margin \in Nat
  /\ \A i \in DOMAIN text.words :
       i < Len(text.words) /\ text.gaps[i] = 0 => Apart(text.words[i], text.words[i + 1])
  /\ Cardinality({i \in DOMAIN text.words : WordType(text.words[i]) = "keyword"}) <= KEYWORD_ROOM

Types(words) == [i \in DOMAIN words |-> WordType(words[i])]

\* The places of words of a type among those from a to b
Among(types, a, b, type) == {i \in a..b : types[i] = type}

Operands == {"number", "identifier"}

\* The first of these places behind i, or the end b + 1
Behind(places, i, b) == Lowest({j \in places \cup {b + 1} : j > i})

\* The words from a to b are an operand and the names of unary messages.
IsUnary(types, a, b) == a <= b /\ types[a] \in Operands /\ \A i \in a + 1..b : types[i] = "identifier"

IsBinary(types, a, b) ==
  LET ops == Among(types, a, b, "binary") IN
  \A i \in ops \cup {a - 1} : IsUnary(types, i + 1, Behind(ops, i, b) - 1)

IsMessage(types, a, b) ==
  LET keywords == Among(types, a, b, "keyword") IN
  \A i \in keywords \cup {a - 1} : IsBinary(types, i + 1, Behind(keywords, i, b) - 1)

\* The trees of the messages that the words from a to b are, with the values of numbers
\* and the positions of names: the last name splits a unary message, the last operator
\* a binary one, and all keywords together a keyword message.
OperandAt(text, i) ==
  IF WordType(text.words[i]) = "number" THEN <<"number", NumberOf(text.words[i])>>
  ELSE <<"identifier", StartOf(text, i)>>

UnaryOf(text, a, b) ==
  LET upTo[i \in a..Len(text.words)] ==
        IF i = a THEN OperandAt(text, a) ELSE <<"unary", StartOf(text, i), upTo[i - 1]>>
  IN upTo[b]

BinaryOf(text, a, b) ==
  LET ops(i) == Among(Types(text.words), a, i, "binary")
      op(i) == Highest(ops(i))
      upTo[i \in a..Len(text.words)] ==
        IF ops(i) = {} THEN UnaryOf(text, a, i)
        ELSE <<"binary", text.words[op(i)][1], upTo[op(i) - 1], UnaryOf(text, op(i) + 1, i)>>
  IN upTo[b]

MessageOf(text, a, b) ==
  LET keywords == Among(Types(text.words), a, b, "keyword")
      names == [i \in keywords |-> StartOf(text, i)]
      arguments == [i \in keywords |-> BinaryOf(text, i + 1, Behind(keywords, i, b) - 1)]
  IN IF keywords = {} THEN BinaryOf(text, a, b)
     ELSE <<"keyword", InOrder(names, b), BinaryOf(text, a, Lowest(keywords) - 1), InOrder(arguments, b)>>

\* A text is read as far as it is a message.  It is refused if it does not begin with
\* one, and if an operator or a keyword follows without its operand.
Readable(types) == {n \in DOMAIN types : IsMessage(types, 1, n)}
ReadTo(types) == Highest(Readable(types))
Refused(types) ==
  \/ Readable(types) = {}
  \/ ReadTo(types) < Len(types) /\ types[ReadTo(types) + 1] \in {"binary", "keyword"}

\* The sends of a message in the order in which they are compiled, each with the place
\* of its word, and whether a send of the same kind makes its receiver.
Send(kind, at, onSame) == [kind |-> kind, at |-> at, onSame |-> onSame]

UnarySends(a, b) == [i \in 1..b - a |-> Send("unary", a + i, i > 1)]

BinarySends(types, a, b) ==
  LET ops(i) == Among(types, a, i, "binary")
      op(i) == Highest(ops(i))
      upTo[i \in a..Len(types)] ==
        IF ops(i) = {} THEN UnarySends(a, i)
        ELSE upTo[op(i) - 1] \o <<Send("binary", op(i), ops(op(i) - 1) # {})>> \o UnarySends(op(i) + 1, i)
  IN upTo[b]

Sends(types, a, b) ==
  LET keywords == Among(types, a, b, "keyword")
      arguments == [i \in keywords |-> BinarySends(types, i + 1, Behind(keywords, i, b) - 1)]
  IN IF keywords = {} THEN BinarySends(types, a, b)
     ELSE FlattenSeq(InOrder(arguments, b)) \o BinarySends(types, a, Lowest(keywords) - 1)
          \o <<Send("keyword", Lowest(keywords), FALSE)>>
=============================================================================
