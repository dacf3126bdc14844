--------------------------- MODULE SmalltalkParser ---------------------------
(***************************************************************************)
(* 04-tokenizer.lisp and 05-parser.lisp: from the characters of a message  *)
(* expression to its tree.  A text is a sequence of characters; positions  *)
(* count from 0.  A name is kept as the position at which it starts.       *)
(***************************************************************************)
EXTENDS Naturals, SequencesExt

Digits == {"0", "1", "2", "3", "4", "5", "6", "7", "8", "9"}
Letters == {"a", "b", "c", "d", "e", "f", "g", "h", "i", "j", "k", "l", "m",
            "n", "o", "p", "q", "r", "s", "t", "u", "v", "w", "x", "y", "z",
            "A", "B", "C", "D", "E", "F", "G", "H", "I", "J", "K", "L", "M",
            "N", "O", "P", "Q", "R", "S", "T", "U", "V", "W", "X", "Y", "Z"}
Blanks == {" ", "\t", "\n", "\r"}
BinaryOps == {"+", "-", "*", "/", "<", ">", "="}

TokPeek(source, pos) == IF pos < Len(source) THEN source[pos + 1] ELSE "none"

\* The first position from pos on that has no character of the set.
Past(source, pos, set) ==
  CHOOSE q \in pos..Len(source) : /\ TokPeek(source, q) \notin set
                                  /\ \A r \in pos..q - 1 : TokPeek(source, r) \in set

Span(source, start, end) == SubSeq(source, start + 1, end)

DigitValue == [c \in Digits |-> CHOOSE d \in 0..9 : <<"0", "1", "2", "3", "4", "5", "6", "7", "8", "9">>[d + 1] = c]
NumberOf(digits) ==
  LET upTo[i \in 0..Len(digits)] == IF i = 0 THEN 0 ELSE upTo[i - 1] * 10 + DigitValue[digits[i]]
  IN upTo[Len(digits)]

Token(type, value, end) == [type |-> type, value |-> value, end |-> end]

\* Fault: a name ends at the first digit.
NamePastLetters(source, start) ==
  LET end == Past(source, start, Letters) IN
  IF TokPeek(source, end) = ":" THEN Token("keyword", start, end + 1)
  ELSE Token("identifier", start, end)

NameToken(source, start) ==
  LET end == Past(source, start, Letters \cup Digits) IN
  IF TokPeek(source, end) = ":" THEN Token("keyword", start, end + 1)
  ELSE Token("identifier", start, end)

\* A character that begins no token ends the text.
TokNextToken(source, pos) ==
  LET start == Past(source, pos, Blanks)
      end == Past(source, start, Digits)
      c == TokPeek(source, start)
  IN CASE c \in Digits -> Token("number", NumberOf(Span(source, start, end)), end)
       [] c \in Letters -> NameToken(source, start)
       [] c \in BinaryOps -> Token("binary", c, start + 1)
       [] OTHER -> Token("eof", 0, start)

Tokenize(source) ==
  LET from[pos \in 0..Len(source)] ==
        LET tok == TokNextToken(source, pos)
        IN IF tok.type = "eof" THEN <<tok>> ELSE <<tok>> \o from[tok.end]
  IN from[0]

-----------------------------------------------------------------------------
(***************************************************************************)
(* A parse is a tree, and the place of the next token.  A token that       *)
(* begins no operand aborts the program.  What follows the expression is   *)
(* not looked at.                                                          *)
(***************************************************************************)
Aborted == [node |-> <<"aborted">>, pos |-> 0]
Fails(parse) == parse = Aborted
Parse(node, pos) == [node |-> node, pos |-> pos]

\* The trees that are no higher than n
Trees(n) ==
  LET leaves == {"number", "identifier"} \X Nat
      higher(trees) == leaves \cup ({"unary"} \X Nat \X trees)
                       \cup ({"binary"} \X BinaryOps \X trees \X trees)
                       \cup ({"keyword"} \X Seq(Nat) \X trees \X Seq(trees))
      upTo[i \in 0..n] == IF i = 0 THEN leaves ELSE higher(upTo[i - 1])
  IN upTo[n]

ParsePrimary(tokens, pos) ==
  CASE tokens[pos].type = "number" -> Parse(<<"number", tokens[pos].value>>, pos + 1)
    [] tokens[pos].type = "identifier" -> Parse(<<"identifier", tokens[pos].value>>, pos + 1)
    [] OTHER -> Aborted

\* The loops of the parser.  A turn goes on by a token at least, so there are fewer turns
\* than tokens.  A loop that has ended stays as it is.
UnaryTurn(tokens, parse) ==
  IF Fails(parse) \/ tokens[parse.pos].type # "identifier" THEN parse
  ELSE Parse(<<"unary", tokens[parse.pos].value, parse.node>>, parse.pos + 1)

UnaryMessages(tokens, receiver) ==
  LET after[n \in 0..Len(tokens)] == IF n = 0 THEN receiver ELSE UnaryTurn(tokens, after[n - 1])
  IN after[Len(tokens)]

ParseUnaryMessage(tokens, pos) == UnaryMessages(tokens, ParsePrimary(tokens, pos))

BinaryTurn(tokens, parse) ==
  LET right == ParseUnaryMessage(tokens, parse.pos + 1) IN
  IF Fails(parse) \/ tokens[parse.pos].type # "binary" THEN parse
  ELSE IF Fails(right) THEN Aborted
  ELSE Parse(<<"binary", tokens[parse.pos].value, parse.node, right.node>>, right.pos)

BinaryMessages(tokens, left) ==
  LET after[n \in 0..Len(tokens)] == IF n = 0 THEN left ELSE BinaryTurn(tokens, after[n - 1])
  IN after[Len(tokens)]

ParseBinaryMessage(tokens, pos) == BinaryMessages(tokens, ParseUnaryMessage(tokens, pos))

\* The keywords and arguments so far; an argument has no keywords of its own.
Parts(pos, keywords, arguments) == [pos |-> pos, keywords |-> keywords, arguments |-> arguments]

KeywordTurn(tokens, parts) ==
  LET argument == ParseBinaryMessage(tokens, parts.pos + 1) IN
  IF Fails(parts) \/ tokens[parts.pos].type # "keyword" THEN parts
  ELSE IF Fails(argument) THEN Aborted
  ELSE Parts(argument.pos, Append(parts.keywords, tokens[parts.pos].value),
             Append(parts.arguments, argument.node))

KeywordParts(tokens, pos) ==
  LET after[n \in 0..Len(tokens)] ==
        IF n = 0 THEN Parts(pos, <<>>, <<>>) ELSE KeywordTurn(tokens, after[n - 1])
  IN after[Len(tokens)]

ParseKeywordMessage(tokens, pos) ==
  LET receiver == ParseBinaryMessage(tokens, pos)
      parts == KeywordParts(tokens, receiver.pos)
  IN IF Fails(receiver) \/ tokens[receiver.pos].type # "keyword" THEN receiver
     ELSE IF Fails(parts) THEN Aborted
     ELSE Parse(<<"keyword", parts.keywords, receiver.node, parts.arguments>>, parts.pos)

ParseSource(source) == ParseKeywordMessage(Tokenize(source), 1).node
=============================================================================
