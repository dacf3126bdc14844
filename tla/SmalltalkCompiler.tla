-------------------------- MODULE SmalltalkCompiler ---------------------------
(***************************************************************************)
(* 06-compiler.lisp: the compilation of a Smalltalk text, whose selectors  *)
(* are interned one by one in the image.  The variables that define-var    *)
(* makes in compile-st-expr are words of the globals, the same ones for    *)
(* every call of it, so a send inside another leaves its selector in them. *)
(***************************************************************************)
EXTENDS SelectorTable, SmalltalkMessages

CONSTANTS Texts,             \* the texts that are compiled
          lookupMethodAddr   \* where lookup-method is, as whoever loads the compiler tells it

VARIABLE compilation   \* what is being compiled, or NoCompilation

NoCompilation == [op |-> "none"]
Compiling == compilation # NoCompilation

Rest(source, pos) == SubSeq(source, pos + 1, Len(source))

\* Fault: a name is taken from its second character on.
TextBehindFirst(source, pos) == Rest(source, pos + 1)

\* intern-identifier-at-pos: the search for the end of a name goes to the end of the
\* text at the first character that is not of the name.
SelectorText(source, pos) ==
  IF source[pos + 1] \in BinaryOps THEN <<source[pos + 1]>> ELSE Rest(source, pos)

\* build-keyword-selector, with the same search for each keyword
KeywordText(source, keywords) == FoldLeft(LAMBDA s, pos : s \o Rest(source, pos), <<>>, keywords)

-----------------------------------------------------------------------------
(***************************************************************************)
(* What compile-st-expr does for a tree, in order: it interns the text of  *)
(* a selector, and emits instructions, one of which pushes that selector.  *)
(***************************************************************************)
Intern(kind, text) == <<[do |-> "intern", kind |-> kind, text |-> text]>>
Emit(instruction) == <<[do |-> "emit", instruction |-> instruction]>>
Push(kind, word) == Emit(<<"PUSH", kind, word>>)

Funcall(arguments) == Push("count", arguments) \o Emit(<<"FUNCALL">>)

\* A call of lookup-method for the receiver, which stays.
Lookup(kind) ==
  Emit(<<"DUP">>) \o <<[do |-> "push-selector", kind |-> kind]>>
  \o Push("address", lookupMethodAddr) \o Funcall(2)

CompileNode(source, node, compiled) ==
  CASE node[1] = "number" -> Push("literal", node[2])
    [] node[1] = "identifier" -> Push("literal", 0)
    [] node[1] = "unary" ->
         Intern("unary", SelectorText(source, node[2])) \o compiled[node[3]]
         \o Lookup("unary") \o Funcall(1)
    [] node[1] = "keyword" ->
         Intern("keyword", KeywordText(source, node[2]))
         \o FlattenSeq([k \in DOMAIN node[4] |-> compiled[node[4][k]]]) \o compiled[node[3]]
         \o Lookup("keyword") \o Funcall(Len(node[4]) + 1)
    [] node[1] = "binary" ->
         Intern("binary", <<node[2]>>) \o compiled[node[3]]
         \o Lookup("binary") \o compiled[node[4]] \o Emit(<<"SWAP">>) \o Funcall(2)

\* A tree has fewer levels than its text characters.
CompileStExpr(source, ast) ==
  LET upTo[n \in 0..Len(source)] == [node \in Trees(n) |-> CompileNode(source, node, upTo[n - 1])]
  IN upTo[Len(source)][ast]

Todo(source, ast, last) ==
  IF ast = Aborted.node THEN <<>> ELSE CompileStExpr(source, ast) \o Emit(last)

\* compile-smalltalk ends the code by HALT, compile-method by RET.
Compilation(text, last) ==
  LET source == Spelled(text)
      ast == ParseSource(source)
  IN [op |-> "compile", text |-> text, ast |-> ast,
      todo |-> Todo(source, ast, last),
      selectors |-> [kind \in {"unary", "binary", "keyword"} |-> NULL],
      code |-> <<>>]

\* The strings of selectors that a text makes the compiler intern
SelectorStrings(text) ==
  LET todo == Compilation(text, <<"HALT">>).todo
  IN {StringOf(todo[i].text, 0) : i \in {j \in DOMAIN todo : todo[j].do = "intern"}}

ASSUME TextsAssumption == \A text \in Texts : WellWritten(text) /\ SelectorStrings(text) \subseteq Strings

CompileSmalltalk(text, last) ==
  /\ Idle /\ ~Compiling
  /\ calls < MaxCalls /\ calls' = calls + 1
  /\ compilation' = Compilation(text, last)
  /\ UNCHANGED <<memory, call, stops, interned>>

Doing == compilation.todo[1]

\* A selector is the one that was interned last for a message of that kind.
Emitted(item) ==
  IF item.do = "emit" THEN item.instruction
  ELSE <<"PUSH", "selector", compilation.selectors[item.kind]>>

\* The instructions up to the next selector
EmitCode ==
  /\ Compiling /\ Idle /\ compilation.todo # <<>> /\ Doing.do # "intern"
  /\ LET interns == {i \in DOMAIN compilation.todo : compilation.todo[i].do = "intern"}
         n == Lowest(interns \cup {Len(compilation.todo) + 1}) - 1
     IN compilation' =
          [compilation EXCEPT !.todo = SubSeq(@, n + 1, Len(@)),
                              !.code = @ \o [i \in 1..n |-> Emitted(compilation.todo[i])]]
  /\ UNCHANGED <<imageVars, interned>>

\* The text of a selector is a new string, in words that nobody has written to.
CompileInterns ==
  /\ Compiling /\ compilation.todo # <<>> /\ Doing.do = "intern"
  /\ Interning(StringOf(Doing.text, 0))
  /\ UNCHANGED <<calls, compilation>>

CompileInterned ==
  /\ Compiling /\ Interned
  /\ compilation' = [compilation EXCEPT !.selectors[Doing.kind] = call.answer, !.todo = Tail(@)]

\* The address of the code is returned; or the program was aborted.
Compiled ==
  /\ Compiling /\ Idle /\ compilation.todo = <<>>
  /\ compilation' = NoCompilation /\ UNCHANGED <<imageVars, interned>>

\* The instruction limit, between two steps or in the middle of an interning
StopCompilation ==
  /\ Compiling /\ stops < MaxStops /\ stops' = stops + 1
  /\ compilation' = NoCompilation /\ call' = NoCall
  /\ UNCHANGED <<memory, calls, interned>>

-----------------------------------------------------------------------------
\* "unary selectors", "binary operators", "keyword messages" and "highest precedence"
\* (05-parser.lisp:73, 90, 109, 56): what is compiled is the longest message that the
\* words begin with, unary messages before binary ones and those before keywords, from
\* left to right, however the words are spaced; or nothing, when an operand is missing.
ReadsMessages ==
  Compiling =>
    LET text == compilation.text
        types == Types(text.words)
    IN compilation.ast =
         IF Refused(types) THEN Aborted.node ELSE MessageOf(text, 1, ReadTo(types))

EndsText(text, i) == i = Len(text.words) /\ text.gaps[i] = 0

\* Named exceptions: the selector of a keyword message, or of a unary one that does not
\* end the text, is taken with the rest of the text; and a message whose receiver is a
\* message of its kind gets the selector of that.
Overrun(text, send) == send.kind = "keyword" \/ (send.kind = "unary" /\ ~EndsText(text, send.at))

\* The selectors that code pushes, in the order of the code
PushesSelector(instruction) == Len(instruction) = 3 /\ instruction[2] = "selector"
PushedSelectors(code) ==
  InOrder([i \in {j \in DOMAIN code : PushesSelector(code[j])} |-> code[i][3]], Len(code))

\* "Extract identifier string from source at position and intern it"
\* (06-compiler.lisp:62): the code sends one message for each of the text, with the
\* selector that is written there, whatever was interned before, or left half-way; but
\* for the named exceptions.
SendsAsWritten ==
  Compiling /\ compilation.todo = <<>> /\ compilation.ast # Aborted.node =>
    LET text == compilation.text
        types == Types(text.words)
        sends == Sends(types, 1, ReadTo(types))
        pushed == PushedSelectors(compilation.code)
    IN /\ Len(pushed) = Len(sends)
       /\ \A k \in DOMAIN sends :
            ~Overrun(text, sends[k]) /\ ~sends[k].onSame =>
              SymbolName(pushed[k]).chars = text.words[sends[k].at]
=============================================================================
