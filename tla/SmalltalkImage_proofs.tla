------------------------ MODULE SmalltalkImage_proofs ------------------------
(***************************************************************************)
(* Proofs about the Smalltalk runtime together with its compiler.          *)
(***************************************************************************)
EXTENDS SmalltalkImage, SmalltalkRuntime_proofs, SmalltalkMessages_proofs

-----------------------------------------------------------------------------
(***************************************************************************)
(* What is compiled                                                        *)
(***************************************************************************)
Record(op, text, ast, todo, selectors, code) ==
  [op |-> op, text |-> text, ast |-> ast, todo |-> todo, selectors |-> selectors, code |-> code]

\* The tree is the one that the parser makes of the text.
Parsed(c) ==
  \E op, text, todo, selectors, code :
    text \in Texts /\ c = Record(op, text, ParseSource(Spelled(text)), todo, selectors, code)

ParsedInv == Compiling => Parsed(compilation)

LEMMA CompilationParsed == ASSUME NEW text \in Texts, NEW last PROVE Parsed(Compilation(text, last))
BY Zenon DEF Compilation, Parsed, Record

LEMMA StillParsed ==
  ASSUME NEW c, Parsed(c), NEW d, NEW todo, NEW selectors, NEW code,
         \/ d = [c EXCEPT !.todo = todo, !.code = code]
         \/ \E kind : d = [c EXCEPT !.selectors[kind] = selectors, !.todo = todo]
  PROVE  Parsed(d) /\ d.todo = todo
<1>1. PICK op, text, todo0, selectors0, code0 :
        text \in Texts /\ c = Record(op, text, ParseSource(Spelled(text)), todo0, selectors0, code0)
  BY Zenon DEF Parsed
<1> DEFINE ast == ParseSource(Spelled(text))
<1> HIDE DEF ast
<1>2. c = [op |-> op, text |-> text, ast |-> ast, todo |-> todo0, selectors |-> selectors0, code |-> code0]
  BY <1>1 DEF Record, ast
<1>3. CASE d = [c EXCEPT !.todo = todo, !.code = code]
  <2>1. d = Record(op, text, ast, todo, selectors0, code) /\ d.todo = todo
    BY <1>2, <1>3 DEF Record
  <2> QED BY <1>1, <2>1, Zenon DEF Parsed, ast
<1>4. ASSUME NEW kind, d = [c EXCEPT !.selectors[kind] = selectors, !.todo = todo] PROVE Parsed(d) /\ d.todo = todo
  <2>1. d = Record(op, text, ast, todo, [selectors0 EXCEPT ![kind] = selectors], code0) /\ d.todo = todo
    BY <1>2, <1>4 DEF Record
  <2> QED BY <1>1, <2>1, Zenon DEF Parsed, ast
<1> QED BY <1>3, <1>4

LEMMA ParsedNext == ASSUME ParsedInv, [Next]_vars PROVE ParsedInv'
<1>1. CASE UNCHANGED compilation
  BY <1>1 DEF ParsedInv, Compiling
<1>2. ASSUME NEW text \in Texts, NEW last, CompileSmalltalk(text, last) PROVE ParsedInv'
  BY <1>2, CompilationParsed DEF CompileSmalltalk, ParsedInv
<1>3. CASE EmitCode
  <2>1. \E todo, code : compilation' = [compilation EXCEPT !.todo = todo, !.code = code]
    BY <1>3, Zenon DEF EmitCode
  <2> QED BY <1>3, <2>1, StillParsed DEF EmitCode, ParsedInv
<1>4. CASE CompileInterned
  <2>1. \E kind, todo, answer : compilation' = [compilation EXCEPT !.selectors[kind] = answer, !.todo = todo]
    BY <1>4, Zenon DEF CompileInterned
  <2> QED BY <1>4, <2>1, StillParsed DEF CompileInterned, ParsedInv
<1>5. CASE Compiled \/ StopCompilation
  BY <1>5 DEF Compiled, StopCompilation, ParsedInv, Compiling
<1> QED BY <1>1, <1>2, <1>3, <1>4, <1>5 DEF Next, vars, CompilerStep, CompileInterns

\* What is compiled is the longest message that the text begins with, unary messages
\* before binary ones and those before keywords, from left to right; or nothing, when an
\* operand is missing: whatever words the text has, however they are spaced, and whatever
\* the image does meanwhile.
THEOREM CompilesTheLongestMessage == Spec => []ReadsMessages
<1>1. Init => ParsedInv
  BY DEF Init, ParsedInv, Compiling
<1>2. ParsedInv /\ [Next]_vars => ParsedInv'
  BY ParsedNext
<1>3. ParsedInv => ReadsMessages
  <2>1. SUFFICES ASSUME Compiling, Parsed(compilation) PROVE ReadsMessages
    BY DEF ParsedInv, ReadsMessages
  <2>2. PICK op, text, todo, selectors, code :
          text \in Texts /\ compilation = Record(op, text, ParseSource(Spelled(text)), todo, selectors, code)
    BY <2>1, Zenon DEF Parsed
  <2>3. WellWritten(text)
    BY <2>2, TextsAssumption
  <2>4. compilation.text = text /\ compilation.ast = ParseSource(Spelled(text))
    <3> DEFINE ast == ParseSource(Spelled(text))
    <3> HIDE DEF ast
    <3>1. compilation = Record(op, text, ast, todo, selectors, code)
      BY <2>2 DEF ast
    <3>2. compilation.text = text /\ compilation.ast = ast
      BY <3>1 DEF Record
    <3> QED BY <3>2 DEF ast
  <2> QED BY <2>3, <2>4, ParsesMessages, Zenon DEF ReadsMessages
<1> QED BY <1>1, <1>2, <1>3, PTL DEF Spec

-----------------------------------------------------------------------------
(***************************************************************************)
(* What is to be done for a tree is a sequence.                            *)
(***************************************************************************)
IsSeq(s) == \E S : s \in Seq(S)

LEMMA OneItem == ASSUME NEW x PROVE IsSeq(<<x>>)
<1>1. <<x>> \in Seq({x})
  OBVIOUS
<1> QED BY <1>1, Zenon DEF IsSeq

LEMMA BothItems == ASSUME NEW s, NEW t, IsSeq(s), IsSeq(t) PROVE IsSeq(s \o t)
<1>1. PICK S : s \in Seq(S)
  BY Zenon DEF IsSeq
<1>2. PICK T : t \in Seq(T)
  BY Zenon DEF IsSeq
<1>3. s \in Seq(S \cup T) /\ t \in Seq(S \cup T)
  BY <1>1, <1>2, SeqMonotonic
<1>4. s \o t \in Seq(S \cup T)
  BY <1>3, ConcatProperties
<1> QED BY <1>4, Zenon DEF IsSeq

LEMMA LengthIs == ASSUME NEW s, IsSeq(s) PROVE Len(s) \in Nat /\ DOMAIN s = 1..Len(s)
<1>1. PICK S : s \in Seq(S)
  BY Zenon DEF IsSeq
<1> QED BY <1>1, LenProperties

LEMMA JoinedItems ==
  ASSUME NEW s, NEW t, IsSeq(s), IsSeq(t)
  PROVE  /\ IsSeq(s \o t) /\ Len(s) \in Nat /\ Len(t) \in Nat /\ Len(s \o t) = Len(s) + Len(t)
         /\ \A i \in 1..Len(s) : (s \o t)[i] = s[i]
         /\ \A i \in 1..Len(t) : (s \o t)[Len(s) + i] = t[i]
<1>1. PICK S : s \in Seq(S)
  BY Zenon DEF IsSeq
<1>2. PICK T : t \in Seq(T)
  BY Zenon DEF IsSeq
<1>3. s \in Seq(S \cup T) /\ t \in Seq(S \cup T)
  BY <1>1, <1>2, SeqMonotonic
<1> DEFINE n == Len(s)  m == Len(t)  u == s \o t
<1>4. n \in Nat /\ m \in Nat
  BY <1>3, LenProperties
<1>5. Len(u) = n + m /\ \A i \in 1..n + m : u[i] = IF i <= n THEN s[i] ELSE t[i - n]
  BY <1>3, ConcatProperties
<1> HIDE DEF n, m, u
<1>6. \A i \in 1..n : u[i] = s[i]
  BY <1>4, <1>5
<1>7. \A i \in 1..m : u[n + i] = t[i]
  <2>1. TAKE i \in 1..m
  <2> DEFINE p == n + i
  <2>2. p \in 1..n + m /\ ~(p <= n) /\ p - n = i
    BY <1>4
  <2> HIDE DEF p
  <2>3. u[p] = t[i]
    BY <1>5, <2>2
  <2> QED BY <2>3 DEF p
<1>8. IsSeq(u)
  BY BothItems DEF u
<1> QED BY <1>4, <1>5, <1>6, <1>7, <1>8, Zenon DEF n, m, u

FlatBy(s, n, f) == f[1] = s[1] /\ (\A i \in 2..n : f[i] = f[i - 1] \o s[i]) /\ FlattenSeq(s) = f[n]

LEMMA FlatIs == ASSUME NEW N \in Nat \ {0}, NEW s, Len(s) = N PROVE \E f : FlatBy(s, N, f)
<1> DEFINE then(i, x) == x \o s[i]
           Is(n, f) == f = [i \in 1..n |-> IF i = 1 THEN s[i] ELSE then(i, f[i - 1])]
           good == {n \in 1..N : \E f : Is(n, f)}
<1>1. FlattenSeq(s) = (CHOOSE f : Is(N, f))[N]
  <2>1. FlattenSeq(s) = (CHOOSE f : Is(Len(s), f))[Len(s)]
    BY DEF FlattenSeq
  <2> HIDE DEF Is
  <2> QED BY <2>1
<1> HIDE DEF then
<1>2. 1 \in good
  <2> DEFINE g == [i \in 1..1 |-> s[i]]
  <2>1. Is(1, g)
    OBVIOUS
  <2> HIDE DEF g, Is
  <2> QED BY <2>1
<1>3. ASSUME NEW n \in 1 + 1..N, n - 1 \in good PROVE n \in good
  <2>1. PICK f : Is(n - 1, f)
    BY <1>3
  <2> DEFINE g == [i \in 1..n |-> IF i = n THEN then(n, f[n - 1]) ELSE f[i]]
  <2>2. Is(n, g)
    <3>1. \A i \in 1..n : i = n \/ (i \in 1..n - 1 /\ i # n /\ i - 1 # n)
      OBVIOUS
    <3>2. n \in 1..n /\ n # 1 /\ n - 1 \in 1..n - 1 /\ n - 1 \in 1..n /\ n - 1 # n
      OBVIOUS
    <3>3. \A i \in 1..n - 1 : i # 1 => i - 1 \in 1..n
      OBVIOUS
    <3>4. \A i \in 1..n : g[i] = IF i = 1 THEN s[i] ELSE then(i, g[i - 1])
      BY <2>1, <3>1, <3>2, <3>3
    <3>5. g = [i \in 1..n |-> g[i]]
      OBVIOUS
    <3> HIDE DEF g
    <3> QED BY <3>4, <3>5
  <2>3. n \in 1..N
    OBVIOUS
  <2> HIDE DEF g, Is
  <2> QED BY <2>2, <2>3
<1>4. N \in good
  <2> HIDE DEF good
  <2>1. \A n \in 1..N : n \in good
    BY <1>2, <1>3, Stepwise
  <2> QED BY <2>1
<1> DEFINE f == CHOOSE h : Is(N, h)
<1>5. Is(N, f)
  BY <1>4
<1>6. FlattenSeq(s) = f[N]
  BY <1>1
<1> HIDE DEF f
<1>7. f[1] = s[1] /\ \A i \in 2..N : f[i] = then(i, f[i - 1])
  BY <1>5
<1> QED BY <1>6, <1>7, Zenon DEF FlatBy, then

LEMMA FlatItems ==
  ASSUME NEW N \in Nat, NEW s, Len(s) = N, s = [k \in 1..N |-> s[k]], \A k \in 1..N : IsSeq(s[k])
  PROVE  IsSeq(FlattenSeq(s))
<1>1. CASE N = 0
  <2>1. FlattenSeq(s) = s
    BY <1>1 DEF FlattenSeq
  <2>2. s = <<>>
    BY <1>1
  <2>3. s \in Seq({})
    BY <2>2
  <2> QED BY <2>1, <2>3, Zenon DEF IsSeq
<1>2. CASE N # 0
  <2>1. PICK f : FlatBy(s, N, f)
    BY <1>2, FlatIs
  <2>2. f[1] = s[1] /\ FlattenSeq(s) = f[N] /\ \A i \in 2..N : f[i] = f[i - 1] \o s[i]
    BY <2>1 DEF FlatBy
  <2> DEFINE seqs == {n \in 1..N : IsSeq(f[n])}
  <2>3. 1 \in seqs
    BY <1>2, <2>2
  <2>4. ASSUME NEW n \in 1 + 1..N, n - 1 \in seqs PROVE n \in seqs
    <3>1. n \in 2..N /\ n \in 1..N
      OBVIOUS
    <3>2. IsSeq(f[n - 1] \o s[n])
      BY <2>4, <3>1, BothItems
    <3> QED BY <2>2, <3>1, <3>2
  <2>5. \A n \in 1..N : n \in seqs
    <3> HIDE DEF seqs
    <3> QED BY <2>3, <2>4, Stepwise
  <2> QED BY <1>2, <2>2, <2>5
<1> QED BY <1>1, <1>2

LEMMA PartsAreItems ==
  /\ \A kind, text : IsSeq(Intern(kind, text))
  /\ \A instruction : IsSeq(Emit(instruction))
  /\ \A kind, word : IsSeq(Push(kind, word))
  /\ \A n : IsSeq(Funcall(n))
  /\ \A kind : IsSeq(Lookup(kind))
<1>1. \A kind, text : IsSeq(Intern(kind, text))
  BY OneItem DEF Intern
<1>2. \A instruction : IsSeq(Emit(instruction))
  BY OneItem DEF Emit
<1>3. \A kind, word : IsSeq(Push(kind, word))
  BY <1>2, Zenon DEF Push
<1>4. \A n : IsSeq(Funcall(n))
  BY <1>2, <1>3, BothItems DEF Funcall
<1>5. ASSUME NEW kind PROVE IsSeq(Lookup(kind))
  <2> DEFINE a == Emit(<<"DUP">>)  b == <<[do |-> "push-selector", kind |-> kind]>>
             c == Push("address", lookupMethodAddr)  d == Funcall(2)
  <2>1. IsSeq(a) /\ IsSeq(b) /\ IsSeq(c) /\ IsSeq(d)
    BY <1>2, <1>3, <1>4, OneItem, Zenon
  <2>2. Lookup(kind) = a \o b \o c \o d
    BY Zenon DEF Lookup
  <2> HIDE DEF a, b, c, d
  <2>3. IsSeq(a \o b)
    BY <2>1, BothItems
  <2>4. IsSeq(a \o b \o c)
    BY <2>1, <2>3, BothItems
  <2>5. IsSeq(a \o b \o c \o d)
    BY <2>1, <2>4, BothItems
  <2> QED BY <2>2, <2>5
<1> QED BY <1>1, <1>2, <1>3, <1>4, <1>5

LEMMA LeafItems ==
  ASSUME NEW source, NEW node \in Leaves, NEW x, NEW y
  PROVE  CompileNode(source, node, x) = CompileNode(source, node, y) /\ IsSeq(CompileNode(source, node, x))
<1>1. node[1] = "number" \/ node[1] = "identifier"
  BY DEF Leaves
<1>2. CASE node[1] = "number"
  <2>1. \A z : CompileNode(source, node, z) = Push("literal", node[2])
    BY <1>2 DEF CompileNode
  <2> QED BY <2>1, PartsAreItems
<1>3. CASE node[1] = "identifier"
  <2>1. \A z : CompileNode(source, node, z) = Push("literal", 0)
    BY <1>3 DEF CompileNode
  <2> QED BY <2>1, PartsAreItems
<1> QED BY <1>1, <1>2, <1>3

LEMMA NodeItems ==
  ASSUME NEW source, NEW trees, NEW compiled, \A node \in trees : IsSeq(compiled[node]), NEW node \in Higher(trees)
  PROVE  IsSeq(CompileNode(source, node, compiled))
<1>1. CASE node \in Leaves
  BY <1>1, LeafItems
<1>2. CASE node \in {"unary"} \X Nat \X trees
  <2> DEFINE a == Intern("unary", SelectorText(source, node[2]))  b == compiled[node[3]]  c == Lookup("unary")  d == Funcall(1)
  <2>1. node[1] = "unary" /\ node[3] \in trees
    BY <1>2
  <2>2. CompileNode(source, node, compiled) = a \o b \o c \o d
    BY <2>1 DEF CompileNode
  <2>3. IsSeq(a) /\ IsSeq(b) /\ IsSeq(c) /\ IsSeq(d)
    BY <2>1, PartsAreItems, Zenon
  <2> HIDE DEF a, b, c, d
  <2> QED BY <2>2, <2>3, BothItems
<1>3. CASE node \in {"binary"} \X BinaryOps \X trees \X trees
  <2> DEFINE a == Intern("binary", <<node[2]>>)  b == compiled[node[3]]  c == Lookup("binary")
             d == compiled[node[4]]  e == Emit(<<"SWAP">>)  f == Funcall(2)
  <2>1. node[1] = "binary" /\ node[3] \in trees /\ node[4] \in trees
    BY <1>3
  <2>2. CompileNode(source, node, compiled) = a \o b \o c \o d \o e \o f
    BY <2>1 DEF CompileNode
  <2>3. IsSeq(a) /\ IsSeq(b) /\ IsSeq(c) /\ IsSeq(d) /\ IsSeq(e) /\ IsSeq(f)
    BY <2>1, PartsAreItems, Zenon
  <2> HIDE DEF a, b, c, d, e, f
  <2> QED BY <2>2, <2>3, BothItems
<1>4. CASE node \in {"keyword"} \X Seq(Nat) \X trees \X Seq(trees)
  <2> DEFINE n == Len(node[4])  s == [k \in DOMAIN node[4] |-> compiled[node[4][k]]]
             a == Intern("keyword", KeywordText(source, node[2]))  b == FlattenSeq(s)  c == compiled[node[3]]
             d == Lookup("keyword")  e == Funcall(Len(node[4]) + 1)
  <2>1. node[1] = "keyword" /\ node[3] \in trees /\ node[4] \in Seq(trees)
    <3> DEFINE N == Seq(Nat)  S == Seq(trees)
    <3>1. node \in {"keyword"} \X N \X trees \X S
      BY <1>4
    <3> HIDE DEF N, S
    <3>2. node[1] = "keyword" /\ node[3] \in trees /\ node[4] \in S
      BY <3>1
    <3> QED BY <3>2 DEF S
  <2>2. n \in Nat /\ DOMAIN node[4] = 1..n /\ \A k \in 1..n : node[4][k] \in trees
    BY <2>1, LenProperties, ElementOfSeq
  <2>3. CompileNode(source, node, compiled) = a \o b \o c \o d \o e
    BY <2>1 DEF CompileNode
  <2>4. IsSeq(b)
    <3>1. s = [k \in 1..n |-> s[k]] /\ \A k \in 1..n : IsSeq(s[k])
      BY <2>2
    <3>2. Len(s) = n
      <4> DEFINE v(k) == s[k]
      <4>1. s = [k \in 1..n |-> v(k)]
        BY <3>1
      <4> HIDE DEF n, v
      <4> QED BY <2>2, <4>1
    <3> HIDE DEF s, n
    <3> QED BY <2>2, <3>1, <3>2, FlatItems
  <2>5. IsSeq(a) /\ IsSeq(c) /\ IsSeq(d) /\ IsSeq(e)
    BY <2>1, PartsAreItems, Zenon
  <2> HIDE DEF a, b, c, d, e
  <2> QED BY <2>3, <2>4, <2>5, BothItems
<1> QED BY <1>1, <1>2, <1>3, <1>4 DEF Higher

CompiledBy(source, N, f) ==
  /\ \A n \in 0..N : f[n] = [node \in Trees(n) |-> CompileNode(source, node, f[n - 1])]
  /\ \A ast : CompileStExpr(source, ast) = f[N][ast]

LEMMA CompileIs == ASSUME NEW source, NEW N \in Nat, Len(source) = N PROVE \E f : CompiledBy(source, N, f)
<1> DEFINE then(n, x) == [node \in Trees(n) |-> CompileNode(source, node, x)]
           Is(n, f) == f = [i \in 0..n |-> then(i, f[i - 1])]
           good == {n \in 0..N : \E f : Is(n, f)}
<1>1. \A ast : CompileStExpr(source, ast) = (CHOOSE f : Is(N, f))[N][ast]
  <2>1. \A ast : CompileStExpr(source, ast) = (CHOOSE f : Is(Len(source), f))[Len(source)][ast]
    BY DEF CompileStExpr
  <2> HIDE DEF Is
  <2> QED BY <2>1
<1>2. \A x, y : then(0, x) = then(0, y)
  <2>1. Trees(0) = Leaves
    BY TreesGrow
  <2>2. \A x, y : \A node \in Trees(0) : CompileNode(source, node, x) = CompileNode(source, node, y)
    BY <2>1, LeafItems
  <2> QED BY <2>2
<1> HIDE DEF then
<1>3. 0 \in good
  <2> DEFINE g == [i \in 0..0 |-> then(0, 0)]
  <2>1. \A i \in 0..0 : i = 0
    OBVIOUS
  <2>2. g = [i \in 0..0 |-> g[i]] /\ g[0] = then(0, 0)
    OBVIOUS
  <2>3. g[0] = then(0, g[0 - 1])
    BY <1>2, <2>2, Zenon
  <2> HIDE DEF g
  <2>4. \A i \in 0..0 : g[i] = then(i, g[i - 1])
    BY <2>1, <2>3
  <2>5. Is(0, g)
    BY <2>2, <2>4
  <2> HIDE DEF Is
  <2> QED BY <2>5
<1>4. ASSUME NEW n \in 0 + 1..N, n - 1 \in good PROVE n \in good
  <2>1. PICK f : Is(n - 1, f)
    BY <1>4
  <2> DEFINE g == [i \in 0..n |-> IF i = n THEN then(n, f[n - 1]) ELSE f[i]]
  <2>2. n \in 0..N /\ n # 0 /\ n \in 0..n /\ n - 1 \in 0..n - 1
    OBVIOUS
  <2>3. \A i \in 0..n - 1 : g[i] = f[i] /\ f[i] = then(i, f[i - 1])
    BY <2>1
  <2>4. g = [i \in 0..n |-> g[i]] /\ g[n] = then(n, f[n - 1])
    OBVIOUS
  <2> HIDE DEF g
  <2>5. ASSUME NEW i \in 0..n PROVE g[i] = then(i, g[i - 1])
    <3>1. CASE i = n
      BY <2>2, <2>3, <2>4, <3>1
    <3>2. CASE i = 0
      <4>1. g[0] = then(0, f[0 - 1])
        BY <2>2, <2>3
      <4>2. g[0] = then(0, g[0 - 1])
        BY <1>2, <4>1, Zenon
      <4> QED BY <3>2, <4>2
    <3>3. CASE i # n /\ i # 0
      <4>1. i \in 0..n - 1 /\ i - 1 \in 0..n - 1
        BY <3>3
      <4> QED BY <2>3, <4>1
    <3> QED BY <3>1, <3>2, <3>3
  <2>6. Is(n, g)
    BY <2>4, <2>5
  <2> HIDE DEF Is
  <2> QED BY <2>2, <2>6
<1>5. N \in good
  <2> HIDE DEF good
  <2>1. \A n \in 0..N : n \in good
    BY <1>3, <1>4, Stepwise
  <2> QED BY <2>1
<1> DEFINE f == CHOOSE h : Is(N, h)
<1>6. Is(N, f)
  BY <1>5
<1>7. \A ast : CompileStExpr(source, ast) = f[N][ast]
  BY <1>1
<1> HIDE DEF f
<1>8. \A n \in 0..N : f[n] = then(n, f[n - 1])
  BY <1>6
<1> QED BY <1>7, <1>8, Zenon DEF then, CompiledBy

Steps(source, N, f) == \A n \in 0..N : \A node \in Trees(n) : f[n][node] = CompileNode(source, node, f[n - 1])

LEMMA CompiledSteps == ASSUME NEW source, NEW N \in Nat, NEW f, CompiledBy(source, N, f) PROVE Steps(source, N, f)
<1>1. ASSUME NEW n \in 0..N, NEW node \in Trees(n) PROVE f[n][node] = CompileNode(source, node, f[n - 1])
  <2> DEFINE then(x) == CompileNode(source, x, f[n - 1])
  <2>1. f[n] = [x \in Trees(n) |-> then(x)]
    BY DEF CompiledBy
  <2> HIDE DEF then
  <2>2. f[n][node] = then(node)
    BY <2>1
  <2> QED BY <2>2 DEF then
<1> QED BY <1>1 DEF Steps

LEMMA CompiledItems ==
  ASSUME NEW source, NEW N \in Nat, Len(source) = N, NEW ast \in Trees(N)
  PROVE  IsSeq(CompileStExpr(source, ast))
<1>1. PICK f : CompiledBy(source, N, f)
  BY CompileIs, Zenon
<1>2. \A n \in 0..N : \A node \in Trees(n) : f[n][node] = CompileNode(source, node, f[n - 1])
  BY <1>1, CompiledSteps DEF Steps
<1>3. \A a : CompileStExpr(source, a) = f[N][a]
  BY <1>1 DEF CompiledBy
<1> DEFINE good == {n \in 0..N : \A node \in Trees(n) : IsSeq(f[n][node])}
<1>4. 0 \in good
  <2>1. Trees(0) = Leaves /\ 0 \in 0..N
    BY TreesGrow
  <2>2. \A node \in Trees(0) : IsSeq(CompileNode(source, node, f[0 - 1]))
    BY <2>1, LeafItems
  <2>3. \A node \in Trees(0) : f[0][node] = CompileNode(source, node, f[0 - 1])
    BY <1>2, <2>1
  <2> QED BY <2>1, <2>2, <2>3
<1>5. ASSUME NEW n \in 0 + 1..N, n - 1 \in good PROVE n \in good
  <2> DEFINE k == n - 1
  <2>1. k \in Nat /\ k + 1 = n /\ n \in 0..N
    OBVIOUS
  <2>2. \A node \in Trees(k) : IsSeq(f[k][node])
    BY <1>5
  <2>3. \A node \in Trees(n) : f[n][node] = CompileNode(source, node, f[k])
    BY <1>2, <2>1
  <2>4. n \in good <=> \A node \in Trees(n) : IsSeq(f[n][node])
    BY <2>1
  <2> HIDE DEF k, good
  <2>5. Trees(n) = Higher(Trees(k))
    BY <2>1, TreesGrow
  <2>6. \A node \in Higher(Trees(k)) : IsSeq(CompileNode(source, node, f[k]))
    BY <2>2, NodeItems
  <2> QED BY <2>3, <2>4, <2>5, <2>6
<1>6. \A n \in 0..N : n \in good
  <2> HIDE DEF good
  <2> QED BY <1>4, <1>5, Stepwise
<1> QED BY <1>3, <1>6

\* Every string that is to be interned is one of the strings of selectors.
TodoSound(todo) ==
  IsSeq(todo) /\ \A i \in 1..Len(todo) : todo[i].do = "intern" => StringOf(todo[i].text, 0) \in Strings

LEMMA TodoBegins ==
  ASSUME NEW text \in Texts, NEW last
  PROVE  TodoSound(Compilation(text, last).todo)
<1> DEFINE source == Spelled(text)  ast == ParseSource(source)  todo == Compilation(text, last).todo
           halt == Compilation(text, <<"HALT">>).todo  code == CompileStExpr(source, ast)
<1>1. WellWritten(text) /\ SelectorStrings(text) \subseteq Strings
  BY TextsAssumption
<1>2. todo = Todo(source, ast, last) /\ halt = Todo(source, ast, <<"HALT">>)
  <2>1. \A l : Compilation(text, l).todo = Todo(Spelled(text), ParseSource(Spelled(text)), l)
    BY DEF Compilation
  <2> QED BY <2>1
<1>3. \A i \in DOMAIN halt : halt[i].do = "intern" => StringOf(halt[i].text, 0) \in Strings
  BY <1>1 DEF SelectorStrings
<1> HIDE DEF todo, halt
<1>4. CASE ast = Aborted.node
  <2>1. todo = <<>>
    BY <1>2, <1>4 DEF Todo
  <2>2. <<>> \in Seq({}) /\ Len(<<>>) = 0
    BY EmptySeq
  <2> QED BY <2>1, <2>2 DEF TodoSound, IsSeq, todo
<1>5. CASE ast # Aborted.node
  <2>1. IsSeq(code)
    BY <1>1, <1>5, SourceTree, CompiledItems
  <2> HIDE DEF code
  <2>2. todo = code \o Emit(last) /\ halt = code \o Emit(<<"HALT">>)
    BY <1>2, <1>5 DEF Todo, code
  <2> DEFINE x == [do |-> "emit", instruction |-> last]  y == [do |-> "emit", instruction |-> <<"HALT">>]
  <2>3. todo = code \o <<x>> /\ halt = code \o <<y>>
    BY <2>2 DEF Emit
  <2>4. x.do # "intern"
    OBVIOUS
  <2> HIDE DEF x, y
  <2> DEFINE n == Len(code)
  <2>5. /\ IsSeq(todo) /\ Len(todo) = n + 1 /\ todo[n + 1] = x /\ IsSeq(halt) /\ Len(halt) = n + 1
        /\ n \in Nat /\ \A i \in 1..n : todo[i] = code[i] /\ halt[i] = code[i]
    <3>1. \A z : IsSeq(<<z>>) /\ Len(<<z>>) = 1 /\ <<z>>[1] = z
      BY OneItem
    <3> QED BY <2>1, <2>3, <3>1, JoinedItems
  <2>6. DOMAIN halt = 1..n + 1
    BY <2>5, LengthIs
  <2> HIDE DEF n
  <2>7. ASSUME NEW i \in 1..Len(todo), todo[i].do = "intern" PROVE StringOf(todo[i].text, 0) \in Strings
    <3>1. i # n + 1
      BY <2>4, <2>5, <2>7
    <3>2. i \in 1..n
      BY <2>5, <3>1
    <3>3. halt[i] = todo[i] /\ i \in DOMAIN halt
      BY <2>5, <2>6, <3>2
    <3> QED BY <1>3, <2>7, <3>3
  <2> QED BY <2>5, <2>7 DEF TodoSound, todo
<1> QED BY <1>4, <1>5

LEMMA TodoLater ==
  ASSUME NEW todo, TodoSound(todo), NEW d \in Nat
  PROVE  TodoSound(SubSeq(todo, d + 1, Len(todo)))
<1> DEFINE n == Len(todo)  later == SubSeq(todo, d + 1, n)
<1>1. PICK S : todo \in Seq(S)
  BY Zenon DEF TodoSound, IsSeq
<1>2. n \in Nat /\ \A i \in d + 1..n : i \in 1..n
  BY <1>1, LenProperties
<1>3. \A i \in 1..n : todo[i] \in S
  BY <1>1, ElementOfSeq
<1>4. \A i \in 1..n : todo[i].do = "intern" => StringOf(todo[i].text, 0) \in Strings
  BY DEF TodoSound
<1> HIDE DEF n
<1>5. /\ later \in Seq(S) /\ Len(later) = IF d + 1 <= n THEN n - (d + 1) + 1 ELSE 0
      /\ \A i \in 1..n - (d + 1) + 1 : later[i] = todo[d + 1 + i - 1]
  BY <1>2, <1>3, SubSeqProperties
<1> HIDE DEF later
<1>6. ASSUME NEW i \in 1..Len(later) PROVE \E j \in 1..n : later[i] = todo[j]
  <2>1. i \in 1..n - (d + 1) + 1
    BY <1>2, <1>5
  <2>2. d + 1 + i - 1 \in 1..n
    BY <1>2, <2>1
  <2> QED BY <1>5, <2>1, <2>2, Zenon
<1>7. \A i \in 1..Len(later) : later[i].do = "intern" => StringOf(later[i].text, 0) \in Strings
  BY <1>4, <1>6
<1>8. IsSeq(later)
  BY <1>5, Zenon DEF IsSeq
<1> QED BY <1>7, <1>8 DEF TodoSound, later, n

LEMMA TodoTail ==
  ASSUME NEW todo, TodoSound(todo), todo # <<>>
  PROVE  TodoSound(Tail(todo)) /\ (todo[1].do = "intern" => StringOf(todo[1].text, 0) \in Strings)
<1>1. PICK S : todo \in Seq(S)
  BY Zenon DEF TodoSound, IsSeq
<1>2. Len(todo) \in Nat /\ Len(todo) # 0
  BY <1>1, LenProperties, EmptySeq
<1>3. 1 \in 1..Len(todo)
  BY <1>2
<1>4. Tail(todo) = SubSeq(todo, 2, Len(todo))
  BY <1>1, TailIsSubSeq
<1>5. TodoSound(SubSeq(todo, 1 + 1, Len(todo))) /\ 1 + 1 = 2
  BY TodoLater
<1>6. TodoSound(Tail(todo))
  BY <1>4, <1>5, Zenon
<1> QED BY <1>3, <1>6 DEF TodoSound

-----------------------------------------------------------------------------
(***************************************************************************)
(* The steps of the compiler are steps of the image.                       *)
(***************************************************************************)
\* While a text is compiled, it is the compiler that calls.
BusyInv ==
  Compiling =>
    /\ Parsed(compilation) /\ TodoSound(compilation.todo)
    /\ ~Idle => call.op = "intern" /\ compilation.todo # <<>>

LEMMA Beginning ==
  ASSUME NEW text \in Texts, NEW last, CompileSmalltalk(text, last)
  PROVE  BusyInv' /\ UNCHANGED <<memory, call, interned>>
<1>1. /\ compilation' = Compilation(text, last) /\ Idle /\ UNCHANGED <<memory, call, interned>>
  BY DEF CompileSmalltalk
<1>2. Parsed(compilation') /\ TodoSound(compilation'.todo)
  BY <1>1, CompilationParsed, TodoBegins
<1>3. Idle'
  BY <1>1 DEF Idle
<1> QED BY <1>1, <1>2, <1>3 DEF BusyInv

LEMMA Emitting ==
  ASSUME BusyInv, EmitCode
  PROVE  BusyInv' /\ UNCHANGED <<memory, call, interned>>
<1> DEFINE todo == compilation.todo
           ends == {i \in DOMAIN todo : todo[i].do = "intern"} \cup {Len(todo) + 1}
           n == Lowest(ends) - 1
           rest == SubSeq(todo, n + 1, Len(todo))
<1>1. /\ Compiling /\ Idle /\ Idle' /\ UNCHANGED <<memory, call, interned>>
      /\ Parsed(compilation) /\ TodoSound(todo)
  BY DEF EmitCode, BusyInv, imageVars, Idle
<1>2. \E code : compilation' = [compilation EXCEPT !.todo = rest, !.code = code]
  <2>1. compilation' = [compilation EXCEPT !.todo = SubSeq(compilation.todo, n + 1, Len(compilation.todo)),
                          !.code = compilation.code \o [i \in 1..n |-> Emitted(compilation.todo[i])]]
    BY Zenon DEF EmitCode
  <2> QED BY <2>1, Zenon
<1>3. n \in Nat
  <2>1. PICK S : todo \in Seq(S)
    BY <1>1, Zenon DEF TodoSound, IsSeq
  <2>2. Len(todo) \in Nat /\ DOMAIN todo = 1..Len(todo)
    BY <2>1, LenProperties
  <2>3. ends \in SUBSET (Nat \ {0}) /\ ends # {}
    BY <2>2
  <2>4. Lowest(ends) \in ends
    <3> HIDE DEF ends
    <3>1. ends \in SUBSET Nat
      BY <2>3
    <3> QED BY <2>3, <3>1, LowestIs
  <2>5. Lowest(ends) \in Nat \ {0}
    BY <2>3, <2>4, Zenon
  <2> QED BY <2>5
<1> HIDE DEF n
<1>4. TodoSound(rest)
  BY <1>1, <1>3, TodoLater
<1> HIDE DEF rest
<1>5. PICK code : compilation' = [compilation EXCEPT !.todo = rest, !.code = code]
  BY <1>2
<1>6. Parsed(compilation') /\ compilation'.todo = rest
  BY <1>1, <1>5, StillParsed
<1> QED BY <1>1, <1>4, <1>6 DEF BusyInv

LEMMA Interns ==
  ASSUME BusyInv, CompileInterns
  PROVE  /\ BusyInv'
         /\ \E s \in Strings : Interning(s)
<1>1. /\ Compiling /\ compilation.todo # <<>> /\ Doing.do = "intern" /\ compilation' = compilation
      /\ Interning(StringOf(Doing.text, 0)) /\ TodoSound(compilation.todo) /\ Parsed(compilation)
  BY DEF CompileInterns, BusyInv
<1>2. StringOf(Doing.text, 0) \in Strings
  BY <1>1, TodoTail DEF Doing
<1>3. \E subject, stores, answer :
        call' = [op |-> "intern", subject |-> subject, stores |-> stores, answer |-> answer]
  BY <1>1 DEF Interning, Enter
<1>4. call'.op = "intern"
  BY <1>3
<1> QED BY <1>1, <1>2, <1>4 DEF BusyInv, Compiling

LEMMA Answered ==
  ASSUME BusyInv, CompileInterned
  PROVE  BusyInv' /\ Interned
<1>1. /\ Compiling /\ Interned /\ ~Idle /\ Idle' /\ Parsed(compilation) /\ TodoSound(compilation.todo)
      /\ compilation.todo # <<>>
  BY DEF CompileInterned, BusyInv, Interned, Returns, Idle
<1>2. PICK kind, todo, answer :
        todo = Tail(compilation.todo) /\ compilation' = [compilation EXCEPT !.selectors[kind] = answer, !.todo = todo]
  BY Zenon DEF CompileInterned
<1>3. Parsed(compilation') /\ compilation'.todo = todo
  <2>1. \E k : compilation' = [compilation EXCEPT !.selectors[k] = answer, !.todo = todo]
    BY <1>2, Zenon
  <2>2. Parsed(compilation)
    BY <1>1
  <2> QED BY <2>1, <2>2, StillParsed, Zenon
<1>4. TodoSound(todo)
  BY <1>1, <1>2, TodoTail
<1> QED BY <1>1, <1>3, <1>4 DEF BusyInv

LEMMA BusyNext == ASSUME BusyInv, [Next]_vars PROVE BusyInv' /\ ImageStep
<1>1. ASSUME NEW text \in Texts, NEW last, CompileSmalltalk(text, last), UNCHANGED methodVars
      PROVE  BusyInv' /\ ImageStep
  BY <1>1, Beginning DEF ImageStep
<1>2. CASE EmitCode /\ UNCHANGED methodVars
  BY <1>2, Emitting DEF ImageStep
<1>3. CASE CompileInterns /\ UNCHANGED methodVars
  BY <1>3, Interns DEF ImageStep
<1>4. CASE CompileInterned /\ UNCHANGED methodVars
  BY <1>4, Answered DEF ImageStep
<1>5. CASE Store /\ Compiling /\ UNCHANGED <<interned, compilation>> /\ UNCHANGED methodVars
  <2>1. ~Idle /\ call.op = "intern" /\ compilation.todo # <<>>
    BY <1>5 DEF Store, BusyInv
  <2>2. call'.op = call.op
    BY <1>5, <2>1 DEF Store
  <2> QED BY <1>5, <2>1, <2>2 DEF BusyInv, Compiling, ImageStep
<1>6. CASE Compiled /\ UNCHANGED methodVars
  BY <1>6 DEF Compiled, BusyInv, Compiling, ImageStep, imageVars
<1>7. CASE StopCompilation /\ UNCHANGED methodVars
  BY <1>7 DEF StopCompilation, BusyInv, Compiling, ImageStep, Abandon, Idle
<1>8. CASE ~Compiling /\ RuntimeNext /\ UNCHANGED compilation
  BY <1>8, RuntimeSteps DEF BusyInv, Compiling
<1>9. CASE UNCHANGED vars
  BY <1>9 DEF vars, runtimeVars, imageVars, BusyInv, Compiling, Idle, ImageStep
<1> QED BY <1>1, <1>2, <1>3, <1>4, <1>5, <1>6, <1>7, <1>8, <1>9 DEF Next, CompilerStep

\* What the runtime promises holds as well while texts are compiled in its image.
BothInv ==
  /\ BusyInv
  /\ TypesInv /\ RoomInv /\ CacheInv /\ Counts

LEMMA BothInit == ASSUME Init PROVE BothInv
<1>1. RuntimeInit /\ ~Compiling
  BY DEF Init, Compiling
<1>2. Counts
  BY <1>1, Constants DEF RuntimeInit, Counts
<1> QED BY <1>1, <1>2, TypesInit, RoomInit, CacheInit DEF BothInv, BusyInv

LEMMA BothCounts == ASSUME Counts, [Next]_vars PROVE Counts'
<1>1. CASE UNCHANGED <<calls, stops>>
  BY <1>1 DEF Counts
<1>2. CASE calls < MaxCalls /\ calls' = calls + 1 /\ UNCHANGED stops
  BY <1>2, Constants DEF Counts
<1>3. CASE stops < MaxStops /\ stops' = stops + 1 /\ UNCHANGED calls
  BY <1>3, Constants DEF Counts
<1>4. CASE RuntimeNext
  BY <1>4, CountsNext
<1>5. ASSUME NEW text, NEW last, CompileSmalltalk(text, last)
      PROVE  calls < MaxCalls /\ calls' = calls + 1 /\ UNCHANGED stops
  BY <1>5 DEF CompileSmalltalk
<1>6. ASSUME EmitCode \/ CompileInterns \/ Store \/ CompileInterned \/ Compiled \/ UNCHANGED vars
      PROVE  UNCHANGED <<calls, stops>>
  BY <1>6 DEF EmitCode, CompileInterns, Interning, Enter, Store, CompileInterned, Interned, Returns, Compiled,
     imageVars, vars, runtimeVars
<1>7. ASSUME StopCompilation PROVE stops < MaxStops /\ stops' = stops + 1 /\ UNCHANGED calls
  BY <1>7 DEF StopCompilation
<1> QED BY <1>1, <1>2, <1>3, <1>4, <1>5, <1>6, <1>7 DEF Next, CompilerStep

LEMMA BothNext == ASSUME BothInv, [Next]_vars PROVE BothInv' /\ ImageStep
<1>1. BusyInv' /\ ImageStep
  BY BusyNext DEF BothInv
<1>2. Counts'
  BY BothCounts DEF BothInv
<1> QED BY <1>1, <1>2, TypesNext, RoomNext, CacheNext DEF BothInv

LEMMA BothAlways == Spec => []BothInv
BY BothInit, BothNext, PTL DEF Spec

\* The words of the image are what they should be, also when a compilation has been
\* stopped in the middle of an interning.
THEOREM ImageTypes == Spec => []TypeOK
<1>1. BothInv => TypeOK
  BY TypesAreOK DEF BothInv
<1> QED BY <1>1, BothAlways, PTL

\* An ID stands for one name for ever, whether an expression interns it or a compilation.
THEOREM ImageKeepsNames == Spec => []SelectorsNamed
<1>1. BothInv => SelectorsNamed
  BY NamesAre DEF BothInv, RoomInv
<1> QED BY <1>1, BothAlways, PTL

\* A name that does not fill its last word gets one ID, whoever interns it, while there
\* are no more IDs than buckets.
THEOREM ImageKeepsIDs == Spec => []UniqueWhileRoom
<1>1. BothInv => UniqueWhileRoom
  BY IDsAreKept DEF BothInv
<1> QED BY <1>1, BothAlways, PTL

\* A lookup finds the method installed last in the nearest class, whatever is compiled
\* and interned between installations.
THEOREM ImageFindsNearest == Spec => []LookupFindsNearest
<1>1. BothInv => LookupFindsNearest
  BY NearestAreFound DEF BothInv, TypesInv, CallsInv
<1> QED BY <1>1, BothAlways, PTL

\* The inline cache answers what a search answered, whatever is compiled in between.
THEOREM ImageCacheServes == Spec => []AnswersWereFound
<1>1. BothInv => AnswersWereFound
  BY CacheFound DEF BothInv
<1> QED BY <1>1, BothAlways, PTL

\* The contexts are a call stack, of which no compilation takes or leaves anything.
THEOREM ImageContexts == Spec => ReturnsToSenders
<1>1. BothInv /\ [Next]_vars => [Calls!Next]_Chain
  BY BothNext, CallsNext DEF BothInv, TypesInv, CallsStep
<1>2. Init => Calls!Init
  BY CallsInit DEF Init
<1> QED BY <1>1, <1>2, BothAlways, PTL DEF Spec, ReturnsToSenders, Calls!Spec

-----------------------------------------------------------------------------
(***************************************************************************)
(* Places in their order.                                                  *)
(***************************************************************************)
Enumerates(f, n, places) ==
  /\ n \in Nat /\ \A k \in 1..n : f[k] \in places
  /\ \A k, l \in 1..n : k < l => f[k] < f[l]
  /\ \A p \in places : \E k \in 1..n : f[k] = p

EnumeratesUpTo(values, e) == {i \in DOMAIN values : i \in 1..e}

\* What is at the places, one after the other, is the sequence of the values.
LEMMA InOrderOf ==
  ASSUME NEW values, NEW N \in Nat, NEW n, NEW f, Enumerates(f, n, EnumeratesUpTo(values, N))
  PROVE  /\ InOrder(values, N) = [k \in 1..n |-> values[f[k]]]
         /\ Len(InOrder(values, N)) = n
<1> DEFINE of(i) == IF i \in DOMAIN values THEN <<values[i]>> ELSE <<>>
           at(k) == values[f[k]]
           S == {at(k) : k \in 1..n}
           upTo(m) == {k \in 1..n : f[k] <= m}
           Is(m, g) == \E c \in 0..n : /\ \A k \in 1..n : k <= c <=> f[k] <= m
                                       /\ g = [k \in 1..c |-> at(k)]
<1>1. PICK g : OrderedBy(values, N, g)
  BY InOrderIs, Zenon
<1>2. g[0] = <<>> /\ \A i \in 1..N : g[i] = g[i - 1] \o of(i)
  BY <1>1 DEF OrderedBy
<1>3. /\ n \in Nat /\ \A k \in 1..n : f[k] \in 1..N /\ f[k] \in DOMAIN values
      /\ \A k, l \in 1..n : k < l => f[k] < f[l]
      /\ \A i \in 1..N : i \in DOMAIN values => \E k \in 1..n : f[k] = i
  BY DEF Enumerates, EnumeratesUpTo
<1>4. \A k \in 1..n : at(k) \in S
  OBVIOUS
<1> HIDE DEF at, S
<1>5. \A i \in 1..N : i \in DOMAIN values => of(i) = <<values[i]>>
  OBVIOUS
<1>6. \A i \in 1..N : i \notin DOMAIN values => of(i) = <<>>
  OBVIOUS
<1> HIDE DEF of
<1> DEFINE good == {m \in 0..N : Is(m, g[m])}
<1>7. 0 \in good
  <2>1. \A k \in 1..n : (k <= 0 <=> f[k] <= 0)
    BY <1>3
  <2>2. [k \in 1..0 |-> at(k)] = <<>>
    OBVIOUS
  <2>3. 0 \in 0..n /\ 0 \in 0..N
    BY <1>3
  <2>4. g[0] = [k \in 1..0 |-> at(k)]
    BY <1>2, <2>2, Zenon
  <2>5. Is(0, g[0])
    BY <2>1, <2>3, <2>4
  <2> QED BY <2>3, <2>5
<1>8. ASSUME NEW m \in 0 + 1..N, m - 1 \in good PROVE m \in good
  <2>1. PICK c \in 0..n : /\ \A k \in 1..n : k <= c <=> f[k] <= m - 1
                          /\ g[m - 1] = [k \in 1..c |-> at(k)]
    BY <1>8
  <2>2. m \in 1..N /\ m \in 0..N /\ g[m] = g[m - 1] \o of(m)
    BY <1>2
  <2>3. g[m - 1] \in Seq(S) /\ Len(g[m - 1]) = c
    <3>1. \A k \in 1..c : at(k) \in S
      BY <1>3, <1>4
    <3> QED BY <1>3, <2>1, <3>1
  <2>4. CASE m \in DOMAIN values
    <3>1. PICK d \in 1..n : f[d] = m
      BY <1>3, <2>2, <2>4
    <3>2. d = c + 1
      <4>1. d > c
        BY <1>3, <2>1, <3>1
      <4>2. CASE d > c + 1
        <5>1. c + 1 \in 1..n /\ c + 1 < d /\ ~(c + 1 <= c)
          BY <1>3, <4>2
        <5>2. f[c + 1] < m /\ f[c + 1] \in 1..N
          BY <1>3, <3>1, <5>1
        <5>3. f[c + 1] <= m - 1
          BY <2>2, <5>2
        <5> QED BY <2>1, <5>1, <5>3
      <4> QED BY <1>3, <4>1, <4>2
    <3>3. \A k \in 1..n : k <= d <=> f[k] <= m
      <4>1. TAKE k \in 1..n
      <4>2. CASE k < d
        BY <1>3, <3>1, <4>2
      <4>3. CASE k > d
        BY <1>3, <3>1, <4>3
      <4> QED BY <1>3, <3>1, <4>2, <4>3
    <3>4. g[m] = [k \in 1..d |-> at(k)]
      <4>1. of(m) = <<at(d)>> /\ at(d) \in S
        BY <1>4, <1>5, <2>2, <2>4, <3>1 DEF at
      <4>2. g[m] = Append(g[m - 1], at(d))
        BY <2>2, <2>3, <4>1
      <4>3. Append(g[m - 1], at(d)) = [k \in 1..d |-> at(k)]
        BY <1>3, <2>1, <2>3, <3>2, <4>1
      <4> QED BY <4>2, <4>3
    <3>5. Is(m, g[m])
      BY <3>3, <3>4
    <3> QED BY <2>2, <3>5
  <2>5. CASE m \notin DOMAIN values
    <3>1. g[m] = g[m - 1]
      BY <1>6, <2>2, <2>3, <2>5, ConcatEmptySeq
    <3>2. \A k \in 1..n : k <= c <=> f[k] <= m
      BY <1>3, <2>1, <2>2, <2>5
    <3>3. Is(m, g[m])
      BY <2>1, <3>1, <3>2
    <3> QED BY <2>2, <3>3
  <2> QED BY <2>4, <2>5
<1>9. Is(N, g[N])
  <2>1. \A m \in 0..N : m \in good
    <3> HIDE DEF good
    <3> QED BY <1>7, <1>8, Stepwise
  <2>2. N \in good
    <3> HIDE DEF good
    <3> QED BY <2>1
  <2> HIDE DEF Is
  <2> QED BY <2>2
<1>10. PICK c \in 0..n : /\ \A k \in 1..n : k <= c <=> f[k] <= N
                         /\ g[N] = [k \in 1..c |-> at(k)]
  BY <1>9
<1>11. c = n
  <2>1. CASE n = 0
    BY <1>10, <2>1
  <2>2. CASE n # 0
    BY <1>3, <1>10, <2>2
  <2> QED BY <2>1, <2>2
<1>12. InOrder(values, N) = [k \in 1..n |-> at(k)]
  BY <1>1, <1>10, <1>11 DEF OrderedBy
<1>13. Len(InOrder(values, N)) = n
  BY <1>3, <1>12
<1> QED BY <1>12, <1>13, Zenon DEF at

\* The places up to a number can be enumerated.
LEMMA Enumerated ==
  ASSUME NEW places, NEW N \in Nat
  PROVE  \E n, f : Enumerates(f, n, {i \in places : i \in 1..N})
<1> DEFINE some(m) == {i \in places : i \in 1..m}
           good == {m \in 0..N : \E n, f : Enumerates(f, n, some(m))}
<1>1. 0 \in good
  <2>1. Enumerates(<<>>, 0, some(0))
    BY DEF Enumerates
  <2>2. \E n, f : Enumerates(f, n, some(0))
    BY <2>1
  <2> HIDE DEF some
  <2> QED BY <2>2
<1>2. ASSUME NEW m \in 0 + 1..N, m - 1 \in good PROVE m \in good
  <2>1. PICK n, f : Enumerates(f, n, some(m - 1))
    BY <1>2
  <2>2. m \in 0..N /\ m \in 1..m
    OBVIOUS
  <2>3. CASE m \in places
    <3> DEFINE g == [k \in 1..n + 1 |-> IF k = n + 1 THEN m ELSE f[k]]
    <3>1. /\ n \in Nat /\ \A k \in 1..n : f[k] \in places /\ f[k] \in 1..m - 1
          /\ \A k, l \in 1..n : k < l => f[k] < f[l]
          /\ \A p \in 1..m - 1 : p \in places => \E k \in 1..n : f[k] = p
      BY <2>1 DEF Enumerates
    <3>2. g[n + 1] = m /\ \A k \in 1..n : g[k] = f[k]
      BY <3>1
    <3> HIDE DEF g
    <3>3. \A k \in 1..n + 1 : k = n + 1 \/ k \in 1..n
      BY <3>1
    <3>4. \A k \in 1..n + 1 : g[k] \in some(m)
      BY <2>2, <2>3, <3>1, <3>2, <3>3
    <3>5. \A k, l \in 1..n + 1 : k < l => g[k] < g[l]
      <4>1. TAKE k, l \in 1..n + 1
      <4>2. HAVE k < l
      <4>3. k \in 1..n
        BY <3>1, <4>2
      <4> QED BY <3>1, <3>2, <3>3, <4>2, <4>3
    <3>6. \A p \in some(m) : \E k \in 1..n + 1 : g[k] = p
      <4>1. TAKE p \in some(m)
      <4>2. CASE p = m
        BY <3>1, <3>2, <4>2
      <4>3. CASE p # m
        <5>1. p \in 1..m - 1 /\ p \in places
          BY <4>3
        <5>2. PICK k \in 1..n : f[k] = p
          BY <3>1, <5>1
        <5> QED BY <3>1, <3>2, <5>2
      <4> QED BY <4>2, <4>3
    <3>7. Enumerates(g, n + 1, some(m))
      <4>1. n + 1 \in Nat
        BY <3>1
      <4> HIDE DEF some
      <4> QED BY <3>4, <3>5, <3>6, <4>1 DEF Enumerates
    <3> QED BY <2>2, <3>7
  <2>4. CASE m \notin places
    <3>1. some(m) = some(m - 1)
      BY <2>4
    <3> QED BY <2>1, <2>2, <3>1
  <2> QED BY <2>3, <2>4
<1>3. \A m \in 0..N : m \in good
  <2> HIDE DEF good
  <2> QED BY <1>1, <1>2, Stepwise
<1>4. N \in good
  <2> HIDE DEF good
  <2> QED BY <1>3
<1> QED BY <1>4
-----------------------------------------------------------------------------
(***************************************************************************)
(* What a list of things to do sends.                                      *)
(***************************************************************************)
InternsAt(items, i, kind) == items[i].do = "intern" /\ items[i].kind = kind

\* The last text that is interned for a kind in the items before j
LastInterned(items, j, kind, word) ==
  \E i \in 1..j - 1 : /\ InternsAt(items, i, kind) /\ items[i].text = word
                      /\ \A m \in i + 1..j - 1 : ~InternsAt(items, m, kind)

InternsNo(items, kind) == \A i \in 1..Len(items) : ~InternsAt(items, i, kind)

PushesAt(items) == {i \in 1..Len(items) : items[i].do = "push-selector"}

\* A send outside the named exceptions
Said(text, send) == ~Overrun(text, send) /\ ~send.onSame

\* The items push a selector for each send, in their order, and the selector is the one
\* that was written.
Pushes(text, items, sends) ==
  \E f : /\ Enumerates(f, Len(sends), PushesAt(items))
         /\ \A k \in 1..Len(sends) :
              Said(text, sends[k]) => LastInterned(items, f[k], items[f[k]].kind, Word(text, sends[k].at))

\* The messages that there are
MessageKinds == {"unary", "binary", "keyword"}

\* Only the items for selectors push one, and only texts for messages are interned.
PlainItem(item) ==
  /\ item.do \in {"intern", "emit", "push-selector"}
  /\ item.do = "emit" => ~PushesSelector(item.instruction)
  /\ item.do = "intern" => item.kind \in MessageKinds

Plain(items) == \A i \in 1..Len(items) : PlainItem(items[i])

Does(text, items, sends) == IsSeq(items) /\ Plain(items) /\ IsSeq(sends) /\ Pushes(text, items, sends)

\* An index into two sequences is one into the first or one into the second.
LEMMA Either ==
  ASSUME NEW n \in Nat, NEW m \in Nat, NEW i \in 1..n + m
  PROVE  i \in 1..n \/ \E j \in 1..m : i = n + j
<1>1. CASE i <= n
  BY <1>1
<1>2. CASE i > n
  <2>1. i - n \in 1..m /\ i = n + (i - n)
    BY <1>2
  <2> QED BY <2>1
<1> QED BY <1>1, <1>2

\* What is interned last in a list is so in one that has it as a part.
LEMMA LastInPart ==
  ASSUME NEW s, NEW u, NEW d \in Nat, NEW n \in Nat, \A i \in 1..n : u[d + i] = s[i],
         NEW j \in 1..n, NEW kind, NEW word, LastInterned(s, j, kind, word)
  PROVE  LastInterned(u, d + j, kind, word)
<1>1. PICK i \in 1..j - 1 : /\ InternsAt(s, i, kind) /\ s[i].text = word
                            /\ \A m \in i + 1..j - 1 : ~InternsAt(s, m, kind)
  BY DEF LastInterned
<1>2. \A m \in 1..n : InternsAt(u, d + m, kind) <=> InternsAt(s, m, kind)
  BY DEF InternsAt
<1>3. i \in 1..n /\ d + i \in 1..(d + j) - 1
  OBVIOUS
<1>4. ASSUME NEW m \in d + i + 1..(d + j) - 1 PROVE ~InternsAt(u, m, kind)
  <2> DEFINE p == m - d
  <2>1. p \in i + 1..j - 1 /\ p \in 1..n /\ m = d + p
    BY <1>3
  <2> HIDE DEF p
  <2> QED BY <1>1, <1>2, <2>1
<1> QED BY <1>1, <1>2, <1>3, <1>4 DEF LastInterned

LEMMA PushesBoth ==
  ASSUME NEW text, NEW s, NEW t, NEW x, NEW y, Does(text, s, x), Does(text, t, y)
  PROVE  Pushes(text, s \o t, x \o y)
<1> DEFINE u == s \o t  z == x \o y  ls == Len(s)  lt == Len(t)  lx == Len(x)  ly == Len(y)
<1>1. /\ ls \in Nat /\ lt \in Nat /\ Len(u) = ls + lt
      /\ \A i \in 1..ls : u[i] = s[i]
      /\ \A i \in 1..lt : u[ls + i] = t[i]
  BY JoinedItems DEF Does
<1>2. /\ lx \in Nat /\ ly \in Nat /\ Len(z) = lx + ly
      /\ \A i \in 1..lx : z[i] = x[i]
      /\ \A i \in 1..ly : z[lx + i] = y[i]
  BY JoinedItems DEF Does
<1>3. PICK f : /\ Enumerates(f, lx, PushesAt(s))
               /\ \A k \in 1..lx :
                    Said(text, x[k]) => LastInterned(s, f[k], s[f[k]].kind, Word(text, x[k].at))
  BY DEF Does, Pushes
<1>4. PICK g : /\ Enumerates(g, ly, PushesAt(t))
               /\ \A k \in 1..ly :
                    Said(text, y[k]) => LastInterned(t, g[k], t[g[k]].kind, Word(text, y[k].at))
  BY DEF Does, Pushes
<1> HIDE DEF u, z, ls, lt, lx, ly
<1>5. /\ \A k \in 1..lx : f[k] \in 1..ls /\ s[f[k]].do = "push-selector"
      /\ \A k, l \in 1..lx : k < l => f[k] < f[l]
      /\ \A p \in 1..ls : s[p].do = "push-selector" => \E k \in 1..lx : f[k] = p
  BY <1>3 DEF Enumerates, PushesAt, ls
<1>6. /\ \A k \in 1..ly : g[k] \in 1..lt /\ t[g[k]].do = "push-selector"
      /\ \A k, l \in 1..ly : k < l => g[k] < g[l]
      /\ \A p \in 1..lt : t[p].do = "push-selector" => \E k \in 1..ly : g[k] = p
  BY <1>4 DEF Enumerates, PushesAt, lt
<1> DEFINE h == [k \in 1..lx + ly |-> IF k <= lx THEN f[k] ELSE ls + g[k - lx]]
<1>7. \A k \in 1..lx : h[k] = f[k]
  BY <1>2
<1>8. \A k \in 1..ly : h[lx + k] = ls + g[k]
  <2>1. TAKE k \in 1..ly
  <2> DEFINE p == lx + k
  <2>2. p \in 1..lx + ly /\ ~(p <= lx) /\ p - lx = k
    BY <1>2
  <2> HIDE DEF p
  <2>3. h[p] = ls + g[k]
    BY <2>2
  <2> QED BY <2>3 DEF p
<1> HIDE DEF h
<1>9. \A k \in 1..lx + ly : h[k] \in 1..ls + lt /\ u[h[k]].do = "push-selector"
  <2>1. TAKE k \in 1..lx + ly
  <2>2. CASE k \in 1..lx
    <3>1. f[k] \in 1..ls /\ h[k] = f[k] /\ s[f[k]].do = "push-selector"
      BY <1>5, <1>7, <2>2
    <3> QED BY <1>1, <3>1
  <2>3. ASSUME NEW j \in 1..ly, k = lx + j PROVE h[k] \in 1..ls + lt /\ u[h[k]].do = "push-selector"
    <3> DEFINE r == g[j]
    <3>1. r \in 1..lt /\ h[k] = ls + r /\ t[r].do = "push-selector"
      BY <1>6, <1>8, <2>3
    <3> HIDE DEF r
    <3>2. u[ls + r] = t[r]
      BY <1>1, <3>1
    <3>3. ls + r \in 1..ls + lt
      BY <1>1, <3>1
    <3> QED BY <3>1, <3>2, <3>3
  <2> QED BY <1>2, <2>2, <2>3, Either
<1>10. \A k, l \in 1..lx + ly : k < l => h[k] < h[l]
  <2>1. TAKE k, l \in 1..lx + ly
  <2>2. HAVE k < l
  <2>3. CASE l \in 1..lx
    <3>1. k \in 1..lx
      BY <1>2, <2>2, <2>3
    <3> QED BY <1>5, <1>7, <2>2, <2>3, <3>1
  <2>4. ASSUME NEW j \in 1..ly, l = lx + j PROVE h[k] < h[l]
    <3>1. h[l] = ls + g[j] /\ g[j] \in 1..lt
      BY <1>6, <1>8, <2>4
    <3>2. CASE k \in 1..lx
      <4>1. h[k] \in 1..ls
        BY <1>5, <1>7, <3>2
      <4> QED BY <1>1, <3>1, <4>1
    <3>3. ASSUME NEW i \in 1..ly, k = lx + i PROVE h[k] < h[l]
      <4>1. i < j
        BY <1>2, <2>2, <2>4, <3>3
      <4>2. g[i] < g[j] /\ h[k] = ls + g[i] /\ g[i] \in 1..lt
        BY <1>6, <1>8, <3>3, <4>1
      <4> QED BY <1>1, <3>1, <4>2
    <3> QED BY <1>2, <3>2, <3>3, Either
  <2> QED BY <1>2, <2>3, <2>4, Either
<1>11. \A p \in 1..ls + lt : u[p].do = "push-selector" => \E k \in 1..lx + ly : h[k] = p
  <2>1. TAKE p \in 1..ls + lt
  <2>2. HAVE u[p].do = "push-selector"
  <2>3. CASE p \in 1..ls
    <3>1. PICK k \in 1..lx : f[k] = p
      BY <1>1, <1>5, <2>2, <2>3
    <3>2. k \in 1..lx + ly
      BY <1>2
    <3> QED BY <1>7, <3>1, <3>2
  <2>4. ASSUME NEW q \in 1..lt, p = ls + q PROVE \E k \in 1..lx + ly : h[k] = p
    <3>1. PICK k \in 1..ly : g[k] = q
      BY <1>1, <1>6, <2>2, <2>4
    <3>2. lx + k \in 1..lx + ly
      BY <1>2
    <3> QED BY <1>8, <2>4, <3>1, <3>2
  <2> QED BY <1>1, <2>3, <2>4, Either
<1>12. Enumerates(h, lx + ly, PushesAt(u))
  <2>1. PushesAt(u) = {p \in 1..ls + lt : u[p].do = "push-selector"}
    BY <1>1 DEF PushesAt
  <2> QED BY <1>2, <1>9, <1>10, <1>11, <2>1 DEF Enumerates
<1>13. ASSUME NEW k \in 1..lx + ly, Said(text, z[k])
       PROVE  LastInterned(u, h[k], u[h[k]].kind, Word(text, z[k].at))
  <2>1. CASE k \in 1..lx
    <3>1. /\ z[k] = x[k] /\ h[k] = f[k] /\ f[k] \in 1..ls /\ u[h[k]] = s[f[k]]
          /\ LastInterned(s, f[k], s[f[k]].kind, Word(text, x[k].at))
      BY <1>1, <1>2, <1>3, <1>5, <1>7, <1>13, <2>1
    <3>2. \A i \in 1..ls : u[0 + i] = s[i]
      BY <1>1
    <3>3. LastInterned(u, 0 + f[k], s[f[k]].kind, Word(text, x[k].at))
      BY <1>1, <3>1, <3>2, LastInPart
    <3>4. 0 + f[k] = f[k]
      BY <1>1, <3>1
    <3> QED BY <3>1, <3>3, <3>4
  <2>2. ASSUME NEW j \in 1..ly, k = lx + j
        PROVE  LastInterned(u, h[k], u[h[k]].kind, Word(text, z[k].at))
    <3>1. /\ z[k] = y[j] /\ h[k] = ls + g[j] /\ g[j] \in 1..lt /\ u[h[k]] = t[g[j]]
      BY <1>1, <1>2, <1>6, <1>8, <2>2
    <3>2. LastInterned(t, g[j], t[g[j]].kind, Word(text, y[j].at))
      BY <1>4, <1>13, <3>1
    <3>3. LastInterned(u, ls + g[j], t[g[j]].kind, Word(text, y[j].at))
      BY <1>1, <3>1, <3>2, LastInPart
    <3> QED BY <3>1, <3>3
  <2> QED BY <1>2, <2>1, <2>2, Either
<1>14. Len(z) = lx + ly
  BY <1>2
<1> QED BY <1>12, <1>13, <1>14, Zenon DEF Pushes, u, z

LEMMA DoesBoth ==
  ASSUME NEW text, NEW s, NEW t, NEW x, NEW y, Does(text, s, x), Does(text, t, y)
  PROVE  Does(text, s \o t, x \o y)
<1> DEFINE u == s \o t  z == x \o y  ls == Len(s)  lt == Len(t)
<1>1. /\ IsSeq(u) /\ ls \in Nat /\ lt \in Nat /\ Len(u) = ls + lt
      /\ \A i \in 1..ls : u[i] = s[i]
      /\ \A i \in 1..lt : u[ls + i] = t[i]
  BY JoinedItems DEF Does
<1>2. IsSeq(z)
  BY JoinedItems DEF Does
<1>3. Pushes(text, u, z)
  BY PushesBoth
<1> HIDE DEF u, z, ls, lt
<1>4. Plain(u)
  <2>1. SUFFICES ASSUME NEW i \in 1..Len(u) PROVE PlainItem(u[i])
    BY DEF Plain
  <2>2. CASE i \in 1..ls
    <3>1. u[i] = s[i]
      BY <1>1, <2>2
    <3> QED BY <2>2, <3>1 DEF Does, Plain, ls
  <2>3. ASSUME NEW j \in 1..lt, i = ls + j PROVE PlainItem(u[i])
    <3>1. u[i] = t[j]
      BY <1>1, <2>3
    <3> QED BY <3>1 DEF Does, Plain, lt
  <2> QED BY <1>1, <2>2, <2>3, Either
<1> QED BY <1>1, <1>2, <1>3, <1>4 DEF Does, u, z

LEMMA EmptyIsSeq == IsSeq(<<>>) /\ \A s : IsSeq(s) => s \o <<>> = s /\ <<>> \o s = s
<1>1. <<>> \in Seq({})
  BY EmptySeq
<1>2. IsSeq(<<>>)
  BY <1>1, Zenon DEF IsSeq
<1>3. ASSUME NEW s, IsSeq(s) PROVE s \o <<>> = s /\ <<>> \o s = s
  <2>1. PICK S : s \in Seq(S)
    BY <1>3, Zenon DEF IsSeq
  <2> QED BY <2>1, ConcatEmptySeq
<1> QED BY <1>2, <1>3

\* What does not push a selector sends nothing.
LEMMA DoesNothing ==
  ASSUME NEW text, NEW item, PlainItem(item), item.do # "push-selector"
  PROVE  Does(text, <<item>>, <<>>)
<1> DEFINE s == <<item>>
<1>1. Len(s) = 1 /\ s[1] = item /\ IsSeq(s) /\ \A i \in 1..1 : i = 1
  BY OneItem
<1> HIDE DEF s
<1>2. PushesAt(s) = {}
  BY <1>1 DEF PushesAt
<1>3. Enumerates(<<>>, 0, PushesAt(s)) /\ Len(<<>>) = 0
  BY <1>2, EmptySeq DEF Enumerates
<1>4. Pushes(text, s, <<>>)
  <2>1. \A k \in 1..0 : FALSE
    OBVIOUS
  <2> QED BY <1>3, <2>1, Zenon DEF Pushes
<1>5. Plain(s)
  BY <1>1 DEF Plain
<1> QED BY <1>1, <1>4, <1>5, EmptyIsSeq DEF Does, s

\* A selector is pushed for one more send.
LEMMA DoesPush ==
  ASSUME NEW text, NEW s, NEW x, Does(text, s, x), NEW kind, NEW send,
         Said(text, send) => LastInterned(s, Len(s) + 1, kind, Word(text, send.at))
  PROVE  Does(text, s \o <<[do |-> "push-selector", kind |-> kind]>>, x \o <<send>>)
<1> DEFINE item == [do |-> "push-selector", kind |-> kind]
           u == s \o <<item>>  z == x \o <<send>>  ls == Len(s)  lx == Len(x)
<1>0. item.do = "push-selector" /\ item.kind = kind
  OBVIOUS
<1> HIDE DEF item
<1>1. /\ Len(<<item>>) = 1 /\ <<item>>[1] = item /\ IsSeq(<<item>>)
      /\ Len(<<send>>) = 1 /\ <<send>>[1] = send /\ IsSeq(<<send>>)
  BY OneItem
<1>2. /\ IsSeq(u) /\ ls \in Nat /\ Len(u) = ls + 1 /\ u[ls + 1] = item
      /\ \A i \in 1..ls : u[i] = s[i]
  <2>1. /\ IsSeq(u) /\ ls \in Nat /\ Len(u) = ls + 1 /\ \A i \in 1..ls : u[i] = s[i]
        /\ \A i \in 1..1 : u[ls + i] = <<item>>[i]
    BY <1>1, JoinedItems DEF Does
  <2> QED BY <1>1, <2>1
<1>3. /\ IsSeq(z) /\ lx \in Nat /\ Len(z) = lx + 1 /\ z[lx + 1] = send
      /\ \A i \in 1..lx : z[i] = x[i]
  <2>1. /\ IsSeq(z) /\ lx \in Nat /\ Len(z) = lx + 1 /\ \A i \in 1..lx : z[i] = x[i]
        /\ \A i \in 1..1 : z[lx + i] = <<send>>[i]
    BY <1>1, JoinedItems DEF Does
  <2> QED BY <1>1, <2>1
<1>4. PICK f : /\ Enumerates(f, lx, PushesAt(s))
               /\ \A k \in 1..lx :
                    Said(text, x[k]) => LastInterned(s, f[k], s[f[k]].kind, Word(text, x[k].at))
  BY DEF Does, Pushes
<1>5. Said(text, send) => LastInterned(s, ls + 1, kind, Word(text, send.at))
  OBVIOUS
<1>6. Plain(s)
  BY DEF Does
<1> HIDE DEF u, z, ls, lx
<1>7. /\ \A k \in 1..lx : f[k] \in 1..ls /\ s[f[k]].do = "push-selector"
      /\ \A k, l \in 1..lx : k < l => f[k] < f[l]
      /\ \A p \in 1..ls : s[p].do = "push-selector" => \E k \in 1..lx : f[k] = p
  BY <1>4 DEF Enumerates, PushesAt, ls
<1> DEFINE h == [k \in 1..lx + 1 |-> IF k <= lx THEN f[k] ELSE ls + 1]
<1>8. h[lx + 1] = ls + 1 /\ \A k \in 1..lx : h[k] = f[k]
  BY <1>3
<1> HIDE DEF h
<1>9. \A k \in 1..lx + 1 : k \in 1..lx \/ k = lx + 1
  BY <1>3
<1>10. \A p \in 1..ls + 1 : p \in 1..ls \/ p = ls + 1
  BY <1>2
<1>11. Enumerates(h, lx + 1, PushesAt(u))
  <2>1. PushesAt(u) = {p \in 1..ls + 1 : u[p].do = "push-selector"}
    BY <1>2 DEF PushesAt
  <2>2. \A k \in 1..lx + 1 : h[k] \in 1..ls + 1 /\ u[h[k]].do = "push-selector"
    BY <1>0, <1>2, <1>7, <1>8, <1>9
  <2>3. \A k, l \in 1..lx + 1 : k < l => h[k] < h[l]
    <3>1. TAKE k, l \in 1..lx + 1
    <3>2. HAVE k < l
    <3>3. k \in 1..lx /\ h[k] \in 1..ls
      BY <1>3, <1>7, <1>8, <3>2
    <3> QED BY <1>2, <1>7, <1>8, <1>9, <3>2, <3>3
  <2>4. \A p \in 1..ls + 1 : u[p].do = "push-selector" => \E k \in 1..lx + 1 : h[k] = p
    <3>1. TAKE p \in 1..ls + 1
    <3>2. HAVE u[p].do = "push-selector"
    <3>3. CASE p \in 1..ls
      <4>1. PICK k \in 1..lx : f[k] = p
        BY <1>2, <1>7, <3>2, <3>3
      <4>2. k \in 1..lx + 1
        BY <1>3
      <4> QED BY <1>8, <4>1, <4>2
    <3>4. CASE p = ls + 1
      <4>1. lx + 1 \in 1..lx + 1
        BY <1>3
      <4> QED BY <1>8, <3>4, <4>1
    <3> QED BY <1>10, <3>3, <3>4
  <2>5. lx + 1 \in Nat
    BY <1>3
  <2> QED BY <2>1, <2>2, <2>3, <2>4, <2>5 DEF Enumerates
<1>12. ASSUME NEW j \in 1..ls + 1, NEW k, NEW word, LastInterned(s, j, k, word) PROVE LastInterned(u, j, k, word)
  <2>1. PICK i \in 1..j - 1 : /\ InternsAt(s, i, k) /\ s[i].text = word
                              /\ \A m \in i + 1..j - 1 : ~InternsAt(s, m, k)
    BY <1>12 DEF LastInterned
  <2>2. \A m \in 1..j - 1 : u[m] = s[m]
    BY <1>2
  <2>3. \A m \in i + 1..j - 1 : m \in 1..j - 1
    OBVIOUS
  <2>4. InternsAt(u, i, k) /\ u[i].text = word /\ \A m \in i + 1..j - 1 : ~InternsAt(u, m, k)
    BY <2>1, <2>2, <2>3 DEF InternsAt
  <2> QED BY <2>4 DEF LastInterned
<1>13. ASSUME NEW k \in 1..lx + 1, Said(text, z[k])
       PROVE  LastInterned(u, h[k], u[h[k]].kind, Word(text, z[k].at))
  <2>1. CASE k \in 1..lx
    <3>1. /\ z[k] = x[k] /\ h[k] = f[k] /\ f[k] \in 1..ls + 1 /\ u[h[k]] = s[f[k]]
          /\ LastInterned(s, f[k], s[f[k]].kind, Word(text, x[k].at))
      <4>1. z[k] = x[k] /\ h[k] = f[k] /\ f[k] \in 1..ls
        BY <1>3, <1>7, <1>8, <2>1
      <4>2. u[f[k]] = s[f[k]] /\ f[k] \in 1..ls + 1
        BY <1>2, <4>1
      <4>3. LastInterned(s, f[k], s[f[k]].kind, Word(text, x[k].at))
        BY <1>4, <1>13, <2>1, <4>1
      <4> QED BY <4>1, <4>2, <4>3
    <3> QED BY <1>12, <3>1
  <2>2. CASE k = lx + 1
    <3>1. z[k] = send /\ h[k] = ls + 1 /\ u[h[k]] = item /\ ls + 1 \in 1..ls + 1
      BY <1>2, <1>3, <1>8, <2>2
    <3> QED BY <1>0, <1>5, <1>12, <1>13, <3>1
  <2> QED BY <1>9, <2>1, <2>2
<1>14. Pushes(text, u, z)
  BY <1>3, <1>11, <1>13, Zenon DEF Pushes
<1>15. Plain(u)
  <2>1. PlainItem(item)
    BY <1>0 DEF PlainItem
  <2> QED BY <1>2, <1>6, <1>10, <2>1 DEF Plain, ls
<1> QED BY <1>2, <1>3, <1>14, <1>15 DEF Does, u, z, item

JoinAsWell(s, t, u) == (s \o t) \o u = s \o (t \o u)

LEMMA Associative ==
  ASSUME NEW s, NEW t, NEW u, IsSeq(s), IsSeq(t), IsSeq(u)
  PROVE  JoinAsWell(s, t, u)
<1>1. PICK S : s \in Seq(S)
  BY Zenon DEF IsSeq
<1>2. PICK T : t \in Seq(T)
  BY Zenon DEF IsSeq
<1>3. PICK U : u \in Seq(U)
  BY Zenon DEF IsSeq
<1> DEFINE all == S \cup T \cup U
<1>4. S \subseteq all /\ T \subseteq all /\ U \subseteq all
  OBVIOUS
<1> HIDE DEF all
<1>5. s \in Seq(all) /\ t \in Seq(all) /\ u \in Seq(all)
  BY <1>1, <1>2, <1>3, <1>4, SeqMonotonic
<1> QED BY <1>5, ConcatAssociative DEF JoinAsWell

LEMMA NoneInterned ==
  ASSUME NEW s, NEW t, IsSeq(s), IsSeq(t), NEW kind, InternsNo(s, kind), InternsNo(t, kind)
  PROVE  InternsNo(s \o t, kind)
<1> DEFINE u == s \o t  ls == Len(s)  lt == Len(t)
<1>1. /\ ls \in Nat /\ lt \in Nat /\ Len(u) = ls + lt
      /\ \A i \in 1..ls : u[i] = s[i]
      /\ \A i \in 1..lt : u[ls + i] = t[i]
  BY JoinedItems
<1>2. /\ \A i \in 1..ls : ~InternsAt(s, i, kind)
      /\ \A i \in 1..lt : ~InternsAt(t, i, kind)
  BY DEF InternsNo
<1> HIDE DEF u, ls, lt
<1>3. ASSUME NEW i \in 1..Len(u) PROVE ~InternsAt(u, i, kind)
  <2>1. CASE i \in 1..ls
    <3>1. u[i] = s[i] /\ ~InternsAt(s, i, kind)
      BY <1>1, <1>2, <2>1
    <3> QED BY <3>1 DEF InternsAt
  <2>2. ASSUME NEW j \in 1..lt, i = ls + j PROVE ~InternsAt(u, i, kind)
    <3>1. u[i] = t[j] /\ ~InternsAt(t, j, kind)
      BY <1>1, <1>2, <2>2
    <3> QED BY <3>1 DEF InternsAt
  <2>3. i \in 1..ls \/ \E j \in 1..lt : i = ls + j
    <3>1. i \in 1..ls + lt
      BY <1>1
    <3> QED BY <1>1, <3>1, Either
  <2> QED BY <2>1, <2>2, <2>3
<1> QED BY <1>3 DEF InternsNo, u

\* What is interned last is so until something else of the kind is.
LEMMA LastStays ==
  ASSUME NEW s, NEW t, IsSeq(s), IsSeq(t), NEW kind, NEW word,
         LastInterned(s, Len(s) + 1, kind, word), InternsNo(t, kind)
  PROVE  LastInterned(s \o t, Len(s \o t) + 1, kind, word)
<1> DEFINE u == s \o t  ls == Len(s)  lt == Len(t)
<1>1. /\ ls \in Nat /\ lt \in Nat /\ Len(u) = ls + lt
      /\ \A i \in 1..ls : u[i] = s[i]
      /\ \A i \in 1..lt : u[ls + i] = t[i]
  BY JoinedItems
<1>2. \A i \in 1..lt : ~InternsAt(t, i, kind)
  BY DEF InternsNo
<1>3. PICK i \in 1..(ls + 1) - 1 : /\ InternsAt(s, i, kind) /\ s[i].text = word
                                   /\ \A m \in i + 1..(ls + 1) - 1 : ~InternsAt(s, m, kind)
  BY DEF LastInterned
<1> HIDE DEF u, ls, lt
<1>4. i \in 1..ls /\ i \in 1..(Len(u) + 1) - 1
  BY <1>1
<1>5. ASSUME NEW m \in i + 1..(Len(u) + 1) - 1 PROVE ~InternsAt(u, m, kind)
  <2>1. m \in 1..ls + lt
    BY <1>1, <1>4
  <2>2. CASE m \in 1..ls
    <3>1. m \in i + 1..(ls + 1) - 1
      BY <1>1, <1>4, <2>2
    <3> QED BY <1>1, <1>3, <2>2, <3>1 DEF InternsAt
  <2>3. ASSUME NEW j \in 1..lt, m = ls + j PROVE ~InternsAt(u, m, kind)
    BY <1>1, <1>2, <2>3 DEF InternsAt
  <2> QED BY <1>1, <2>1, <2>2, <2>3, Either
<1>6. InternsAt(u, i, kind) /\ u[i].text = word
  BY <1>1, <1>3, <1>4 DEF InternsAt
<1> QED BY <1>4, <1>5, <1>6 DEF LastInterned, u

LEMMA InternIsLast == ASSUME NEW kind, NEW word PROVE LastInterned(Intern(kind, word), Len(Intern(kind, word)) + 1, kind, word)
<1> DEFINE item == [do |-> "intern", kind |-> kind, text |-> word]  s == <<item>>
<1>1. item.do = "intern" /\ item.kind = kind /\ item.text = word
  OBVIOUS
<1> HIDE DEF item
<1>2. Len(s) = 1 /\ s[1] = item
  BY OneItem
<1> HIDE DEF s
<1>3. 1 \in 1..(Len(s) + 1) - 1 /\ \A m \in 1 + 1..(Len(s) + 1) - 1 : FALSE
  BY <1>2
<1>4. LastInterned(s, Len(s) + 1, kind, word)
  BY <1>1, <1>2, <1>3 DEF LastInterned, InternsAt
<1> QED BY <1>4 DEF Intern, s, item

-----------------------------------------------------------------------------
(***************************************************************************)
(* What the parts of the code of a message send.                           *)
(***************************************************************************)
LEMMA EmitsNothing ==
  ASSUME NEW text, NEW instruction, ~PushesSelector(instruction)
  PROVE  Does(text, Emit(instruction), <<>>) /\ \A kind : InternsNo(Emit(instruction), kind)
<1> DEFINE item == [do |-> "emit", instruction |-> instruction]  s == <<item>>
<1>1. item.do = "emit" /\ item.instruction = instruction
  OBVIOUS
<1> HIDE DEF item
<1>2. Does(text, s, <<>>)
  BY <1>1, DoesNothing DEF PlainItem
<1>3. Len(s) = 1 /\ s[1] = item /\ \A i \in 1..1 : i = 1
  BY OneItem
<1> HIDE DEF s
<1>4. \A kind : InternsNo(s, kind)
  BY <1>1, <1>3 DEF InternsNo, InternsAt
<1> QED BY <1>2, <1>4, Zenon DEF Emit, s, item

LEMMA InternSendsNothing ==
  ASSUME NEW text, NEW kind \in MessageKinds, NEW word
  PROVE  Does(text, Intern(kind, word), <<>>) /\ \A other : other # kind => InternsNo(Intern(kind, word), other)
<1> DEFINE item == [do |-> "intern", kind |-> kind, text |-> word]  s == <<item>>
<1>1. item.do = "intern" /\ item.kind = kind
  OBVIOUS
<1> HIDE DEF item
<1>2. Does(text, s, <<>>)
  BY <1>1, DoesNothing DEF PlainItem
<1>3. Len(s) = 1 /\ s[1] = item /\ \A i \in 1..1 : i = 1
  BY OneItem
<1> HIDE DEF s
<1>4. \A other : other # kind => InternsNo(s, other)
  BY <1>1, <1>3 DEF InternsNo, InternsAt
<1> QED BY <1>2, <1>4, Zenon DEF Intern, s, item

\* Sends nothing, and interns nothing
Neutral(text, s) == Does(text, s, <<>>) /\ \A kind : InternsNo(s, kind)

LEMMA NeutralBoth == ASSUME NEW text, NEW s, NEW t, Neutral(text, s), Neutral(text, t) PROVE Neutral(text, s \o t)
<1>1. IsSeq(s) /\ IsSeq(t) /\ Does(text, s \o t, <<>> \o <<>>)
  BY DoesBoth DEF Neutral, Does
<1>2. <<>> \o <<>> = <<>>
  BY EmptyIsSeq
<1> QED BY <1>1, <1>2, NoneInterned, Zenon DEF Neutral

LEMMA NeutralParts ==
  ASSUME NEW text
  PROVE  /\ \A kind, word : kind # "selector" => Neutral(text, Push(kind, word))
         /\ \A n : Neutral(text, Funcall(n))
         /\ Neutral(text, Emit(<<"DUP">>)) /\ Neutral(text, Emit(<<"SWAP">>))
         /\ Neutral(text, Emit(<<"HALT">>)) /\ Neutral(text, Emit(<<"RET", 0>>))
<1>1. ASSUME NEW kind, NEW word, kind # "selector" PROVE Neutral(text, Push(kind, word))
  <2>1. ~PushesSelector(<<"PUSH", kind, word>>)
    BY <1>1 DEF PushesSelector
  <2> QED BY <2>1, EmitsNothing DEF Push, Neutral
<1>2. \A x : ~PushesSelector(<<x>>)
  BY DEF PushesSelector
<1>3. ~PushesSelector(<<"RET", 0>>)
  BY DEF PushesSelector
<1>4. \A x : ~PushesSelector(x) => Neutral(text, Emit(x))
  BY EmitsNothing DEF Neutral
<1>5. ASSUME NEW n PROVE Neutral(text, Funcall(n))
  <2>1. Neutral(text, Push("count", n)) /\ Neutral(text, Emit(<<"FUNCALL">>))
    BY <1>1, <1>2, <1>4
  <2> QED BY <2>1, NeutralBoth DEF Funcall
<1> QED BY <1>1, <1>2, <1>3, <1>4, <1>5

\* What follows and is neutral changes nothing.
LEMMA ThenNeutral ==
  ASSUME NEW text, NEW s, NEW x, Does(text, s, x), NEW t, Neutral(text, t)
  PROVE  Does(text, s \o t, x)
<1>1. Does(text, s \o t, x \o <<>>)
  BY DoesBoth DEF Neutral
<1>2. x \o <<>> = x
  BY EmptyIsSeq DEF Does
<1> QED BY <1>1, <1>2

\* A call of lookup-method is the send of a message.
LEMMA DoesLookup ==
  ASSUME NEW text, NEW s, NEW x, Does(text, s, x), NEW kind, NEW send,
         Said(text, send) => LastInterned(s, Len(s) + 1, kind, Word(text, send.at))
  PROVE  Does(text, s \o Lookup(kind), x \o <<send>>)
<1> DEFINE a == Emit(<<"DUP">>)  b == <<[do |-> "push-selector", kind |-> kind]>>
           c == Push("address", lookupMethodAddr)  d == Funcall(2)  z == x \o <<send>>
<1>1. Neutral(text, a) /\ Neutral(text, c) /\ Neutral(text, d)
  BY NeutralParts
<1>2. Lookup(kind) = a \o b \o c \o d
  BY Zenon DEF Lookup
<1>3. IsSeq(b)
  BY OneItem
<1>4. Does(text, s \o a, x)
  <2> HIDE DEF a
  <2> QED BY <1>1, ThenNeutral
<1>5. Said(text, send) => LastInterned(s \o a, Len(s \o a) + 1, kind, Word(text, send.at))
  <2> HIDE DEF a
  <2>1. IsSeq(s) /\ IsSeq(a) /\ InternsNo(a, kind)
    BY <1>1 DEF Does, Neutral
  <2> QED BY <2>1, LastStays
<1>6. Does(text, (s \o a) \o b, z)
  <2> HIDE DEF a
  <2> QED BY <1>4, <1>5, DoesPush
<1> HIDE DEF a, b, c, d, z
<1>7. Does(text, (((s \o a) \o b) \o c) \o d, z)
  BY <1>1, <1>6, ThenNeutral
<1>8. IsSeq(s) /\ IsSeq(a) /\ IsSeq(c) /\ IsSeq(d)
  BY <1>1 DEF Does, Neutral
<1>9. (((s \o a) \o b) \o c) \o d = s \o (((a \o b) \o c) \o d)
  <2>1. PICK ab : ab = a \o b
    OBVIOUS
  <2>2. PICK abc : abc = ab \o c
    OBVIOUS
  <2>3. IsSeq(ab)
    BY <1>3, <1>8, <2>1, BothItems
  <2>4. IsSeq(abc)
    BY <1>8, <2>2, <2>3, BothItems
  <2>5. JoinAsWell(s, a, b)
    BY <1>3, <1>8, Associative
  <2>6. JoinAsWell(s, ab, c)
    BY <1>8, <2>3, Associative
  <2>7. JoinAsWell(s, abc, d)
    BY <1>8, <2>4, Associative
  <2> QED BY <2>1, <2>2, <2>5, <2>6, <2>7 DEF JoinAsWell
<1> QED BY <1>2, <1>7, <1>9 DEF z

LEMMA LookupInternsNone == ASSUME NEW kind, NEW other PROVE InternsNo(Lookup(kind), other)
<1> DEFINE a == Emit(<<"DUP">>)  item == [do |-> "push-selector", kind |-> kind]  b == <<item>>
           c == Push("address", lookupMethodAddr)  d == Funcall(2)
<1>1. Neutral(0, a) /\ Neutral(0, c) /\ Neutral(0, d)
  BY NeutralParts
<1>2. Lookup(kind) = a \o b \o c \o d
  BY Zenon DEF Lookup
<1>3. item.do # "intern"
  OBVIOUS
<1> HIDE DEF item
<1>4. IsSeq(b) /\ Len(b) = 1 /\ b[1] = item /\ \A i \in 1..1 : i = 1
  BY OneItem
<1> HIDE DEF a, b, c, d
<1>5. InternsNo(b, other)
  BY <1>3, <1>4 DEF InternsNo, InternsAt
<1>6. IsSeq(a) /\ IsSeq(c) /\ IsSeq(d) /\ InternsNo(a, other) /\ InternsNo(c, other) /\ InternsNo(d, other)
  BY <1>1 DEF Neutral, Does
<1>7. IsSeq(a \o b) /\ InternsNo(a \o b, other)
  BY <1>4, <1>5, <1>6, BothItems, NoneInterned
<1>8. IsSeq((a \o b) \o c) /\ InternsNo((a \o b) \o c, other)
  BY <1>6, <1>7, BothItems, NoneInterned
<1>9. InternsNo(((a \o b) \o c) \o d, other)
  BY <1>6, <1>8, BothItems, NoneInterned
<1> QED BY <1>2, <1>9

LEMMA DoesEmpty == ASSUME NEW text PROVE Does(text, <<>>, <<>>)
<1>1. Len(<<>>) = 0 /\ IsSeq(<<>>)
  BY EmptySeq, EmptyIsSeq
<1>2. \A i \in 1..0 : FALSE
  OBVIOUS
<1> DEFINE e == <<>>
<1>3. Len(e) = 0 /\ IsSeq(e)
  BY <1>1
<1> HIDE DEF e
<1>4. Plain(e) /\ PushesAt(e) = {}
  BY <1>3 DEF Plain, PushesAt
<1>5. Enumerates(e, 0, PushesAt(e))
  BY <1>4 DEF Enumerates
<1>6. Pushes(text, e, e)
  BY <1>2, <1>3, <1>5, Zenon DEF Pushes
<1> QED BY <1>3, <1>4, <1>6 DEF Does, e

\* Lists that are done one after the other send what each sends, in that order.
LEMMA FlatDoes ==
  ASSUME NEW text, NEW N \in Nat, NEW s, NEW x, Len(s) = N, Len(x) = N,
         s = [k \in 1..N |-> s[k]], x = [k \in 1..N |-> x[k]], \A k \in 1..N : Does(text, s[k], x[k])
  PROVE  Does(text, FlattenSeq(s), FlattenSeq(x))
<1>1. CASE N = 0
  <2>1. FlattenSeq(s) = s /\ FlattenSeq(x) = x
    BY <1>1 DEF FlattenSeq
  <2>2. s = <<>> /\ x = <<>>
    BY <1>1
  <2> QED BY <2>1, <2>2, DoesEmpty
<1>2. CASE N # 0
  <2>1. PICK f : FlatBy(s, N, f)
    BY <1>2, FlatIs
  <2>2. PICK g : FlatBy(x, N, g)
    BY <1>2, FlatIs
  <2> DEFINE good == {n \in 1..N : Does(text, f[n], g[n])}
  <2>3. 1 \in good
    BY <1>2, <2>1, <2>2 DEF FlatBy
  <2>4. ASSUME NEW n \in 1 + 1..N, n - 1 \in good PROVE n \in good
    <3>1. n \in 2..N /\ n \in 1..N
      OBVIOUS
    <3>2. f[n] = f[n - 1] \o s[n] /\ g[n] = g[n - 1] \o x[n]
      BY <2>1, <2>2, <3>1 DEF FlatBy
    <3>3. Does(text, f[n - 1] \o s[n], g[n - 1] \o x[n])
      BY <2>4, <3>1, DoesBoth
    <3> QED BY <3>1, <3>2, <3>3
  <2>5. N \in good
    <3> HIDE DEF good
    <3>1. \A n \in 1..N : n \in good
      BY <2>3, <2>4, Stepwise
    <3> QED BY <1>2, <3>1
  <2> QED BY <2>1, <2>2, <2>5 DEF FlatBy
<1> QED BY <1>1, <1>2

-----------------------------------------------------------------------------
(***************************************************************************)
(* The sends of unary and binary messages, in order.                       *)
(***************************************************************************)
LEMMA UnarySendsGrow ==
  ASSUME NEW a \in Nat, NEW b \in Nat, a <= b
  PROVE  /\ UnarySends(a, a) = <<>>
         /\ UnarySends(a, b + 1) = UnarySends(a, b) \o <<Send("unary", b + 1, b # a)>>
<1> DEFINE send(i) == Send("unary", a + i, i > 1)  n == b - a
           S == {send(i) : i \in 1..n + 1}
<1>1. n \in Nat /\ (b + 1) - a = n + 1 /\ a - a = 0
  OBVIOUS
<1>2. send(n + 1) = Send("unary", b + 1, b # a)
  <2>1. a + (n + 1) = b + 1 /\ (n + 1 > 1) = (b # a)
    OBVIOUS
  <2> QED BY <2>1
<1>3. UnarySends(a, a) = [i \in 1..0 |-> send(i)]
  BY <1>1 DEF UnarySends
<1>4. UnarySends(a, b) = [i \in 1..n |-> send(i)] /\ UnarySends(a, b + 1) = [i \in 1..n + 1 |-> send(i)]
  BY <1>1 DEF UnarySends
<1>5. \A i \in 1..n + 1 : send(i) \in S
  OBVIOUS
<1> HIDE DEF send, n, S
<1>6. [i \in 1..0 |-> send(i)] = <<>>
  OBVIOUS
<1> DEFINE s == [i \in 1..n |-> send(i)]  t == [i \in 1..n + 1 |-> send(i)]
<1>7. s \in Seq(S) /\ Len(s) = n /\ n + 1 \in 1..n + 1
  BY <1>1, <1>5
<1>8. t = Append(s, send(n + 1))
  <2> DEFINE x == send(n + 1)  u == Append(s, x)
  <2>1. t \in Seq(S) /\ Len(t) = n + 1 /\ (\A i \in 1..n : t[i] = s[i]) /\ t[n + 1] = x /\ x \in S
    BY <1>1, <1>5
  <2> HIDE DEF s, t, x
  <2>2. u \in Seq(S) /\ Len(u) = n + 1 /\ (\A i \in 1..n : u[i] = s[i]) /\ u[n + 1] = x
    BY <1>7, <2>1, AppendProperties
  <2> HIDE DEF u
  <2>3. \A i \in 1..n + 1 : t[i] = u[i]
    <3>1. \A i \in 1..n + 1 : i \in 1..n \/ i = n + 1
      BY <1>1
    <3> QED BY <2>1, <2>2, <3>1
  <2>4. t = u
    BY <2>1, <2>2, <2>3, SeqEqual
  <2> QED BY <2>4 DEF u, x
<1>9. Append(s, send(n + 1)) = s \o <<send(n + 1)>>
  <2>1. send(n + 1) \in S
    BY <1>5, <1>7
  <2> HIDE DEF s
  <2> QED BY <1>7, <2>1, AppendIsConcat
<1> QED BY <1>2, <1>3, <1>4, <1>6, <1>8, <1>9

\* What is sent up to an operand: what is sent before the last operator, that one, and
\* the unary messages behind it.
SendsUpTo(text, a, i) ==
  LET o == SplitAt(text, a, i)
  IN IF OperatorsTo(text, a, i) = {} THEN UnarySends(a, i)
     ELSE BinarySends(TypesOf(text), a, o - 1)
          \o <<Send("binary", o, OperatorsTo(text, a, o - 1) # {})>> \o UnarySends(o + 1, i)

LEMMA BinarySendsAre ==
  ASSUME NEW text, HasWords(text), NEW a \in 1..Count(text), Kind(text, a) # "binary", NEW i \in a..Count(text)
  PROVE  BinarySends(TypesOf(text), a, i) = SendsUpTo(text, a, i)
<1> DEFINE m == Count(text)
           op(j) == SplitAt(text, a, j)
           then(j, x) == IF OperatorsTo(text, a, j) = {} THEN UnarySends(a, j)
                         ELSE x \o <<Send("binary", op(j), OperatorsTo(text, a, op(j) - 1) # {})>>
                                \o UnarySends(op(j) + 1, j)
           Is(n, f) == f = [j \in a..n |-> then(j, f[op(j) - 1])]
           good == {n \in a..m : \E f : Is(n, f)}
<1>1. m \in Nat /\ a \in Nat /\ a \in a..m /\ m \in a..m
  BY DEF HasWords
<1>2. \A b : BinarySends(TypesOf(text), a, b) = (CHOOSE f : Is(m, f))[b]
  <2>1. \A b : BinarySends(TypesOf(text), a, b) = (CHOOSE f : Is(Len(TypesOf(text)), f))[b]
    BY DEF BinarySends, SplitAt, OperatorsTo
  <2> HIDE DEF Is
  <2> QED BY <2>1, TypesAre
<1>3. \A j \in a..m : OperatorsTo(text, a, j) # {} => op(j) \in a + 1..j
  BY LastOperator
<1>4. \A j \in a..m : \A x, y : OperatorsTo(text, a, j) = {} => then(j, x) = then(j, y)
  OBVIOUS
<1>5. \A j \in a..m : OperatorsTo(text, a, j) # {} => op(j) - 1 \in a..j - 1
  <2> HIDE DEF op
  <2> QED BY <1>1, <1>3
<1> HIDE DEF m, then, op
<1>6. ASSUME NEW n \in a..m, \A j \in a..n - 1 : j \in good PROVE n \in good
  <2>1. n = a \/ n - 1 \in a..n - 1
    BY <1>1
  <2>2. n - 1 \in a..m => n - 1 \in good
    BY <1>1, <1>6
  <2>3. PICK f : n - 1 \in a..m => Is(n - 1, f)
    BY <2>2
  <2> DEFINE g == [j \in a..n |-> IF j = n THEN then(n, f[op(n) - 1]) ELSE f[j]]
  <2>4. \A j \in a..n : j \in a..m /\ (j # n => n - 1 \in a..m /\ j \in a..n - 1)
    BY <1>1
  <2>5. \A j \in a..n : g[j] = then(j, f[op(j) - 1])
    BY <2>3, <2>4
  <2>6. \A j \in a..n : OperatorsTo(text, a, j) # {} => g[op(j) - 1] = f[op(j) - 1]
    <3>1. TAKE j \in a..n
    <3>2. HAVE OperatorsTo(text, a, j) # {}
    <3>3. op(j) - 1 \in a..j - 1
      BY <1>5, <2>4, <3>2
    <3>4. op(j) - 1 \in a..n /\ op(j) - 1 # n
      BY <1>1, <3>3
    <3> QED BY <3>4
  <2>7. g = [j \in a..n |-> g[j]]
    OBVIOUS
  <2> HIDE DEF g
  <2>8. \A j \in a..n : g[j] = then(j, g[op(j) - 1])
    BY <1>4, <2>4, <2>5, <2>6
  <2>9. Is(n, g)
    BY <2>7, <2>8
  <2> HIDE DEF Is
  <2> QED BY <2>9
<1>7. m \in good
  <2> HIDE DEF good
  <2>1. \A n \in a..m : n \in good
    BY <1>1, <1>6, Upwards
  <2> QED BY <1>1, <2>1
<1> DEFINE f == CHOOSE h : Is(m, h)
<1>8. Is(m, f)
  BY <1>7
<1>9. \A b : BinarySends(TypesOf(text), a, b) = f[b]
  BY <1>2
<1> HIDE DEF f
<1>10. f[i] = then(i, f[op(i) - 1])
  BY <1>8 DEF m
<1> QED BY <1>9, <1>10 DEF then, op, SendsUpTo

-----------------------------------------------------------------------------
(***************************************************************************)
(* What is compiled sends what is written.                                 *)
(***************************************************************************)
\* The name that ends a text is taken as it is written.
LEMMA LastName ==
  ASSUME NEW text, HasWords(text), NEW i \in 1..Count(text), Kind(text, i) = "identifier", EndsText(text, i)
  PROVE  SelectorText(Spelled(text), StartOf(text, i)) = Word(text, i)
<1> DEFINE src == Spelled(text)  p == StartOf(text, i)  w == Word(text, i)  n == Len(w)  l == Len(src)
<1>1. /\ i = Count(text) /\ text.gaps[i] = 0 /\ n \in Nat \ {0} /\ w \in Seq(Signs) /\ i \in 0..Count(text) /\ i # 0
      /\ 1 \in 1..n
  BY DEF EndsText, Count, HasWords
<1>2. /\ p \in Nat /\ WordEnd(text, i) = p + n
      /\ \A k \in 1..n : TokPeek(src, p + k - 1) = w[k]
  BY WordsInText DEF Lettered
<1>3. src = SpelledTo(text, i)
  BY <1>1 DEF Spelled, Count
<1>4. src \in Seq(Signs) /\ l = p + n
  BY <1>1, <1>2, <1>3, SpelledEnds DEF Spells
<1>5. KnownWord(w, "identifier")
  BY WordsKnown
<1>6. w[1] \notin BinaryOps
  BY <1>5, Characters DEF KnownWord, NameWord
<1> HIDE DEF src, p, w, n, l
<1>7. \A k \in 1..n : src[p + k] = w[k]
  <2>1. TAKE k \in 1..n
  <2> DEFINE q == p + k - 1
  <2>2. q < l /\ q + 1 = p + k
    BY <1>1, <1>2, <1>4
  <2> HIDE DEF q
  <2>3. TokPeek(src, q) = w[k]
    BY <1>2, <2>1 DEF q
  <2> QED BY <2>2, <2>3 DEF TokPeek, l
<1>8. SelectorText(src, p) = SubSeq(src, p + 1, l)
  <2>1. src[p + 1] = w[1]
    BY <1>1, <1>7
  <2> QED BY <1>6, <2>1 DEF SelectorText, Rest, l
<1> DEFINE t == SubSeq(src, p + 1, l)
<1>9. Len(t) = n /\ t \in Seq(Signs) /\ \A k \in 1..n : t[k] = src[p + k]
  <2>1. l \in Nat /\ p + 1 \in Nat /\ \A k \in 1..l : src[k] \in Signs
    <3>1. l \in Nat
      BY <1>4, LenProperties DEF l
    <3>2. \A k \in 1..l : src[k] \in Signs
      BY <1>4, ElementOfSeq DEF l
    <3> QED BY <1>2, <3>1, <3>2
  <2>2. /\ t \in Seq(Signs) /\ Len(t) = IF p + 1 <= l THEN l - (p + 1) + 1 ELSE 0
        /\ \A k \in 1..l - (p + 1) + 1 : t[k] = src[p + 1 + k - 1]
    <3>1. \A k \in p + 1..l : src[k] \in Signs
      BY <1>2, <2>1
    <3> QED BY <1>2, <2>1, <3>1, SubSeqProperties
  <2> HIDE DEF t
  <2>3. Len(t) = n /\ l - (p + 1) + 1 = n
    BY <1>1, <1>2, <1>4, <2>2
  <2>4. \A k \in 1..n : p + 1 + k - 1 = p + k
    BY <1>1, <1>2
  <2> QED BY <2>2, <2>3, <2>4
<1> HIDE DEF t
<1>10. t = w
  <2>1. Len(w) = n /\ w \in Seq(Signs) /\ \A k \in 1..n : t[k] = w[k]
    BY <1>1, <1>7, <1>9 DEF n
  <2> QED BY <1>9, <2>1, SeqEqual
<1> QED BY <1>8, <1>10 DEF t, src, p, w

LEMMA OperandSendsNothing ==
  ASSUME NEW text, NEW source, NEW i, NEW x
  PROVE  Neutral(text, CompileNode(source, OperandAt(text, i), x))
<1> DEFINE node == OperandAt(text, i)
<1>1. node[1] = "number" \/ node[1] = "identifier"
  BY DEF OperandAt
<1> HIDE DEF node
<1>2. \A word : Neutral(text, Push("literal", word))
  BY NeutralParts
<1>3. CASE node[1] = "number"
  <2>1. CompileNode(source, node, x) = Push("literal", node[2])
    BY <1>3 DEF CompileNode
  <2> QED BY <1>2, <2>1 DEF node
<1>4. CASE node[1] = "identifier"
  <2>1. CompileNode(source, node, x) = Push("literal", 0)
    BY <1>4 DEF CompileNode
  <2> QED BY <1>2, <2>1 DEF node
<1> QED BY <1>1, <1>3, <1>4

\* The code of a unary message, with that of its receiver
LEMMA UnaryNode ==
  ASSUME NEW text, HasWords(text), NEW b \in 1..Count(text), Kind(text, b) = "identifier", NEW compiled, NEW receiver,
         NEW sends, NEW onSame, Does(text, compiled[receiver], sends), InternsNo(compiled[receiver], "binary"),
         ~onSame => InternsNo(compiled[receiver], "unary")
  PROVE  LET code == CompileNode(Spelled(text), <<"unary", StartOf(text, b), receiver>>, compiled)
         IN Does(text, code, sends \o <<Send("unary", b, onSame)>>) /\ InternsNo(code, "binary")
<1> DEFINE node == <<"unary", StartOf(text, b), receiver>>  word == SelectorText(Spelled(text), StartOf(text, b))
           i == Intern("unary", word)  c == compiled[receiver]  l == Lookup("unary")  d == Funcall(1)
           send == Send("unary", b, onSame)
<1>1. CompileNode(Spelled(text), node, compiled) = i \o c \o l \o d
  <2>1. node[1] = "unary" /\ node[2] = StartOf(text, b) /\ node[3] = receiver
    OBVIOUS
  <2> HIDE DEF node
  <2> QED BY <2>1 DEF CompileNode
<1>2. /\ Does(text, i, <<>>) /\ InternsNo(i, "binary") /\ LastInterned(i, Len(i) + 1, "unary", word)
      /\ Neutral(text, d) /\ InternsNo(l, "binary") /\ IsSeq(l)
  <2>1. "binary" # "unary"
    OBVIOUS
  <2>2. Does(text, i, <<>>) /\ InternsNo(i, "binary")
    BY <2>1, InternSendsNothing, Zenon DEF MessageKinds
  <2> QED BY <2>2, InternIsLast, NeutralParts, LookupInternsNone, PartsAreItems, Zenon
<1>3. Said(text, send) => EndsText(text, b) /\ ~onSame /\ send.at = b
  BY DEF Said, Overrun, Send
<1>4. EndsText(text, b) => word = Word(text, b)
  BY LastName
<1>5. Does(text, c, sends) /\ InternsNo(c, "binary") /\ (~onSame => InternsNo(c, "unary")) /\ IsSeq(c) /\ IsSeq(i)
  BY <1>2 DEF Does
<1> HIDE DEF node, word, i, c, l, d, send
<1>6. Does(text, i \o c, sends)
  <2>1. Does(text, i \o c, <<>> \o sends) /\ IsSeq(sends)
    BY <1>2, <1>5, DoesBoth DEF Does
  <2> QED BY <2>1, EmptyIsSeq
<1>7. Said(text, send) => LastInterned(i \o c, Len(i \o c) + 1, "unary", Word(text, send.at))
  BY <1>2, <1>3, <1>4, <1>5, LastStays
<1>8. Does(text, (i \o c) \o l, sends \o <<send>>)
  BY <1>6, <1>7, DoesLookup DEF l
<1>9. Does(text, ((i \o c) \o l) \o d, sends \o <<send>>)
  BY <1>2, <1>8, ThenNeutral
<1>10. IsSeq(i \o c) /\ InternsNo(i \o c, "binary") /\ IsSeq((i \o c) \o l) /\ IsSeq(d) /\ InternsNo(d, "binary")
  BY <1>2, <1>5, BothItems, NoneInterned DEF Neutral, Does
<1>11. InternsNo((i \o c) \o l, "binary")
  BY <1>2, <1>10, NoneInterned
<1>12. InternsNo(((i \o c) \o l) \o d, "binary")
  BY <1>10, <1>11, NoneInterned
<1> QED BY <1>1, <1>9, <1>12 DEF node, send

LEMMA UnaryDoes ==
  ASSUME NEW text, HasWords(text), NEW N \in Nat, NEW f, Steps(Spelled(text), N, f),
         NEW a \in 1..Count(text), NEW b \in a..Count(text), \A i \in a + 1..b : Kind(text, i) = "identifier",
         NEW n \in b - a..N
  PROVE  /\ Does(text, f[n][UnaryOf(text, a, b)], UnarySends(a, b))
         /\ InternsNo(f[n][UnaryOf(text, a, b)], "binary")
         /\ a = b => InternsNo(f[n][UnaryOf(text, a, b)], "unary")
<1> DEFINE code(k, i) == f[k][UnaryOf(text, a, i)]
           Is(k, i) == /\ Does(text, code(k, i), UnarySends(a, i)) /\ InternsNo(code(k, i), "binary")
                       /\ a = i => InternsNo(code(k, i), "unary")
           good == {i \in a..b : \A k \in i - a..N : Is(k, i)}
<1>1. a \in Nat /\ b \in Nat /\ a <= b /\ Count(text) \in Nat /\ b <= Count(text)
  BY DEF HasWords
<1>2. ASSUME NEW i \in a..b, NEW k \in i - a..N
      PROVE  code(k, i) = CompileNode(Spelled(text), UnaryOf(text, a, i), f[k - 1]) /\ k \in 0..N
  <2> DEFINE h == i - a
  <2>1. i \in a..Count(text) /\ k \in Nat /\ h \in 0..k /\ k \in 0..N
    BY <1>1
  <2>2. UnaryOf(text, a, i) \in Trees(h)
    BY <2>1, UnaryTree
  <2> HIDE DEF h
  <2>3. Trees(h) \subseteq Trees(k)
    BY <2>1, TreesUp
  <2>4. UnaryOf(text, a, i) \in Trees(k)
    BY <2>2, <2>3
  <2> QED BY <2>1, <2>4 DEF Steps
<1>3. a \in good
  <2>1. UnaryOf(text, a, a) = OperandAt(text, a) /\ UnarySends(a, a) = <<>> /\ a \in a..b
    <3>1. UnaryOf(text, a, a) = OperandAt(text, a)
      BY UnaryIs
    <3>2. UnarySends(a, a) = <<>>
      BY <1>1, UnarySendsGrow
    <3> QED BY <1>1, <3>1, <3>2
  <2>2. ASSUME NEW k \in a - a..N PROVE Is(k, a)
    <3>1. Neutral(text, code(k, a))
      BY <1>2, <2>1, OperandSendsNothing
    <3> QED BY <2>1, <3>1 DEF Neutral
  <2> HIDE DEF Is
  <2> QED BY <2>1, <2>2
<1>4. ASSUME NEW i \in a + 1..b, i - 1 \in good PROVE i \in good
  <2> DEFINE p == i - 1
  <2>1. p \in Nat /\ a <= p /\ i = p + 1 /\ i \in a..b /\ i \in a + 1..Count(text) /\ i \in 1..Count(text) /\ i # a
    BY <1>1
  <2>2. \A k \in p - a..N : Is(k, p)
    BY <1>4
  <2>3. UnaryOf(text, a, i) = <<"unary", StartOf(text, i), UnaryOf(text, a, p)>>
    BY <2>1, UnaryIs
  <2>4. \A k \in i - a..N : k - 1 \in p - a..N
    BY <1>1
  <2> HIDE DEF p
  <2>5. UnarySends(a, i) = UnarySends(a, p) \o <<Send("unary", i, p # a)>>
    BY <1>1, <2>1, UnarySendsGrow
  <2>6. ASSUME NEW k \in i - a..N PROVE Is(k, i)
    <3>1. Is(k - 1, p)
      BY <2>2, <2>4
    <3>2. code(k, i) = CompileNode(Spelled(text), <<"unary", StartOf(text, i), UnaryOf(text, a, p)>>, f[k - 1])
      BY <1>2, <2>1, <2>3
    <3>3. Does(text, code(k, i), UnarySends(a, p) \o <<Send("unary", i, p # a)>>) /\ InternsNo(code(k, i), "binary")
      BY <2>1, <3>1, <3>2, UnaryNode
    <3> QED BY <2>1, <2>5, <3>3
  <2> HIDE DEF Is
  <2> QED BY <2>1, <2>6
<1>5. b \in good
  <2> HIDE DEF good
  <2>1. \A i \in a..b : i \in good
    BY <1>1, <1>3, <1>4, Stepwise
  <2> QED BY <1>1, <2>1
<1>6. Is(n, b)
  <2> HIDE DEF Is
  <2> QED BY <1>5
<1> QED BY <1>6

\* Between operators and keywords there are names behind the first operand.
LEMMA NamesBetween ==
  ASSUME NEW text, NEW e \in Nat, KindFits(text, 1, e), NEW q \in 1..e, NEW b \in q..e,
         \A i \in q..b : Kind(text, i) \notin Splits
  PROVE  \A i \in q + 1..b : Kind(text, i) = "identifier"
<1>1. TAKE i \in q + 1..b
<1>2. i \in 1 + 1..e /\ i \in q..b /\ i - 1 \in q..b
  OBVIOUS
<1>3. Goes(Kind(text, i - 1), Kind(text, i)) /\ Kind(text, i) \notin Splits /\ Kind(text, i - 1) \notin Splits
  BY <1>2 DEF KindFits
<1> QED BY <1>3 DEF Goes

\* The code of a binary message, with that of its operands
LEMMA BinaryNode ==
  ASSUME NEW text, HasWords(text), NEW o \in 1..Count(text), Kind(text, o) = "binary", NEW compiled, NEW left, NEW right,
         NEW x, NEW y, NEW onSame, Does(text, compiled[left], x), Does(text, compiled[right], y),
         ~onSame => InternsNo(compiled[left], "binary")
  PROVE  Does(text, CompileNode(Spelled(text), <<"binary", Word(text, o)[1], left, right>>, compiled),
                    x \o <<Send("binary", o, onSame)>> \o y)
<1> DEFINE node == <<"binary", Word(text, o)[1], left, right>>  word == <<Word(text, o)[1]>>
           i == Intern("binary", word)  c == compiled[left]  l == Lookup("binary")
           r == compiled[right]  w == Emit(<<"SWAP">>)  d == Funcall(2)
           send == Send("binary", o, onSame)
<1>1. CompileNode(Spelled(text), node, compiled) = i \o c \o l \o r \o w \o d
  <2>1. node[1] = "binary" /\ <<node[2]>> = word /\ node[3] = left /\ node[4] = right
    OBVIOUS
  <2> HIDE DEF node, word
  <2> QED BY <2>1 DEF CompileNode
<1>2. /\ Does(text, i, <<>>) /\ LastInterned(i, Len(i) + 1, "binary", word)
      /\ Neutral(text, w) /\ Neutral(text, d)
  BY InternSendsNothing, InternIsLast, NeutralParts, Zenon DEF MessageKinds
<1>3. Said(text, send) => ~onSame /\ send.at = o
  BY DEF Said, Send
<1>4. word = Word(text, o)
  <2>1. KnownWord(Word(text, o), "binary") /\ Word(text, o) \in Seq(Signs)
    BY WordsKnown DEF HasWords
  <2>2. Len(Word(text, o)) = 1
    BY <2>1 DEF KnownWord
  <2> QED BY <2>1, <2>2
<1>5. Does(text, c, x) /\ Does(text, r, y) /\ (~onSame => InternsNo(c, "binary")) /\ IsSeq(c) /\ IsSeq(i)
  BY <1>2 DEF Does
<1> HIDE DEF node, word, i, c, l, r, w, d, send
<1>6. Does(text, i \o c, x)
  <2>1. Does(text, i \o c, <<>> \o x) /\ IsSeq(x)
    BY <1>2, <1>5, DoesBoth DEF Does
  <2> QED BY <2>1, EmptyIsSeq
<1>7. Said(text, send) => LastInterned(i \o c, Len(i \o c) + 1, "binary", Word(text, send.at))
  BY <1>2, <1>3, <1>4, <1>5, LastStays
<1>8. Does(text, (i \o c) \o l, x \o <<send>>)
  BY <1>6, <1>7, DoesLookup DEF l
<1>9. Does(text, ((i \o c) \o l) \o r, (x \o <<send>>) \o y)
  BY <1>5, <1>8, DoesBoth
<1>10. Does(text, (((i \o c) \o l) \o r) \o w, (x \o <<send>>) \o y)
  BY <1>2, <1>9, ThenNeutral
<1>11. Does(text, ((((i \o c) \o l) \o r) \o w) \o d, (x \o <<send>>) \o y)
  BY <1>2, <1>10, ThenNeutral
<1> QED BY <1>1, <1>11 DEF node, send

LEMMA OperatorsAre ==
  ASSUME NEW text, HasWords(text), NEW a \in 1..Count(text), NEW i \in a..Count(text)
  PROVE  \A j \in a..i : j \in OperatorsTo(text, a, i) <=> Kind(text, j) = "binary"
<1>1. \A j \in a..i : j \in 1..Count(text)
  BY DEF HasWords
<1> QED BY <1>1, TypesAre DEF OperatorsTo, Among

LEMMA BinaryDoes ==
  ASSUME NEW text, HasWords(text), NEW N \in Nat, NEW f, Steps(Spelled(text), N, f),
         NEW e \in 1..Count(text), KindFits(text, 1, e), NEW a \in 1..e, Kind(text, a) \in Operands,
         NEW b \in a..e, Kind(text, b) \in Operands, NoKeyword(text, a, b), NEW n \in b - a..N
  PROVE  Does(text, f[n][BinaryOf(text, a, b)], BinarySends(TypesOf(text), a, b))
<1> DEFINE code(k, i) == f[k][BinaryOf(text, a, i)]
           Is(k, i) == /\ Does(text, code(k, i), BinarySends(TypesOf(text), a, i))
                       /\ OperatorsTo(text, a, i) = {} => InternsNo(code(k, i), "binary")
           good == {i \in a..b : Kind(text, i) \in Operands => \A k \in i - a..N : Is(k, i)}
<1>1. /\ Count(text) \in Nat /\ a \in Nat /\ b \in Nat /\ a <= b /\ b <= e /\ e \in Nat /\ e <= Count(text)
      /\ a \in 1..Count(text) /\ Kind(text, a) # "binary"
  BY DEF HasWords, Operands
<1>2. ASSUME NEW i \in a..b, \A j \in a..i - 1 : j \in good, Kind(text, i) \in Operands, NEW k \in i - a..N PROVE Is(k, i)
  <2>1. i \in a..Count(text) /\ i \in Nat /\ i \in a..e /\ \A j \in a..i : Kind(text, j) # "keyword"
    BY <1>1 DEF NoKeyword
  <2> DEFINE o == SplitAt(text, a, i)
  <2>2. BinaryOf(text, a, i) = IF OperatorsTo(text, a, i) = {} THEN UnaryOf(text, a, i)
                               ELSE <<"binary", Word(text, o)[1], BinaryOf(text, a, o - 1), UnaryOf(text, o + 1, i)>>
    BY <1>1, <2>1, BinaryIs
  <2>3. BinarySends(TypesOf(text), a, i) =
          IF OperatorsTo(text, a, i) = {} THEN UnarySends(a, i)
          ELSE BinarySends(TypesOf(text), a, o - 1)
               \o <<Send("binary", o, OperatorsTo(text, a, o - 1) # {})>> \o UnarySends(o + 1, i)
    <3>1. HasWords(text) /\ a \in 1..Count(text) /\ Kind(text, a) # "binary" /\ i \in a..Count(text)
      BY <1>1, <2>1
    <3>2. BinarySends(TypesOf(text), a, i) = SendsUpTo(text, a, i)
      BY <3>1, BinarySendsAre
    <3> QED BY <3>2 DEF SendsUpTo
  <2>4. CASE OperatorsTo(text, a, i) = {}
    <3>1. \A j \in a..i : Kind(text, j) \notin Splits
      BY <1>1, <2>1, <2>4, OperatorsAre DEF Splits
    <3>2. \A j \in a + 1..i : Kind(text, j) = "identifier"
      BY <1>1, <2>1, <3>1, NamesBetween
    <3>3. Does(text, f[k][UnaryOf(text, a, i)], UnarySends(a, i)) /\ InternsNo(f[k][UnaryOf(text, a, i)], "binary")
      BY <1>1, <2>1, <3>2, UnaryDoes
    <3> QED BY <2>2, <2>3, <2>4, <3>3
  <2>5. CASE OperatorsTo(text, a, i) # {}
    <3>1. o \in a + 1..i /\ Kind(text, o) = "binary" /\ \A j \in o + 1..i : Kind(text, j) # "binary"
      BY <1>1, <2>1, <2>5, LastOperator
    <3> DEFINE node == BinaryOf(text, a, i)  onSame == OperatorsTo(text, a, o - 1) # {}
    <3>2. /\ node = <<"binary", Word(text, o)[1], BinaryOf(text, a, o - 1), UnaryOf(text, o + 1, i)>>
          /\ BinarySends(TypesOf(text), a, i) =
               BinarySends(TypesOf(text), a, o - 1) \o <<Send("binary", o, onSame)>> \o UnarySends(o + 1, i)
      BY <2>2, <2>3, <2>5
    <3>3. node \in Trees(k) /\ k \in 0..N
      <4> DEFINE h == i - a
      <4>1. h \in 0..k /\ k \in Nat /\ k \in 0..N
        BY <1>1, <2>1
      <4>2. node \in Trees(h)
        BY <1>2, <2>1, BinaryTree
      <4> HIDE DEF h, node
      <4>3. Trees(h) \subseteq Trees(k)
        BY <4>1, TreesUp
      <4> QED BY <4>1, <4>2, <4>3
    <3>4. code(k, i) = CompileNode(Spelled(text), node, f[k - 1])
      <4> HIDE DEF node
      <4>1. f[k][node] = CompileNode(Spelled(text), node, f[k - 1])
        BY <3>3 DEF Steps
      <4> QED BY <4>1 DEF node
    <3> HIDE DEF o
    <3> DEFINE p == o - 1  q == o + 1  m == k - 1
    <3>5. o # i /\ o \in 1 + 1..e
      BY <1>1, <1>2, <2>1, <3>1 DEF Operands
    <3>6. Kind(text, p) \in Operands
      <4>1. Goes(Kind(text, p), Kind(text, o))
        BY <3>5 DEF KindFits
      <4> QED BY <3>1, <4>1 DEF Goes
    <3>7. /\ p \in a..i - 1 /\ p \in a..b /\ q \in 1..Count(text) /\ q \in 1..e /\ i \in q..Count(text) /\ i \in q..e
          /\ m \in p - a..N /\ m \in i - q..N /\ o \in 1..Count(text) /\ i \in Nat
      BY <1>1, <2>1, <3>1, <3>5
    <3> HIDE DEF p, q, m
    <3>8. Is(m, p)
      BY <1>2, <3>6, <3>7
    <3>9. \A j \in q..i : Kind(text, j) \notin Splits
      <4>1. \A j \in q..i : j \in o + 1..i /\ j \in a..i
        BY <1>1, <3>1, <3>7 DEF q
      <4> QED BY <2>1, <3>1, <4>1 DEF Splits
    <3>10. \A j \in q + 1..i : Kind(text, j) = "identifier"
      BY <1>1, <3>7, <3>9, NamesBetween
    <3>11. Does(text, f[m][UnaryOf(text, q, i)], UnarySends(q, i))
      BY <3>7, <3>10, UnaryDoes
    <3> DEFINE left == BinaryOf(text, a, p)  right == UnaryOf(text, q, i)  same == OperatorsTo(text, a, p) # {}
               x == BinarySends(TypesOf(text), a, p)  y == UnarySends(q, i)
    <3>12. Does(text, f[m][left], x) /\ (~same => InternsNo(f[m][left], "binary")) /\ Does(text, f[m][right], y)
      BY <3>8, <3>11
    <3>13. /\ code(k, i) = CompileNode(Spelled(text), <<"binary", Word(text, o)[1], left, right>>, f[m])
           /\ BinarySends(TypesOf(text), a, i) = x \o <<Send("binary", o, same)>> \o y
      BY <3>2, <3>4 DEF p, q, m
    <3> HIDE DEF left, right, same, x, y
    <3>14. Does(text, CompileNode(Spelled(text), <<"binary", Word(text, o)[1], left, right>>, f[m]),
                      x \o <<Send("binary", o, same)>> \o y)
      BY <3>1, <3>7, <3>12, BinaryNode
    <3> QED BY <2>5, <3>13, <3>14
  <2> QED BY <2>4, <2>5
<1>3. \A i \in a..b : i \in good
  <2>1. ASSUME NEW i \in a..b, \A j \in a..i - 1 : j \in good PROVE i \in good
    <3> HIDE DEF Is
    <3> QED BY <1>2, <2>1
  <2> HIDE DEF good
  <2> QED BY <1>1, <2>1, Upwards
<1>4. Is(n, b)
  <2>1. b \in good
    <3> HIDE DEF good
    <3> QED BY <1>1, <1>3
  <2> HIDE DEF Is
  <2> QED BY <2>1
<1> QED BY <1>4

\* The arguments of a message are compiled in their order.
LEMMA ArgumentsDo ==
  ASSUME NEW text, NEW e \in Nat, NEW A, NEW B, NEW K, DOMAIN A = K, DOMAIN B = K, NEW compiled,
         \A i \in K : Does(text, compiled[A[i]], B[i])
  PROVE  Does(text, FlattenSeq([k \in DOMAIN InOrder(A, e) |-> compiled[InOrder(A, e)[k]]]), FlattenSeq(InOrder(B, e)))
<1>1. PICK n, h : Enumerates(h, n, {i \in K : i \in 1..e})
  BY Enumerated
<1>2. Enumerates(h, n, EnumeratesUpTo(A, e)) /\ Enumerates(h, n, EnumeratesUpTo(B, e))
  BY <1>1 DEF EnumeratesUpTo
<1> DEFINE a(k) == A[h[k]]  b(k) == B[h[k]]  as == InOrder(A, e)  x == InOrder(B, e)
           s == [k \in DOMAIN as |-> compiled[as[k]]]
<1>3. as = [k \in 1..n |-> a(k)] /\ x = [k \in 1..n |-> b(k)] /\ n \in Nat
  <2>1. InOrder(A, e) = [k \in 1..n |-> A[h[k]]]
    BY <1>2, InOrderOf
  <2>2. InOrder(B, e) = [k \in 1..n |-> B[h[k]]]
    BY <1>2, InOrderOf
  <2> QED BY <1>1, <2>1, <2>2 DEF Enumerates
<1>4. \A k \in 1..n : Does(text, compiled[a(k)], b(k))
  <2>1. \A k \in 1..n : h[k] \in K
    BY <1>1 DEF Enumerates
  <2> QED BY <2>1
<1> HIDE DEF a, b, as, x
<1> DEFINE c(k) == compiled[a(k)]
<1>5. s = [k \in 1..n |-> c(k)]
  BY <1>3
<1> HIDE DEF s, c
<1>6. Len(s) = n /\ Len(x) = n /\ s = [k \in 1..n |-> s[k]] /\ x = [k \in 1..n |-> x[k]]
  BY <1>3, <1>5
<1>7. \A k \in 1..n : Does(text, s[k], x[k])
  BY <1>3, <1>4, <1>5 DEF c
<1>8. Does(text, FlattenSeq(s), FlattenSeq(x))
  BY <1>3, <1>6, <1>7, FlatDoes
<1> QED BY <1>8 DEF s, x, as

\* The code of a keyword message, with that of its operands
LEMMA KeywordNode ==
  ASSUME NEW text, NEW names, NEW receiver, NEW arguments, NEW compiled, NEW at, NEW x, NEW y,
         Does(text, FlattenSeq([k \in DOMAIN arguments |-> compiled[arguments[k]]]), x), Does(text, compiled[receiver], y)
  PROVE  Does(text, CompileNode(Spelled(text), <<"keyword", names, receiver, arguments>>, compiled),
                    x \o y \o <<Send("keyword", at, FALSE)>>)
<1> DEFINE node == <<"keyword", names, receiver, arguments>>  word == KeywordText(Spelled(text), names)
           i == Intern("keyword", word)  a == FlattenSeq([k \in DOMAIN arguments |-> compiled[arguments[k]]])
           c == compiled[receiver]  l == Lookup("keyword")  d == Funcall(Len(arguments) + 1)
           send == Send("keyword", at, FALSE)
<1>1. CompileNode(Spelled(text), node, compiled) = i \o a \o c \o l \o d
  <2>1. node[1] = "keyword" /\ node[2] = names /\ node[3] = receiver /\ node[4] = arguments
    OBVIOUS
  <2> HIDE DEF node
  <2> QED BY <2>1 DEF CompileNode
<1>2. Does(text, i, <<>>) /\ Neutral(text, d)
  BY InternSendsNothing, NeutralParts, Zenon DEF MessageKinds
<1>3. ~Said(text, send)
  BY DEF Said, Overrun, Send
<1>4. Does(text, a, x) /\ Does(text, c, y)
  OBVIOUS
<1> HIDE DEF node, word, i, a, c, l, d, send
<1>5. Does(text, i \o a, x)
  <2>1. Does(text, i \o a, <<>> \o x) /\ IsSeq(x)
    BY <1>2, <1>4, DoesBoth DEF Does
  <2> QED BY <2>1, EmptyIsSeq
<1>6. Does(text, (i \o a) \o c, x \o y)
  BY <1>4, <1>5, DoesBoth
<1>7. Does(text, ((i \o a) \o c) \o l, (x \o y) \o <<send>>)
  BY <1>3, <1>6, DoesLookup DEF l
<1>8. Does(text, (((i \o a) \o c) \o l) \o d, (x \o y) \o <<send>>)
  BY <1>2, <1>7, ThenNeutral
<1> QED BY <1>1, <1>8 DEF node, send

LEMMA MessageDoes ==
  ASSUME NEW text, HasWords(text), NEW N \in Nat, NEW f, Steps(Spelled(text), N, f),
         NEW e \in 1..Count(text), KindFits(text, 1, e), e <= N
  PROVE  Does(text, f[N][MessageOf(text, 1, e)], Sends(TypesOf(text), 1, e))
<1> DEFINE K == Keywords(text, e)  low == Lowest(K)  m == N - 1  types == TypesOf(text)
           A == ArgumentsTo(text, e)  B == [i \in K |-> BinarySends(types, i + 1, Behind(K, i, e) - 1)]
           names == InOrder(NamesTo(text, e), e)
           node == MessageOf(text, 1, e)
<1>1. /\ Count(text) \in Nat /\ e \in Nat /\ e \in 0..Count(text) /\ 1 \in 1..e
      /\ Kind(text, 1) \in Operands /\ Kind(text, e) \in Operands
  BY DEF HasWords, KindFits
<1>2. K \in SUBSET (1..e) /\ \A i \in 1..e : i \in K <=> Kind(text, i) = "keyword"
  BY <1>1, KeywordsAre
<1>3. node = IF K = {} THEN BinaryOf(text, 1, e)
             ELSE <<"keyword", names, BinaryOf(text, 1, low - 1), InOrder(A, e)>>
  BY DEF MessageOf, Keywords, NamesTo, ArgumentsTo, TypesOf
<1>4. Sends(types, 1, e) = IF K = {} THEN BinarySends(types, 1, e)
                           ELSE FlattenSeq(InOrder(B, e)) \o BinarySends(types, 1, low - 1)
                                \o <<Send("keyword", low, FALSE)>>
  BY DEF Sends, Keywords
<1>5. DOMAIN A = K /\ DOMAIN B = K /\ \A i \in K : /\ A[i] = BinaryOf(text, i + 1, Behind(K, i, e) - 1)
                                                   /\ B[i] = BinarySends(types, i + 1, Behind(K, i, e) - 1)
  BY DEF ArgumentsTo
<1>6. node \in Trees(N)
  <2>1. e \in 0..N
    BY <1>1
  <2>2. node \in Trees(e)
    BY MessageTree
  <2> HIDE DEF node
  <2>3. Trees(e) \subseteq Trees(N)
    BY <2>1, TreesUp
  <2> QED BY <2>2, <2>3
<1>7. f[N][node] = CompileNode(Spelled(text), node, f[m])
  <2> HIDE DEF node
  <2>1. N \in 0..N
    OBVIOUS
  <2> QED BY <1>6, <2>1 DEF Steps
<1>8. \A i \in K : LET q == Behind(K, i, e)
                   IN /\ i \in 2..e - 1 /\ Kind(text, i - 1) \in Operands /\ Kind(text, i + 1) \in Operands
                      /\ q - 1 \in i + 1..e /\ Kind(text, q - 1) \in Operands /\ NoKeyword(text, i + 1, q - 1)
  BY ArgumentAt, Zenon
<1> HIDE DEF K, A, B, node, names
<1>9. CASE K = {}
  <2>1. NoKeyword(text, 1, e)
    BY <1>1, <1>2, <1>9 DEF NoKeyword
  <2>2. N \in e - 1..N /\ e \in 1..e
    BY <1>1
  <2>3. Does(text, f[N][BinaryOf(text, 1, e)], BinarySends(types, 1, e))
    BY <1>1, <2>1, <2>2, BinaryDoes
  <2> QED BY <1>3, <1>4, <1>9, <2>3 DEF node
<1>10. CASE K # {}
  <2>1. low \in K /\ \A j \in K : low <= j
    <3>1. \A j \in K : j \in Nat
      BY <1>2
    <3>2. K \in SUBSET Nat
      BY <3>1
    <3> QED BY <1>10, <3>2, LowestIs
  <2> HIDE DEF low
  <2>2. Does(text, f[m][BinaryOf(text, 1, low - 1)], BinarySends(types, 1, low - 1))
    <3> DEFINE p == low - 1
    <3>1. low \in 2..e - 1 /\ Kind(text, p) \in Operands
      BY <1>8, <2>1
    <3>2. p \in 1..e /\ m \in p - 1..N
      BY <1>1, <3>1
    <3>3. NoKeyword(text, 1, p)
      <4>1. \A j \in 1..p : j \in 1..e /\ ~(low <= j)
        BY <1>1, <3>1
      <4> QED BY <1>2, <2>1, <4>1 DEF NoKeyword
    <3> HIDE DEF p, m, types
    <3>4. Does(text, f[m][BinaryOf(text, 1, p)], BinarySends(TypesOf(text), 1, p))
      BY <1>1, <3>1, <3>2, <3>3, BinaryDoes
    <3> QED BY <3>4 DEF p, types
  <2>3. ASSUME NEW i \in K PROVE Does(text, f[m][A[i]], B[i])
    <3> DEFINE a == i + 1  b == Behind(K, i, e) - 1
    <3>1. /\ i \in 2..e - 1 /\ Kind(text, a) \in Operands
          /\ b \in a..e /\ Kind(text, b) \in Operands /\ NoKeyword(text, a, b)
      BY <1>8
    <3>2. A[i] = BinaryOf(text, a, b) /\ B[i] = BinarySends(types, a, b)
      BY <1>5
    <3>3. a \in 1..e /\ m \in b - a..N
      <4> HIDE DEF b
      <4> QED BY <1>1, <3>1
    <3> HIDE DEF a, b, m, types
    <3>4. Does(text, f[m][BinaryOf(text, a, b)], BinarySends(TypesOf(text), a, b))
      BY <3>1, <3>3, BinaryDoes
    <3> QED BY <3>2, <3>4 DEF types
  <2>4. Does(text, FlattenSeq([k \in DOMAIN InOrder(A, e) |-> f[m][InOrder(A, e)[k]]]), FlattenSeq(InOrder(B, e)))
    <3> HIDE DEF m
    <3> QED BY <1>1, <1>5, <2>3, ArgumentsDo
  <2> DEFINE receiver == BinaryOf(text, 1, low - 1)  y == BinarySends(types, 1, low - 1)
             arguments == InOrder(A, e)  x == FlattenSeq(InOrder(B, e))
  <2>5. node = <<"keyword", names, receiver, arguments>>
    BY <1>3, <1>10
  <2>6. Sends(types, 1, e) = x \o y \o <<Send("keyword", low, FALSE)>>
    BY <1>4, <1>10
  <2> HIDE DEF receiver, arguments, x, y, m
  <2>7. Does(text, CompileNode(Spelled(text), <<"keyword", names, receiver, arguments>>, f[m]),
                   x \o y \o <<Send("keyword", low, FALSE)>>)
    BY <2>2, <2>4, KeywordNode DEF receiver, arguments, x, y
  <2> QED BY <1>7, <2>5, <2>6, <2>7 DEF node
<1> QED BY <1>9, <1>10

\* What is to be done for a text sends what is written.
LEMMA TodoDoes ==
  ASSUME NEW text, WellWritten(text), ParseSource(Spelled(text)) # Aborted.node,
         NEW last \in {<<"HALT">>, <<"RET", 0>>}
  PROVE  Does(text, Todo(Spelled(text), ParseSource(Spelled(text)), last), Sends(TypesOf(text), 1, ReadTo(TypesOf(text))))
<1> DEFINE tokens == Tokenize(Spelled(text))  parse == ParseKeywordMessage(tokens, 1)  source == Spelled(text)
           ast == ParseSource(source)  N == Len(source)
<1>1. HasWords(text)
  BY WellWrittenHasWords
<1>2. Tokened(text, tokens)
  BY <1>1, TokensAreWords
<1> HIDE DEF tokens
<1>3. ReadsSource(text, parse)
  BY <1>1, <1>2, SourceRead
<1>4. parse.node = ast
  BY DEF ParseSource, tokens
<1> HIDE DEF parse
<1>5. PICK e \in 1..StopsAt(text) - 1 : parse = Parse(MessageOf(text, 1, e), e + 1) /\ EndsAt(text, e)
  <2>1. parse # Aborted
    BY <1>4
  <2> QED BY <1>3, <2>1 DEF ReadsSource
<1>6. e \in 1..Count(text) /\ Count(text) \in Nat /\ KindFits(text, 1, e)
  <2>1. StopsAt(text) \in 1..Count(text) + 1 /\ Count(text) \in Nat
    BY <1>1, StopIs DEF HasWords
  <2> QED BY <1>5, <2>1 DEF EndsAt
<1>7. ast = MessageOf(text, 1, e)
  BY <1>4, <1>5 DEF Parse
<1>8. ReadTo(TypesOf(text)) = e
  BY <1>1, <1>5, EndsThere
<1>9. N \in Nat /\ e <= N
  <2>1. N \in Nat /\ Count(text) <= N
    BY <1>1, WordsTakeRoom
  <2> HIDE DEF N
  <2> QED BY <1>6, <2>1
<1>10. PICK f : CompiledBy(source, N, f)
  BY <1>9, CompileIs, Zenon
<1>11. Steps(source, N, f)
  BY <1>9, <1>10, CompiledSteps
<1>12. CompileStExpr(source, ast) = f[N][ast]
  BY <1>10 DEF CompiledBy
<1>13. Does(text, f[N][MessageOf(text, 1, e)], Sends(TypesOf(text), 1, e))
  <2> HIDE DEF N
  <2> QED BY <1>1, <1>6, <1>9, <1>11, MessageDoes
<1>14. Todo(source, ast, last) = CompileStExpr(source, ast) \o Emit(last)
  BY DEF Todo
<1>15. Neutral(text, Emit(last))
  BY NeutralParts
<1> HIDE DEF ast, N, source
<1>16. Does(text, CompileStExpr(source, ast), Sends(TypesOf(text), 1, e))
  BY <1>7, <1>12, <1>13
<1>17. Does(text, CompileStExpr(source, ast) \o Emit(last), Sends(TypesOf(text), 1, e))
  BY <1>15, <1>16, ThenNeutral
<1> QED BY <1>8, <1>14, <1>17 DEF ast, source

-----------------------------------------------------------------------------
(***************************************************************************)
(* A compilation goes through what is to be done for its text.             *)
(***************************************************************************)
\* The instruction that an item has become, with the ID of what was interned last for it
Becomes(full, i, instruction, names) ==
  /\ full[i].do = "emit" => instruction = full[i].instruction
  /\ full[i].do = "push-selector" =>
       \E id : /\ instruction = <<"PUSH", "selector", id>>
               /\ \A word : LastInterned(full, i, full[i].kind, word) => <<StringOf(word, 0), id>> \in names

EmittedUpTo(full, p) == {i \in 1..p : full[i].do # "intern"}

CodeOf(full, p, code, names) ==
  /\ IsSeq(code)
  /\ \E f : /\ Enumerates(f, Len(code), EmittedUpTo(full, p))
            /\ \A c \in 1..Len(code) : Becomes(full, f[c], code[c], names)

SelectorsOf(full, p, selectors, names) ==
  /\ DOMAIN selectors = MessageKinds
  /\ \A kind, word : LastInterned(full, p + 1, kind, word) => <<StringOf(word, 0), selectors[kind]>> \in names

\* The first p items have been done.
DoneUpTo(full, p, c, names) ==
  /\ p \in 0..Len(full) /\ c.todo = SubSeq(full, p + 1, Len(full))
  /\ CodeOf(full, p, c.code, names) /\ SelectorsOf(full, p, c.selectors, names)

LEMMA BecomesStill ==
  ASSUME NEW full, NEW i, NEW instruction, NEW names, NEW more, names \subseteq more, Becomes(full, i, instruction, names)
  PROVE  Becomes(full, i, instruction, more)
BY DEF Becomes

\* What nothing was interned behind
LEMMA LastBack ==
  ASSUME NEW full, NEW p \in Nat, NEW q \in Nat, p <= q, \A i \in p + 1..q : full[i].do # "intern",
         NEW kind, NEW word, LastInterned(full, q + 1, kind, word)
  PROVE  LastInterned(full, p + 1, kind, word)
<1>1. PICK i \in 1..(q + 1) - 1 : /\ InternsAt(full, i, kind) /\ full[i].text = word
                                  /\ \A m \in i + 1..(q + 1) - 1 : ~InternsAt(full, m, kind)
  BY DEF LastInterned
<1>2. i \notin p + 1..q
  BY <1>1 DEF InternsAt
<1>3. i \in 1..(p + 1) - 1 /\ \A m \in i + 1..(p + 1) - 1 : m \in i + 1..(q + 1) - 1
  BY <1>2
<1> QED BY <1>1, <1>3 DEF LastInterned

LEMMA RestOf ==
  ASSUME NEW full, IsSeq(full), NEW p \in 0..Len(full)
  PROVE  LET todo == SubSeq(full, p + 1, Len(full))
         IN /\ IsSeq(todo) /\ Len(full) \in Nat /\ Len(todo) = Len(full) - p
            /\ \A i \in 1..Len(todo) : todo[i] = full[p + i]
<1> DEFINE n == Len(full)  todo == SubSeq(full, p + 1, n)
<1>1. PICK S : full \in Seq(S)
  BY Zenon DEF IsSeq
<1>2. n \in Nat /\ p \in Nat /\ p <= n /\ p + 1 \in Nat
  BY <1>1, LenProperties
<1>3. \A i \in p + 1..n : full[i] \in S
  <2>1. \A i \in 1..n : full[i] \in S
    BY <1>1, ElementOfSeq
  <2>2. \A i \in p + 1..n : i \in 1..n
    BY <1>2
  <2> QED BY <2>1, <2>2
<1> HIDE DEF n
<1>4. /\ todo \in Seq(S) /\ Len(todo) = IF p + 1 <= n THEN n - (p + 1) + 1 ELSE 0
      /\ \A i \in 1..n - (p + 1) + 1 : todo[i] = full[p + 1 + i - 1]
  BY <1>2, <1>3, SubSeqProperties
<1> HIDE DEF todo
<1>5. Len(todo) = n - p /\ n - (p + 1) + 1 = n - p
  BY <1>2, <1>4
<1>6. \A i \in 1..n - p : p + 1 + i - 1 = p + i
  BY <1>2
<1>7. IsSeq(todo)
  BY <1>4, Zenon DEF IsSeq
<1> QED BY <1>2, <1>4, <1>5, <1>6, <1>7 DEF todo, n

LEMMA RestOfRest ==
  ASSUME NEW full, IsSeq(full), NEW p \in 0..Len(full), NEW d \in 0..Len(full) - p
  PROVE  LET todo == SubSeq(full, p + 1, Len(full))
         IN p + d \in 0..Len(full) /\ SubSeq(todo, d + 1, Len(todo)) = SubSeq(full, (p + d) + 1, Len(full))
<1> DEFINE n == Len(full)  todo == SubSeq(full, p + 1, n)  l == Len(todo)  q == p + d
           rest == SubSeq(todo, d + 1, l)  later == SubSeq(full, q + 1, n)
<1>1. IsSeq(todo) /\ n \in Nat /\ l = n - p /\ \A i \in 1..l : todo[i] = full[p + i]
  BY RestOf
<1>2. q \in 0..n /\ d \in 0..l
  BY <1>1
<1>3. IsSeq(rest) /\ Len(rest) = l - d /\ \A i \in 1..Len(rest) : rest[i] = todo[d + i]
  <2> HIDE DEF todo
  <2> QED BY <1>1, <1>2, RestOf
<1>4. IsSeq(later) /\ Len(later) = n - q /\ \A i \in 1..Len(later) : later[i] = full[q + i]
  <2> HIDE DEF q
  <2> QED BY <1>2, RestOf
<1> HIDE DEF todo, rest, later, n, l
<1>5. Len(rest) = Len(later)
  BY <1>1, <1>2, <1>3, <1>4
<1>6. \A i \in 1..Len(rest) : rest[i] = later[i]
  <2>1. TAKE i \in 1..Len(rest)
  <2> DEFINE j == d + i
  <2>2. j \in 1..l /\ p + j = q + i
    BY <1>1, <1>2, <1>3
  <2>3. rest[i] = todo[j]
    BY <1>3
  <2> HIDE DEF j, q
  <2>4. todo[j] = full[p + j]
    BY <1>1, <2>2
  <2>5. later[i] = full[q + i]
    BY <1>4, <1>5
  <2> QED BY <2>2, <2>3, <2>4, <2>5
<1>7. PICK S : rest \in Seq(S)
  BY <1>3, Zenon DEF IsSeq
<1>8. PICK T : later \in Seq(T)
  BY <1>4, Zenon DEF IsSeq
<1>9. rest \in Seq(S \cup T) /\ later \in Seq(S \cup T)
  BY <1>7, <1>8, SeqMonotonic
<1>10. rest = later
  BY <1>5, <1>6, <1>9, SeqEqual
<1> QED BY <1>2, <1>10 DEF rest, later, n, l, todo

\* Nothing is done at first.
LEMMA DoneNothing ==
  ASSUME NEW full, IsSeq(full), NEW c, c.todo = full, c.code = <<>>, DOMAIN c.selectors = MessageKinds, NEW names
  PROVE  DoneUpTo(full, 0, c, names)
<1>1. Len(full) \in Nat /\ 0 \in 0..Len(full)
  BY LengthIs
<1>2. SubSeq(full, 0 + 1, Len(full)) = full
  <2>1. PICK S : full \in Seq(S)
    BY Zenon DEF IsSeq
  <2> DEFINE t == SubSeq(full, 0 + 1, Len(full))
  <2>2. IsSeq(t) /\ Len(t) = Len(full) - 0 /\ \A i \in 1..Len(t) : t[i] = full[0 + i]
    BY <1>1, RestOf
  <2> HIDE DEF t
  <2>3. PICK T : t \in Seq(T)
    BY <2>2, Zenon DEF IsSeq
  <2>4. full \in Seq(S \cup T) /\ t \in Seq(S \cup T)
    BY <2>1, <2>3, SeqMonotonic
  <2>5. Len(t) = Len(full) /\ \A i \in 1..Len(t) : t[i] = full[i]
    BY <1>1, <2>2
  <2>6. t = full
    BY <2>4, <2>5, SeqEqual
  <2> QED BY <2>6 DEF t
<1>3. CodeOf(full, 0, c.code, names)
  <2>1. EmittedUpTo(full, 0) = {}
    BY DEF EmittedUpTo
  <2>2. Len(c.code) = 0 /\ IsSeq(c.code)
    BY EmptyIsSeq, EmptySeq
  <2>3. Enumerates(<<>>, Len(c.code), EmittedUpTo(full, 0))
    BY <2>1, <2>2 DEF Enumerates
  <2>4. \A k \in 1..Len(c.code) : FALSE
    BY <2>2
  <2> QED BY <2>2, <2>3, <2>4, Zenon DEF CodeOf
<1>4. SelectorsOf(full, 0, c.selectors, names)
  BY DEF SelectorsOf, LastInterned
<1> QED BY <1>1, <1>2, <1>3, <1>4 DEF DoneUpTo

\* The instruction that the compiler makes of an item
Makes(item, instruction, selectors) ==
  /\ item.do = "emit" => instruction = item.instruction
  /\ item.do = "push-selector" => instruction = <<"PUSH", "selector", selectors[item.kind]>>

\* Items up to the next selector are done.
LEMMA DoneEmitting ==
  ASSUME NEW full, IsSeq(full), NEW p, NEW c, NEW names, DoneUpTo(full, p, c, names),
         NEW d \in 0..Len(c.todo), \A i \in 1..d : c.todo[i].do # "intern",
         NEW more, IsSeq(more), Len(more) = d, \A i \in 1..d : Makes(c.todo[i], more[i], c.selectors),
         NEW e, e.todo = SubSeq(c.todo, d + 1, Len(c.todo)), e.code = c.code \o more, e.selectors = c.selectors
  PROVE  DoneUpTo(full, p + d, e, names)
<1> DEFINE n == Len(full)  code == c.code  lc == Len(code)  q == p + d  all == code \o more  todo == c.todo
<1>1. /\ p \in 0..n /\ todo = SubSeq(full, p + 1, n)
      /\ CodeOf(full, p, code, names) /\ SelectorsOf(full, p, c.selectors, names)
  BY DEF DoneUpTo
<1>2. n \in Nat /\ Len(todo) = n - p /\ \A i \in 1..Len(todo) : todo[i] = full[p + i]
  <2> HIDE DEF n
  <2>1. p \in 0..Len(full) /\ todo = SubSeq(full, p + 1, Len(full))
    BY <1>1 DEF n
  <2> QED BY <2>1, RestOf DEF n
<1>3. d \in 0..n - p /\ q \in 0..n /\ p \in Nat /\ d \in Nat /\ p <= q
  BY <1>1, <1>2
<1>4. e.todo = SubSeq(full, q + 1, n)
  <2>1. SubSeq(todo, d + 1, Len(todo)) = SubSeq(full, q + 1, n)
    BY <1>1, <1>3, RestOfRest
  <2> QED BY <2>1
<1>5. \A i \in 1..d : full[p + i].do # "intern" /\ Makes(full[p + i], more[i], c.selectors)
  <2>1. TAKE i \in 1..d
  <2>2. i \in 1..Len(todo)
    BY <1>2, <1>3
  <2>3. todo[i] = full[p + i]
    BY <1>2, <2>2
  <2> QED BY <2>3
<1>6. /\ IsSeq(all) /\ lc \in Nat /\ Len(all) = lc + d
      /\ \A i \in 1..lc : all[i] = code[i]
      /\ \A i \in 1..d : all[lc + i] = more[i]
  <2>1. IsSeq(code)
    BY <1>1 DEF CodeOf
  <2>2. /\ IsSeq(all) /\ lc \in Nat /\ Len(all) = lc + Len(more)
        /\ \A i \in 1..lc : all[i] = code[i]
        /\ \A i \in 1..Len(more) : all[lc + i] = more[i]
    <3> HIDE DEF code
    <3> QED BY ONLY <2>1, IsSeq(more), JoinedItems
  <2> HIDE DEF all, lc, code
  <2> QED BY <2>2
<1>7. PICK f : Enumerates(f, lc, EmittedUpTo(full, p)) /\ \A k \in 1..lc : Becomes(full, f[k], code[k], names)
  BY <1>1 DEF CodeOf
<1> HIDE DEF n, code, lc, q, all, todo
<1>8. \A j \in p + 1..q : full[j].do # "intern"
  <2>1. TAKE j \in p + 1..q
  <2> DEFINE i == j - p
  <2>2. i \in 1..d /\ p + i = j
    BY <1>3 DEF q
  <2> HIDE DEF i
  <2> QED BY <1>5, <2>2
<1>9. ASSUME NEW j \in p..q, NEW kind, NEW word, LastInterned(full, j + 1, kind, word)
      PROVE  <<StringOf(word, 0), c.selectors[kind]>> \in names
  <2>1. j \in Nat /\ p <= j /\ \A i \in p + 1..j : i \in p + 1..q
    BY <1>3
  <2>2. LastInterned(full, p + 1, kind, word)
    BY <1>3, <1>8, <1>9, <2>1, LastBack
  <2> QED BY <1>1, <2>2 DEF SelectorsOf
<1>10. SelectorsOf(full, q, e.selectors, names)
  <2>1. q \in p..q
    BY <1>3
  <2> QED BY <1>1, <1>9, <2>1 DEF SelectorsOf
<1>11. ASSUME NEW i \in 1..d PROVE Becomes(full, p + i, more[i], names)
  <2> DEFINE j == (p + i) - 1
  <2>1. j \in p..q /\ j + 1 = p + i
    BY <1>3 DEF q
  <2> HIDE DEF j
  <2>2. \A kind, word : LastInterned(full, p + i, kind, word) => <<StringOf(word, 0), c.selectors[kind]>> \in names
    BY <1>9, <2>1
  <2>3. Makes(full[p + i], more[i], c.selectors)
    BY <1>5
  <2> QED BY <2>2, <2>3 DEF Becomes, Makes
<1> DEFINE h == [k \in 1..lc + d |-> IF k <= lc THEN f[k] ELSE p + (k - lc)]
<1>12. \A k \in 1..lc : h[k] = f[k]
  BY <1>3, <1>6
<1>13. \A k \in 1..d : h[lc + k] = p + k
  <2>1. TAKE k \in 1..d
  <2> DEFINE r == lc + k
  <2>2. r \in 1..lc + d /\ ~(r <= lc) /\ r - lc = k
    BY <1>3, <1>6
  <2> HIDE DEF r
  <2>3. h[r] = p + k
    BY <2>2
  <2> QED BY <2>3 DEF r
<1> HIDE DEF h
<1>14. /\ \A k \in 1..lc : f[k] \in 1..p /\ full[f[k]].do # "intern"
       /\ \A k, l \in 1..lc : k < l => f[k] < f[l]
       /\ \A r \in 1..p : full[r].do # "intern" => \E k \in 1..lc : f[k] = r
  BY <1>7 DEF Enumerates, EmittedUpTo
<1>15. Enumerates(h, lc + d, EmittedUpTo(full, q))
  <2>1. \A k \in 1..lc + d : h[k] \in 1..q /\ full[h[k]].do # "intern"
    <3>1. TAKE k \in 1..lc + d
    <3>2. CASE k \in 1..lc
      BY <1>3, <1>12, <1>14, <3>2
    <3>3. ASSUME NEW j \in 1..d, k = lc + j PROVE h[k] \in 1..q /\ full[h[k]].do # "intern"
      BY <1>3, <1>5, <1>13, <3>3 DEF q
    <3> QED BY <1>3, <1>6, <3>2, <3>3, Either
  <2>2. \A k, l \in 1..lc + d : k < l => h[k] < h[l]
    <3>1. TAKE k, l \in 1..lc + d
    <3>2. HAVE k < l
    <3>3. CASE l \in 1..lc
      <4>1. k \in 1..lc
        BY <1>6, <3>2, <3>3
      <4> QED BY <1>12, <1>14, <3>2, <3>3, <4>1
    <3>4. ASSUME NEW j \in 1..d, l = lc + j PROVE h[k] < h[l]
      <4>1. h[l] = p + j
        BY <1>13, <3>4
      <4>2. CASE k \in 1..lc
        <5>1. h[k] \in 1..p
          BY <1>12, <1>14, <4>2
        <5> QED BY <1>3, <4>1, <5>1
      <4>3. ASSUME NEW i \in 1..d, k = lc + i PROVE h[k] < h[l]
        <5>1. h[k] = p + i /\ i < j
          BY <1>6, <1>13, <3>2, <3>4, <4>3
        <5> QED BY <1>3, <4>1, <5>1
      <4> QED BY <1>3, <1>6, <4>2, <4>3, Either
    <3> QED BY <1>3, <1>6, <3>3, <3>4, Either
  <2>3. \A r \in EmittedUpTo(full, q) : \E k \in 1..lc + d : h[k] = r
    <3>1. TAKE r \in EmittedUpTo(full, q)
    <3>2. r \in 1..p + d /\ full[r].do # "intern"
      BY DEF EmittedUpTo, q
    <3>3. CASE r \in 1..p
      <4>1. PICK k \in 1..lc : f[k] = r
        BY <1>14, <3>2, <3>3
      <4>2. k \in 1..lc + d
        BY <1>3, <1>6
      <4> QED BY <1>12, <4>1, <4>2
    <3>4. ASSUME NEW j \in 1..d, r = p + j PROVE \E k \in 1..lc + d : h[k] = r
      <4>1. lc + j \in 1..lc + d
        BY <1>6
      <4> QED BY <1>13, <3>4, <4>1
    <3> QED BY <1>3, <3>2, <3>3, <3>4, Either
  <2>4. lc + d \in Nat
    BY <1>3, <1>6
  <2> QED BY <2>1, <2>2, <2>3, <2>4 DEF Enumerates, EmittedUpTo
<1>16. ASSUME NEW k \in 1..lc + d PROVE Becomes(full, h[k], all[k], names)
  <2>1. CASE k \in 1..lc
    BY <1>6, <1>7, <1>12, <2>1
  <2>2. ASSUME NEW j \in 1..d, k = lc + j PROVE Becomes(full, h[k], all[k], names)
    BY <1>6, <1>11, <1>13, <2>2
  <2> QED BY <1>3, <1>6, <2>1, <2>2, Either
<1>17. CodeOf(full, q, all, names)
  BY <1>6, <1>15, <1>16 DEF CodeOf
<1>18. e.code = all
  BY DEF all, code
<1> QED BY <1>3, <1>4, <1>10, <1>17, <1>18 DEF DoneUpTo, q, n

\* A text is interned: its ID is the selector for messages of its kind.
LEMMA DoneInterning ==
  ASSUME NEW full, IsSeq(full), NEW p, NEW c, NEW names, DoneUpTo(full, p, c, names), c.todo # <<>>,
         c.todo[1].do = "intern", c.todo[1].kind \in MessageKinds, NEW id,
         NEW e, e.todo = Tail(c.todo), e.code = c.code, e.selectors = [c.selectors EXCEPT ![c.todo[1].kind] = id]
  PROVE  DoneUpTo(full, p + 1, e, names \cup {<<StringOf(c.todo[1].text, 0), id>>})
<1> DEFINE n == Len(full)  todo == c.todo  q == p + 1  item == todo[1]  more == names \cup {<<StringOf(item.text, 0), id>>}
<1>1. /\ p \in 0..n /\ todo = SubSeq(full, p + 1, n)
      /\ CodeOf(full, p, c.code, names) /\ SelectorsOf(full, p, c.selectors, names)
  BY DEF DoneUpTo
<1>2. n \in Nat /\ Len(todo) = n - p /\ IsSeq(todo) /\ \A i \in 1..Len(todo) : todo[i] = full[p + i]
  <2> HIDE DEF n
  <2>1. p \in 0..Len(full) /\ todo = SubSeq(full, p + 1, Len(full))
    BY <1>1 DEF n
  <2> QED BY <2>1, RestOf DEF n
<1>3. Len(todo) # 0 /\ Tail(todo) = SubSeq(todo, 1 + 1, Len(todo))
  <2>1. PICK S : todo \in Seq(S)
    BY <1>2, Zenon DEF IsSeq
  <2> HIDE DEF todo
  <2>2. todo # <<>>
    BY DEF todo
  <2>3. Tail(todo) = SubSeq(todo, 2, Len(todo))
    BY <2>1, <2>2, TailIsSubSeq
  <2> QED BY <2>1, <2>2, <2>3, EmptySeq
<1>4. 1 \in 0..n - p /\ q \in 0..n /\ p \in Nat /\ 1 \in 1..Len(todo)
  BY <1>1, <1>2, <1>3
<1>5. e.todo = SubSeq(full, q + 1, n)
  <2>1. SubSeq(todo, 1 + 1, Len(todo)) = SubSeq(full, q + 1, n)
    BY <1>1, <1>4, RestOfRest
  <2> QED BY <1>3, <2>1
<1>6. item = full[q]
  BY <1>2, <1>4
<1>7. item.do = "intern" /\ item.kind \in MessageKinds /\ names \subseteq more
  OBVIOUS
<1>8. /\ DOMAIN c.selectors = MessageKinds
      /\ \A kind, word : LastInterned(full, p + 1, kind, word) => <<StringOf(word, 0), c.selectors[kind]>> \in names
  BY <1>1 DEF SelectorsOf
<1>9. /\ DOMAIN e.selectors = MessageKinds /\ e.selectors[item.kind] = id
      /\ \A kind : kind \in MessageKinds /\ kind # item.kind => e.selectors[kind] = c.selectors[kind]
  BY <1>7, <1>8
<1>10. <<StringOf(item.text, 0), id>> \in more
  OBVIOUS
<1>11. CodeOf(full, q, c.code, more)
  <2>1. EmittedUpTo(full, q) = EmittedUpTo(full, p)
    <3>1. \A i \in 1..q : i \in 1..p \/ i = q
      BY <1>4
    <3>2. \A i \in 1..p : i \in 1..q
      BY <1>4
    <3> HIDE DEF q, item
    <3> QED BY <1>6, <1>7, <3>1, <3>2 DEF EmittedUpTo
  <2> HIDE DEF more
  <2> QED BY <1>1, <1>7, <2>1, BecomesStill DEF CodeOf
<1> HIDE DEF item, more
<1>12. ASSUME NEW kind, NEW word, LastInterned(full, q + 1, kind, word)
       PROVE  <<StringOf(word, 0), e.selectors[kind]>> \in more
  <2>1. PICK i \in 1..(q + 1) - 1 : /\ InternsAt(full, i, kind) /\ full[i].text = word
                                    /\ \A m \in i + 1..(q + 1) - 1 : ~InternsAt(full, m, kind)
    BY <1>12 DEF LastInterned
  <2>2. CASE i = q
    BY <1>6, <1>9, <1>10, <2>1, <2>2 DEF InternsAt
  <2>3. CASE i # q
    <3>1. i \in 1..(p + 1) - 1 /\ q \in i + 1..(q + 1) - 1 /\ \A m \in i + 1..(p + 1) - 1 : m \in i + 1..(q + 1) - 1
      BY <1>4, <2>3
    <3>2. LastInterned(full, p + 1, kind, word)
      BY <2>1, <3>1 DEF LastInterned
    <3>3. <<StringOf(word, 0), c.selectors[kind]>> \in names
      BY <1>8, <3>2
    <3>4. ~InternsAt(full, q, kind)
      BY <2>1, <3>1
    <3>5. kind # item.kind
      BY <1>6, <1>7, <3>4 DEF InternsAt
    <3>6. kind \in MessageKinds => e.selectors[kind] = c.selectors[kind]
      BY <1>9, <3>5
    <3> QED BY <1>7, <3>3, <3>6
  <2> QED BY <2>2, <2>3
<1>13. SelectorsOf(full, q, e.selectors, more)
  BY <1>9, <1>12 DEF SelectorsOf
<1> QED BY <1>4, <1>5, <1>11, <1>13 DEF DoneUpTo, q, n, more, item

-----------------------------------------------------------------------------
(***************************************************************************)
(* The code pushes the selectors that are written.                         *)
(***************************************************************************)
\* Where the instructions that push selectors are
LEMMA SelectorPlaces ==
  ASSUME NEW full, Plain(full), NEW code, NEW names, NEW f,
         Enumerates(f, Len(code), EmittedUpTo(full, Len(full))),
         \A c \in 1..Len(code) : Becomes(full, f[c], code[c], names),
         NEW c \in 1..Len(code)
  PROVE  PushesSelector(code[c]) <=> f[c] \in PushesAt(full)
<1> DEFINE i == f[c]
<1>1. i \in 1..Len(full) /\ full[i].do # "intern" /\ Becomes(full, i, code[c], names)
  BY DEF Enumerates, EmittedUpTo
<1> HIDE DEF i
<1>2. PlainItem(full[i])
  BY <1>1 DEF Plain
<1>3. CASE full[i].do = "emit"
  <2>1. ~PushesSelector(code[c])
    BY <1>1, <1>2, <1>3 DEF PlainItem, Becomes
  <2> QED BY <1>3, <2>1 DEF PushesAt, i
<1>4. CASE full[i].do = "push-selector"
  <2>1. PICK id : code[c] = <<"PUSH", "selector", id>>
    BY <1>1, <1>4 DEF Becomes
  <2>2. PushesSelector(code[c])
    BY <2>1 DEF PushesSelector
  <2> QED BY <1>1, <1>4, <2>2 DEF PushesAt, i
<1> QED BY <1>1, <1>2, <1>3, <1>4 DEF PlainItem

LEMMA CodeSends ==
  ASSUME NEW text, NEW full, NEW sends, Does(text, full, sends),
         NEW code, NEW names, CodeOf(full, Len(full), code, names)
  PROVE  LET pushed == PushedSelectors(code)
         IN /\ Len(pushed) = Len(sends)
            /\ \A k \in 1..Len(sends) :
                 Said(text, sends[k]) => <<StringOf(Word(text, sends[k].at), 0), pushed[k]>> \in names
<1> DEFINE n == Len(full)  lc == Len(code)  ls == Len(sends)
           V == [i \in {j \in DOMAIN code : PushesSelector(code[j])} |-> code[i][3]]
           pushed == PushedSelectors(code)
<1>1. PICK f : /\ Enumerates(f, lc, EmittedUpTo(full, n))
               /\ \A c \in 1..lc : Becomes(full, f[c], code[c], names)
  BY DEF CodeOf
<1>2. PICK g : /\ Enumerates(g, ls, PushesAt(full))
               /\ \A k \in 1..ls :
                    Said(text, sends[k]) => LastInterned(full, g[k], full[g[k]].kind, Word(text, sends[k].at))
  BY DEF Does, Pushes
<1>3. \A c \in 1..lc : PushesSelector(code[c]) <=> f[c] \in PushesAt(full)
  BY <1>1, SelectorPlaces DEF Does
<1>4. n \in Nat /\ lc \in Nat /\ DOMAIN code = 1..lc /\ ls \in Nat
  BY LengthIs DEF Does, CodeOf
<1>5. /\ \A c \in 1..lc : f[c] \in 1..n
      /\ \A c, d \in 1..lc : c < d => f[c] < f[d]
      /\ \A i \in 1..n : full[i].do # "intern" => \E c \in 1..lc : f[c] = i
  BY <1>1 DEF Enumerates, EmittedUpTo
<1>6. /\ \A k \in 1..ls : g[k] \in PushesAt(full)
      /\ \A k, l \in 1..ls : k < l => g[k] < g[l]
      /\ \A i \in PushesAt(full) : \E k \in 1..ls : g[k] = i
  BY <1>2 DEF Enumerates
<1>7. \A i \in PushesAt(full) : i \in 1..n /\ full[i].do = "push-selector"
  BY DEF PushesAt
<1> DEFINE h == [k \in 1..ls |-> CHOOSE c \in 1..lc : f[c] = g[k]]
<1>8. \A k \in 1..ls : h[k] \in 1..lc /\ f[h[k]] = g[k]
  <2>1. TAKE k \in 1..ls
  <2>2. \E c \in 1..lc : f[c] = g[k]
    BY <1>5, <1>6, <1>7
  <2> QED BY <2>2
<1> HIDE DEF h, n, lc, ls
<1>9. /\ DOMAIN V = {c \in 1..lc : PushesSelector(code[c])}
      /\ \A c \in 1..lc : PushesSelector(code[c]) => V[c] = code[c][3]
  BY <1>4
<1>10. EnumeratesUpTo(V, lc) = {c \in 1..lc : PushesSelector(code[c])}
  BY <1>9 DEF EnumeratesUpTo
<1>11. PushedSelectors(code) = InOrder(V, lc)
  BY DEF PushedSelectors, lc
<1> HIDE DEF V, pushed
<1>12. Enumerates(h, ls, EnumeratesUpTo(V, lc))
  <2>1. \A k \in 1..ls : h[k] \in 1..lc /\ PushesSelector(code[h[k]])
    BY <1>3, <1>6, <1>8
  <2>2. ASSUME NEW k \in 1..ls, NEW l \in 1..ls, k < l PROVE h[k] < h[l]
    <3>1. f[h[k]] < f[h[l]] /\ h[k] \in 1..lc /\ h[l] \in 1..lc
      BY <1>6, <1>8, <2>2
    <3>2. CASE h[k] = h[l]
      BY <1>5, <3>1, <3>2
    <3>3. CASE h[l] < h[k]
      <4>1. f[h[l]] < f[h[k]] /\ f[h[k]] \in 1..n /\ f[h[l]] \in 1..n
        BY <1>5, <3>1, <3>3
      <4> QED BY <1>4, <3>1, <4>1
    <3> QED BY <1>4, <3>1, <3>2, <3>3
  <2>3. ASSUME NEW c \in 1..lc, PushesSelector(code[c]) PROVE \E k \in 1..ls : h[k] = c
    <3>1. PICK k \in 1..ls : g[k] = f[c]
      BY <1>3, <1>6, <2>3
    <3>2. h[k] \in 1..lc /\ f[h[k]] = f[c]
      BY <1>8, <3>1
    <3> DEFINE d == h[k]
    <3>3. d \in 1..lc /\ f[d] = f[c] /\ f[c] \in 1..n
      BY <1>5, <3>2
    <3> HIDE DEF d
    <3>4. d = c
      BY <1>4, <1>5, <3>3
    <3> QED BY <3>4 DEF d
  <2> QED BY <1>4, <1>10, <2>1, <2>2, <2>3 DEF Enumerates
<1>13. pushed = [k \in 1..ls |-> V[h[k]]] /\ Len(pushed) = ls
  BY <1>4, <1>11, <1>12, InOrderOf DEF pushed
<1>14. ASSUME NEW k \in 1..ls, Said(text, sends[k])
       PROVE  <<StringOf(Word(text, sends[k].at), 0), pushed[k]>> \in names
  <2> DEFINE c == h[k]  i == g[k]  word == Word(text, sends[k].at)
  <2>1. c \in 1..lc /\ f[c] = i /\ i \in PushesAt(full) /\ pushed[k] = V[c]
    BY <1>6, <1>8, <1>13
  <2>2. LastInterned(full, i, full[i].kind, word)
    BY <1>2, <1>14
  <2> HIDE DEF c, i, word
  <2>3. full[i].do = "push-selector" /\ Becomes(full, i, code[c], names) /\ V[c] = code[c][3]
    BY <1>1, <1>3, <1>7, <1>9, <2>1
  <2>4. PICK id : code[c] = <<"PUSH", "selector", id>> /\ <<StringOf(word, 0), id>> \in names
    BY <2>2, <2>3 DEF Becomes
  <2>5. V[c] = id
    BY <2>3, <2>4
  <2> QED BY <2>1, <2>4, <2>5 DEF word
<1> QED BY <1>13, <1>14, Zenon DEF pushed, ls

-----------------------------------------------------------------------------
(***************************************************************************)
(* How far a compilation is, while the image works.                        *)
(***************************************************************************)
LastInstructions == {<<"HALT">>, <<"RET", 0>>}

Far(c, names) == \E last, p : last \in LastInstructions /\ DoneUpTo(Todo(Spelled(c.text), c.ast, last), p, c, names)

InternsFor(c) ==
  /\ c.todo # <<>> /\ c.todo[1].do = "intern"
  /\ call.subject = StringOf(c.todo[1].text, 0)

SendsInv ==
  Compiling =>
    /\ compilation.ast # Aborted.node => Far(compilation, interned)
    /\ ~Idle => InternsFor(compilation)

LEMMA ParsedFields ==
  ASSUME NEW c, Parsed(c)
  PROVE  c.text \in Texts /\ c.ast = ParseSource(Spelled(c.text))
<1>1. PICK op, text, todo, selectors, code :
        text \in Texts /\ c = Record(op, text, ParseSource(Spelled(text)), todo, selectors, code)
  BY Zenon DEF Parsed
<1> DEFINE ast == ParseSource(Spelled(text))
<1> HIDE DEF ast
<1>2. c = Record(op, text, ast, todo, selectors, code)
  BY <1>1 DEF ast
<1>3. c.text = text /\ c.ast = ast
  BY <1>2 DEF Record
<1> QED BY <1>1, <1>3 DEF ast

LEMMA LaterFields ==
  ASSUME NEW c, Parsed(c), NEW todo
  PROVE  /\ \A code : LET d == [c EXCEPT !.todo = todo, !.code = code]
                      IN d.text = c.text /\ d.ast = c.ast /\ d.todo = todo /\ d.code = code /\ d.selectors = c.selectors
         /\ \A kind, id : LET d == [c EXCEPT !.selectors[kind] = id, !.todo = todo]
                          IN /\ d.text = c.text /\ d.ast = c.ast /\ d.todo = todo /\ d.code = c.code
                             /\ d.selectors = [c.selectors EXCEPT ![kind] = id]
<1>1. PICK op, text, todo0, selectors, code0 :
        text \in Texts /\ c = Record(op, text, ParseSource(Spelled(text)), todo0, selectors, code0)
  BY Zenon DEF Parsed
<1> DEFINE ast == ParseSource(Spelled(text))
<1> HIDE DEF ast
<1>2. c = [op |-> op, text |-> text, ast |-> ast, todo |-> todo0, selectors |-> selectors, code |-> code0]
  BY <1>1 DEF Record, ast
<1> QED BY <1>2

\* What is to be done for a tree
LEMMA TodoOf ==
  ASSUME NEW c, Parsed(c), c.ast # Aborted.node, NEW last \in LastInstructions
  PROVE  Does(c.text, Todo(Spelled(c.text), c.ast, last), Sends(TypesOf(c.text), 1, ReadTo(TypesOf(c.text))))
<1>1. c.text \in Texts /\ c.ast = ParseSource(Spelled(c.text))
  BY ParsedFields
<1>2. WellWritten(c.text)
  BY <1>1, TextsAssumption
<1>3. last \in {<<"HALT">>, <<"RET", 0>>}
  BY DEF LastInstructions
<1> DEFINE text == c.text
<1> HIDE DEF text
<1>4. Does(text, Todo(Spelled(text), ParseSource(Spelled(text)), last), Sends(TypesOf(text), 1, ReadTo(TypesOf(text))))
  BY <1>1, <1>2, <1>3, TodoDoes DEF text
<1> QED BY <1>1, <1>4 DEF text

LEMMA FarBeginning ==
  ASSUME NEW text \in Texts, NEW last \in LastInstructions, CompileSmalltalk(text, last)
  PROVE  SendsInv'
<1> DEFINE c == Compilation(text, last)
<1>1. compilation' = c /\ Idle /\ UNCHANGED <<call, interned>>
  BY DEF CompileSmalltalk
<1>2. Idle'
  BY <1>1 DEF Idle
<1>3. /\ c.text = text /\ c.ast = ParseSource(Spelled(text)) /\ c.todo = Todo(Spelled(text), c.ast, last)
      /\ c.selectors = [kind \in {"unary", "binary", "keyword"} |-> NULL] /\ c.code = <<>>
  <2> DEFINE ast == ParseSource(Spelled(text))  todo == Todo(Spelled(text), ast, last)
  <2>1. c = [op |-> "compile", text |-> text, ast |-> ast, todo |-> todo,
             selectors |-> [kind \in {"unary", "binary", "keyword"} |-> NULL], code |-> <<>>]
    BY Zenon DEF Compilation
  <2> HIDE DEF ast, todo, c
  <2>2. /\ c.text = text /\ c.ast = ast /\ c.todo = todo
        /\ c.selectors = [kind \in {"unary", "binary", "keyword"} |-> NULL] /\ c.code = <<>>
    BY <2>1
  <2> QED BY <2>2, Zenon DEF ast, todo
<1>4. Parsed(c)
  BY CompilationParsed
<1> HIDE DEF c
<1>5. ASSUME c.ast # Aborted.node PROVE Far(c, interned)
  <2> DEFINE full == Todo(Spelled(c.text), c.ast, last)
  <2>1. IsSeq(full)
    BY <1>4, <1>5, TodoOf DEF Does
  <2>2. c.todo = full
    BY <1>3
  <2> HIDE DEF full
  <2>3. DOMAIN c.selectors = MessageKinds
    BY <1>3 DEF MessageKinds
  <2>4. DoneUpTo(full, 0, c, interned)
    BY <1>3, <2>1, <2>2, <2>3, DoneNothing
  <2> QED BY <2>4, Zenon DEF Far, full
<1> QED BY <1>1, <1>2, <1>5 DEF SendsInv

LEMMA FarEmitting ==
  ASSUME BusyInv, SendsInv, EmitCode
  PROVE  SendsInv'
<1> DEFINE c == compilation  todo == c.todo
           ends == {i \in DOMAIN todo : todo[i].do = "intern"} \cup {Len(todo) + 1}
           n == Lowest(ends) - 1
           rest == SubSeq(todo, n + 1, Len(todo))
           more == [i \in 1..n |-> Emitted(todo[i])]
           code == c.code \o more
<1>1. /\ Compiling /\ Idle /\ Idle' /\ UNCHANGED <<call, interned>>
      /\ Parsed(c) /\ TodoSound(todo)
  BY DEF EmitCode, BusyInv, imageVars, Idle
<1>2. compilation' = [c EXCEPT !.todo = rest, !.code = code]
  BY Zenon DEF EmitCode
<1>3. n \in 0..Len(todo) /\ \A i \in 1..n : todo[i].do # "intern"
  <2>1. Len(todo) \in Nat /\ DOMAIN todo = 1..Len(todo)
    BY <1>1, LengthIs DEF TodoSound
  <2> DEFINE l == Len(todo)
  <2> HIDE DEF l, todo
  <2>2. ends \in SUBSET (1..l + 1) /\ l + 1 \in ends /\ l \in Nat
    BY <2>1 DEF l
  <2>3. \A i \in 1..l : todo[i].do = "intern" => i \in ends
    BY <2>1 DEF l
  <2> HIDE DEF ends
  <2>4. Lowest(ends) \in ends /\ \A j \in ends : Lowest(ends) <= j
    <3>1. ends \in SUBSET Nat /\ ends # {}
      BY <2>2
    <3> QED BY <3>1, LowestIs
  <2> DEFINE low == Lowest(ends)
  <2>5. low \in 1..l + 1 /\ \A j \in ends : low <= j
    BY <2>2, <2>4
  <2>6. n = low - 1
    OBVIOUS
  <2> HIDE DEF low, n
  <2>7. n \in 0..l /\ \A i \in 1..n : i \in 1..l /\ ~(low <= i)
    BY <2>2, <2>5, <2>6
  <2>8. \A i \in 1..n : todo[i].do # "intern"
    BY <2>3, <2>5, <2>7
  <2> QED BY <2>7, <2>8 DEF l
<1> HIDE DEF n
<1>4. IsSeq(more) /\ Len(more) = n
  <2> DEFINE x(i) == Emitted(todo[i])  S == {x(i) : i \in 1..n}
  <2> HIDE DEF x
  <2>1. n \in Nat
    BY <1>1, <1>3, LengthIs DEF TodoSound
  <2>2. [i \in 1..n |-> x(i)] \in Seq(S) /\ Len([i \in 1..n |-> x(i)]) = n
    BY <2>1
  <2> HIDE DEF S
  <2>3. more \in Seq(S) /\ Len(more) = n
    BY <2>2, Zenon DEF x
  <2> QED BY <2>3, Zenon DEF IsSeq
<1>5. \A i \in 1..n : Makes(todo[i], more[i], c.selectors)
  <2>1. TAKE i \in 1..n
  <2> DEFINE item == todo[i]
  <2>2. more[i] = Emitted(item)
    OBVIOUS
  <2> HIDE DEF more, item
  <2> QED BY <2>2 DEF Makes, Emitted, item
<1> HIDE DEF rest, more, code
<1>6. /\ compilation'.text = c.text /\ compilation'.ast = c.ast /\ compilation'.todo = rest
      /\ compilation'.code = code /\ compilation'.selectors = c.selectors
  <2>1. Parsed(c)
    BY <1>1
  <2> QED BY <1>2, <2>1, LaterFields
<1>7. ASSUME c.ast # Aborted.node PROVE Far(compilation', interned)
  <2>1. PICK last, p : last \in LastInstructions /\ DoneUpTo(Todo(Spelled(c.text), c.ast, last), p, c, interned)
    BY <1>1, <1>7 DEF SendsInv, Far
  <2> DEFINE full == Todo(Spelled(c.text), c.ast, last)  e == compilation'
  <2>2. IsSeq(full)
    <3>1. Parsed(c)
      BY <1>1
    <3> QED BY <1>7, <2>1, <3>1, TodoOf DEF Does
  <2>3. DoneUpTo(full, p, c, interned)
    BY <2>1
  <2> HIDE DEF full
  <2>4. e.todo = SubSeq(c.todo, n + 1, Len(c.todo)) /\ e.code = c.code \o more /\ e.selectors = c.selectors
    BY <1>6 DEF rest, code
  <2> HIDE DEF e
  <2>5. DoneUpTo(full, p + n, e, interned)
    <3> HIDE DEF c
    <3> QED BY <1>3, <1>4, <1>5, <2>2, <2>3, <2>4, DoneEmitting
  <2>6. full = Todo(Spelled(e.text), e.ast, last)
    BY <1>6 DEF full, e
  <2> QED BY <2>1, <2>5, <2>6, Zenon DEF Far, e
<1> QED BY <1>1, <1>6, <1>7 DEF SendsInv

LEMMA FarInterning ==
  ASSUME BusyInv, SendsInv, CompileInterns
  PROVE  SendsInv'
<1>1. /\ Compiling /\ compilation.todo # <<>> /\ compilation.todo[1].do = "intern"
      /\ UNCHANGED <<compilation, interned>>
  BY DEF CompileInterns, Doing, Interning
<1>2. call'.subject = StringOf(compilation.todo[1].text, 0)
  <2> DEFINE s == StringOf(compilation.todo[1].text, 0)
  <2>1. Interning(s)
    BY DEF CompileInterns, Doing
  <2> HIDE DEF s
  <2>2. \E stores, answer : call' = [op |-> "intern", subject |-> s, stores |-> stores, answer |-> answer]
    BY <2>1 DEF Interning, Enter
  <2>3. call'.subject = s
    BY <2>2
  <2> QED BY <2>3 DEF s
<1> QED BY <1>1, <1>2 DEF SendsInv, Compiling, InternsFor

LEMMA FarInterned ==
  ASSUME BusyInv, SendsInv, CompileInterned
  PROVE  SendsInv'
<1> DEFINE c == compilation  todo == c.todo  kind == todo[1].kind  id == call.answer  names == interned
           rest == Tail(todo)
<1>1. /\ Compiling /\ ~Idle /\ Idle' /\ Parsed(c) /\ InternsFor(c)
      /\ interned' = interned \cup {<<call.subject, id>>}
  BY DEF CompileInterned, BusyInv, SendsInv, Interned, Returns, Idle
<1>2. compilation' = [c EXCEPT !.selectors[kind] = id, !.todo = rest]
  BY Zenon DEF CompileInterned, Doing
<1>3. todo # <<>> /\ todo[1].do = "intern" /\ interned' = names \cup {<<StringOf(todo[1].text, 0), id>>}
  BY <1>1 DEF InternsFor
<1> HIDE DEF rest, kind, id
<1>4. /\ compilation'.text = c.text /\ compilation'.ast = c.ast /\ compilation'.todo = rest
      /\ compilation'.code = c.code /\ compilation'.selectors = [c.selectors EXCEPT ![kind] = id]
  <2>1. Parsed(c)
    BY <1>1
  <2> QED BY <1>2, <2>1, LaterFields
<1>5. ASSUME c.ast # Aborted.node PROVE Far(compilation', interned')
  <2>1. PICK last, p : last \in LastInstructions /\ DoneUpTo(Todo(Spelled(c.text), c.ast, last), p, c, names)
    BY <1>1, <1>5 DEF SendsInv, Far
  <2> DEFINE full == Todo(Spelled(c.text), c.ast, last)  e == compilation'
  <2>2. IsSeq(full) /\ Plain(full)
    <3>1. Parsed(c)
      BY <1>1
    <3> QED BY <1>5, <2>1, <3>1, TodoOf DEF Does
  <2>3. DoneUpTo(full, p, c, names)
    BY <2>1
  <2> HIDE DEF full
  <2>4. e.todo = Tail(c.todo) /\ e.code = c.code /\ e.selectors = [c.selectors EXCEPT ![c.todo[1].kind] = id]
    BY <1>4 DEF rest, kind
  <2> HIDE DEF e, names
  <2>5. c.todo # <<>> /\ c.todo[1].do = "intern"
    BY <1>3
  <2> HIDE DEF c
  <2>6. c.todo[1].kind \in MessageKinds
    <3>1. p \in 0..Len(full) /\ c.todo = SubSeq(full, p + 1, Len(full))
      BY <2>3 DEF DoneUpTo
    <3>2. /\ IsSeq(c.todo) /\ Len(full) \in Nat /\ Len(c.todo) = Len(full) - p
          /\ \A i \in 1..Len(c.todo) : c.todo[i] = full[p + i]
      BY <2>2, <3>1, RestOf
    <3>3. Len(c.todo) # 0
      <4>1. PICK S : c.todo \in Seq(S)
        BY <3>2, Zenon DEF IsSeq
      <4> QED BY <2>5, <4>1, EmptySeq
    <3>4. 1 \in 1..Len(c.todo) /\ p + 1 \in 1..Len(full)
      BY <3>1, <3>2, <3>3
    <3>5. c.todo[1] = full[p + 1]
      BY <3>2, <3>4
    <3>6. PlainItem(full[p + 1])
      BY <2>2, <3>4 DEF Plain
    <3> QED BY <2>5, <3>5, <3>6 DEF PlainItem
  <2>7. DoneUpTo(full, p + 1, e, names \cup {<<StringOf(c.todo[1].text, 0), id>>})
    BY <2>2, <2>3, <2>4, <2>5, <2>6, DoneInterning
  <2>8. full = Todo(Spelled(e.text), e.ast, last)
    BY <1>4 DEF full, e, c
  <2>9. interned' = names \cup {<<StringOf(c.todo[1].text, 0), id>>}
    BY <1>3 DEF c, names
  <2> QED BY <2>1, <2>7, <2>8, <2>9, Zenon DEF Far, e
<1> QED BY <1>1, <1>4, <1>5 DEF SendsInv

LEMMA SendsNext == ASSUME BothInv, SendsInv, [Next]_vars PROVE SendsInv'
<1>1. BusyInv
  BY DEF BothInv
<1>2. ASSUME NEW text \in Texts, NEW last \in {<<"HALT">>, <<"RET", 0>>}, CompileSmalltalk(text, last)
      PROVE  SendsInv'
  BY <1>2, FarBeginning DEF LastInstructions
<1>3. CASE EmitCode
  BY <1>1, <1>3, FarEmitting
<1>4. CASE CompileInterns
  BY <1>1, <1>4, FarInterning
<1>5. CASE CompileInterned
  BY <1>1, <1>5, FarInterned
<1>6. CASE Store /\ Compiling /\ UNCHANGED <<interned, compilation>>
  <2>1. Shape /\ CallSound
    BY DEF BothInv, RoomInv, NamesInv
  <2>2. /\ call' = [op |-> call.op, subject |-> call.subject, stores |-> Tail(call.stores), answer |-> call.answer]
        /\ ~Idle
    BY <1>6, <2>1, Storing
  <2>3. call'.subject = call.subject
    BY <2>2
  <2> QED BY <1>6, <2>2, <2>3 DEF SendsInv, Compiling, InternsFor
<1>7. CASE Compiled \/ StopCompilation
  BY <1>7 DEF Compiled, StopCompilation, SendsInv, Compiling
<1>8. CASE ~Compiling /\ RuntimeNext /\ UNCHANGED compilation
  BY <1>8 DEF SendsInv, Compiling
<1>9. CASE UNCHANGED vars
  BY <1>9 DEF vars, runtimeVars, imageVars, SendsInv, Compiling, Idle, InternsFor
<1> QED BY <1>2, <1>3, <1>4, <1>5, <1>6, <1>7, <1>8, <1>9 DEF Next, CompilerStep

LEMMA SendsAre == ASSUME BothInv, SendsInv PROVE SendsAsWritten
<1>1. SUFFICES ASSUME Compiling, compilation.todo = <<>>, compilation.ast # Aborted.node PROVE SendsAsWritten
  BY DEF SendsAsWritten
<1> DEFINE c == compilation  text == c.text  sends == Sends(TypesOf(text), 1, ReadTo(TypesOf(text)))
           pushed == PushedSelectors(c.code)
<1>2. Parsed(c)
  BY <1>1 DEF BothInv, BusyInv
<1>3. PICK last, p : last \in LastInstructions /\ DoneUpTo(Todo(Spelled(text), c.ast, last), p, c, interned)
  BY <1>1 DEF SendsInv, Far
<1> DEFINE full == Todo(Spelled(text), c.ast, last)
<1>4. Does(text, full, sends)
  BY <1>1, <1>2, <1>3, TodoOf
<1>5. DoneUpTo(full, p, c, interned)
  BY <1>3
<1> HIDE DEF full, sends
<1>6. CodeOf(full, Len(full), c.code, interned)
  <2>1. p \in 0..Len(full) /\ c.todo = SubSeq(full, p + 1, Len(full)) /\ CodeOf(full, p, c.code, interned)
    BY <1>5 DEF DoneUpTo
  <2>2. Len(full) \in Nat /\ Len(c.todo) = Len(full) - p
    BY <1>4, <2>1, RestOf DEF Does
  <2>3. Len(c.todo) = 0
    BY <1>1, EmptySeq
  <2>4. p = Len(full)
    BY <2>1, <2>2, <2>3
  <2> QED BY <2>1, <2>4
<1>7. /\ Len(pushed) = Len(sends)
      /\ \A k \in 1..Len(sends) :
           Said(text, sends[k]) => <<StringOf(Word(text, sends[k].at), 0), pushed[k]>> \in interned
  BY <1>4, <1>6, CodeSends
<1>8. DOMAIN sends = 1..Len(sends)
  BY <1>4, LengthIs DEF Does
<1>9. AllNamed
  BY DEF BothInv, RoomInv, NamesInv
<1> HIDE DEF pushed
<1>10. ASSUME NEW k \in DOMAIN sends, ~Overrun(text, sends[k]), ~sends[k].onSame
       PROVE  SymbolName(pushed[k]).chars = text.words[sends[k].at]
  <2> DEFINE word == Word(text, sends[k].at)  s == StringOf(word, 0)
  <2>1. <<s, pushed[k]>> \in interned
    BY <1>7, <1>8, <1>10 DEF Said
  <2>2. s.chars = word
    BY DEF StringOf
  <2> HIDE DEF s, word
  <2>3. SymbolName(pushed[k]).chars = s.chars
    BY <1>9, <2>1 DEF AllNamed, Named
  <2> QED BY <2>2, <2>3 DEF word, Word
<1> HIDE DEF c
<1>11. /\ Len(pushed) = Len(sends)
       /\ \A k \in DOMAIN sends :
            ~Overrun(text, sends[k]) /\ ~sends[k].onSame => SymbolName(pushed[k]).chars = text.words[sends[k].at]
  BY <1>7, <1>10
<1> QED BY <1>11, Zenon DEF SendsAsWritten, pushed, sends, c, TypesOf

\* The code sends one message for each of the text, with the selector that is written
\* there, but for the named exceptions: whatever was interned before, or left half-way by
\* a compilation that was stopped, and whatever the runtime does meanwhile.
THEOREM SendsWhatIsWritten == Spec => []SendsAsWritten
<1>1. Init => SendsInv
  BY DEF Init, SendsInv, Compiling
<1>2. BothInv /\ SendsInv /\ [Next]_vars => SendsInv'
  BY SendsNext
<1>3. BothInv /\ SendsInv => SendsAsWritten
  BY SendsAre
<1> QED BY <1>1, <1>2, <1>3, BothAlways, PTL DEF Spec
=============================================================================
