--------------------------- MODULE SmalltalkImage ----------------------------
(***************************************************************************)
(* The Smalltalk runtime with its compiler, which interns in it: while a   *)
(* text is compiled, no expression makes other calls.                      *)
(***************************************************************************)
EXTENDS SmalltalkCompiler, SmalltalkRuntime

vars == <<runtimeVars, compilation>>

Init == RuntimeInit /\ compilation = NoCompilation

CompilerStep ==
  \/ \E text \in Texts, last \in {<<"HALT">>, <<"RET", 0>>} : CompileSmalltalk(text, last)
  \/ EmitCode
  \/ CompileInterns
  \/ Store /\ Compiling /\ UNCHANGED <<interned, compilation>>
  \/ CompileInterned
  \/ Compiled
  \/ StopCompilation

Next ==
  \/ ~Compiling /\ RuntimeNext /\ UNCHANGED compilation
  \/ CompilerStep /\ UNCHANGED methodVars

Spec == Init /\ [][Next]_vars
=============================================================================
