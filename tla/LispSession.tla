---------------------------- MODULE LispSession -----------------------------
(***************************************************************************)
(* The REPL of main.cpp with its compiler and its machine: the expressions *)
(* of a script are compiled one after another, each with the symbols of    *)
(* those before, and executed behind their code; strings they evaluate are *)
(* compiled and executed in their middle.  Beside them runs the meaning of *)
(* the script.  No signals arrive here; StackVM has these.                 *)
(***************************************************************************)
EXTENDS StackVM, LispCompiler, LispMeaning

CONSTANTS STRING_TABLE_START, VAR_START,
          Scripts,   \* sequences of trees
          Limit      \* bound: instructions of one execution, 1000000 in the code

VARIABLES symbols, next_var, next_string,
          compiler,   \* of the expression that runs, or Idle
          script,     \* the expressions that are left
          intended    \* history: what everything submitted so far means

allocators == <<symbols, next_var, next_string>>
sessionVars == <<allocators, compiler, script, intended>>
everything == <<vars, sessionVars>>

Idle == [refused |-> TRUE]
Running == compiler # Idle

SessionInit ==
  /\ Init /\ eval_ctx
  /\ symbols = Empty /\ next_var = VAR_START /\ next_string = STRING_TABLE_START
  /\ compiler = Idle /\ script \in Scripts /\ intended = Blank

NewCompiler == Compiler(symbols, next_var, next_string, next_code)
HeadCompiled == CompileProgram(NewCompiler, Head(script))

ToLoad(c) == [code |-> c.bytecode, data |-> LiteralData(c)]

\* An expression that does not compile changes nothing.
RefuseHead ==
  /\ phase = "idle" /\ ~Running /\ script # <<>> /\ HeadCompiled.refused
  /\ script' = Tail(script)
  /\ UNCHANGED <<vars, allocators, compiler, intended>>

\* compile_and_execute(): reset, load, and start
Submit ==
  /\ phase = "idle" /\ ~Running /\ script # <<>>
  /\ LET c == HeadCompiled IN
       /\ ~c.refused /\ Fits(ToLoad(c), next_code)
       /\ compiler' = c
       /\ memory' = Loaded(ToLoad(c), next_code)
       /\ next_code' = next_code + Len(c.bytecode)
  /\ ip' = next_code /\ sp' = STACK_BASE /\ bp' = STACK_BASE
  /\ running' = TRUE /\ hit_instruction_limit' = FALSE
  /\ signal_count' = [s \in Signals |-> 0]
  /\ instruction_count' = 0 /\ max_instructions' = Limit
  /\ phase' = "loop" /\ exception' = "none"
  /\ intended' = Means(Begun(intended), Head(script))
  /\ script' = Tail(script)
  /\ UNCHANGED <<hp, interrupt_flag, signal_handlers, eval_ctx, host_calls,
                 allocators>>

EvaluatesString == Fetching /\ Op \in {"EVAL", "COMPILE"} /\ At(Op) /\ IsString(Top(0))

StringAt(adr) ==
  [i \in 1..memory[adr] |->
     Bits(ByteShift(i - 1), BYTE_BITS, memory[adr + 1 + ((i - 1) \div BYTES_PER_WORD)])]

\* compile_code_for_call(), in the middle of an execution: what the string defines is
\* known at once, but not to the expression that runs.
EvalString ==
  /\ EvaluatesString
  /\ LET text == StringAt(Top(0))
         c == CompileAsFunction(NewCompiler, Texts[text])
     IN \/ /\ text \in DOMAIN Texts => c.refused
           /\ Reject("RuntimeError", 1) /\ UNCHANGED <<next_code, allocators>>
        \/ /\ text \in DOMAIN Texts /\ ~c.refused
           /\ CallCompiled(Op, ToLoad(c))
           /\ IF Fits(ToLoad(c), next_code)
              THEN /\ symbols' = Merge(symbols, c.exported_symbols)
                   /\ next_var' = c.next_var_address
                   /\ next_string' = c.next_string_address
              ELSE UNCHANGED allocators
  /\ UNCHANGED <<bp, hp, running, interruptVars, limitVars, eval_ctx, host_calls,
                 compiler, script, intended>>

Run == ~EvaluatesString /\ Execution /\ UNCHANGED sessionVars

\* Fault: the next variable's address stays.
KeepSymbols == symbols' = Merge(symbols, compiler.exported_symbols) /\ UNCHANGED next_var

\* The execution returned.
Keep == /\ symbols' = Merge(symbols, compiler.exported_symbols)
        /\ next_var' = compiler.next_var_address

Finish ==
  /\ phase = "idle" /\ Running /\ exception = "none"
  /\ Keep
  /\ next_string' = compiler.next_string_address
  /\ compiler' = Idle
  /\ intended' = Shared(intended)
  /\ UNCHANGED <<vars, script>>

\* The execution threw: what it stored remains, what it defined is forgotten.
GiveUp ==
  /\ phase = "idle" /\ Running /\ exception # "none"
  /\ compiler' = Idle
  /\ intended' = [intended EXCEPT !.error = "none"]
  /\ UNCHANGED <<vars, allocators, script>>

SessionNext == RefuseHead \/ Submit \/ Run \/ EvalString \/ Finish \/ GiveUp

SessionSpec == SessionInit /\ [][SessionNext]_everything /\ WF_everything(SessionNext)

-----------------------------------------------------------------------------
Ended == phase = "idle" /\ Running

\* The machine computes what the expression means: it fails where the meaning fails,
\* and otherwise leaves the value, alone on the stack, with no frame open.
ComputesMeaning ==
  Ended =>
    /\ exception = intended.error /\ ~hit_instruction_limit
    /\ exception = "none" =>
         sp = STACK_BASE - 1 /\ bp = STACK_BASE /\ memory[sp] = intended.value

\* Between expressions every global has its value, at the address of its symbol:
\* scopes, calls, literals and failures of earlier and later expressions included.
GlobalsHoldValues ==
  ~Running =>
    /\ DOMAIN intended.shared.globals = OfKind(symbols, "variable")
    /\ \A x \in OfKind(symbols, "variable") :
         memory[symbols[x].address] = Stored(intended, intended.shared.globals[x])

\* Only compiled code is executed: jumps, calls and returns never leave it, and no
\* path runs off its end.
StaysInCode == Fetching => ip < next_code

\* "Register the interrupt handler" (lisp_compiler.hpp:1390): the handlers that an
\* expression defines are registered when it has been executed.
HandlersRegistered ==
  Ended /\ exception = "none" =>
    \A s \in DOMAIN compiler.interrupts : signal_handlers[s] # 0

\* "Set Finds Variables in Any Scope" (docs/VARIABLES.md:201): a set that compiles
\* stores its value, the parameters of a function included.
SetFindsVariables == Ended => exception # "InvalidBPStoreIndex"
=============================================================================
