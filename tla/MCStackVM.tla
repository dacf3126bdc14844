----------------------------- MODULE MCStackVM -----------------------------
(***************************************************************************)
(* StackVM on words of six bits, two bytes to a word, and 31 words of      *)
(* memory: 0..13 code, 14 globals, 15..22 heap and stack, 23..30 above the *)
(* stack.  The stack holds seven words.                                    *)
(***************************************************************************)
EXTENDS StackVM, TLC

Assembled(instruction) == <<OpcodeNumber[instruction[1]]>> \o Tail(instruction)

RECURSIVE Bytecode(_)
Bytecode(instructions) ==
  IF instructions = <<>> THEN <<>>
  ELSE Assembled(instructions[1]) \o Bytecode(Tail(instructions))

\* The states after the host has loaded one of these programs into a new machine.
InitLoaded(programs, contexts) ==
  \E p \in programs :
    /\ memory = [a \in Addr |->
         CASE a \in DOMAIN p.data -> p.data[a]
           [] a < Len(p.code) -> p.code[a + 1]
           [] OTHER -> 0]
    /\ ip = 0 /\ sp = STACK_BASE /\ bp = STACK_BASE /\ hp = HEAP_START
    /\ running = TRUE /\ interrupt_flag = TRUE
    /\ signal_handlers = [s \in Signals |-> 0]
    /\ signal_count = [s \in Signals |-> 0]
    /\ instruction_count = 0 /\ max_instructions = 0 /\ hit_instruction_limit = FALSE
    /\ eval_ctx \in contexts
    /\ next_code = Len(p.code)
    /\ phase = "idle" /\ exception = "none" /\ host_calls = 0

NoData == [a \in {} |-> 0]
Asm(instructions) == [code |-> Bytecode(instructions), data |-> NoData]

(***************************************************************************)
(* Every instruction, after every small stack it could find.               *)
(***************************************************************************)
Values == {0, 1, 2, 17, 22, 40}
Targets == {0, 5, 30, 31}

NoOperand == {<<op>> : op \in {i \in Instructions : OperandCount(i) = 0}}
OneOperand == {"PUSH", "JMP", "JZ"} \X Targets
              \cup {"ENTER", "LEAVE", "RET"} \X {0, 1, 2, 9}
TwoOperands == {"CALL"} \X Targets \X {0, 1, 2, 9}
EveryInstruction == NoOperand \cup OneOperand \cup TwoOperands

Prefixes ==
  {<<>>}
  \cup {<<<<"PUSH", a>>, <<"PUSH", b>>>> : a \in Values, b \in Values}
  \cup {<<<<"ENTER", n>>, <<"PUSH", a>>>> : n \in {1, 4, 5, 6, 7}, a \in {0, 1}}

Seconds == {<<"HALT">>, <<"BP_STORE">>, <<"LEAVE", 1>>, <<"RET", 1>>, <<"CALL", 0, 2>>}

\* A PUSH stored in the last word of memory has no operand.
AtTheEnd == <<<<"PUSH", OpcodeNumber["PUSH"]>>, <<"PUSH", 30>>, <<"STORE">>, <<"JMP", 30>>>>

\* An opcode nobody defined.
Undefined == [code |-> <<50>>, data |-> NoData]

InstructionPrograms ==
  {Asm(p \o <<i, j>>) : p \in Prefixes, i \in EveryInstruction, j \in Seconds}
  \cup {Asm(AtTheEnd), Undefined}

(***************************************************************************)
(* Strings, evaluation and system calls.                                   *)
(***************************************************************************)
\* A string of two bytes at 14 (its character word at 15), one that starts in
\* the last word, and one whose length leads out of memory.
StringData == (14 :> 2) @@ (15 :> 9) @@ (29 :> 3) @@ (30 :> 2)
WithStrings(instructions) == [code |-> Bytecode(instructions), data |-> StringData]

StringAddresses == {14, 29, 30, 40}

Pushes(words) == [i \in DOMAIN words |-> <<"PUSH", words[i]>>]

SystemCalls ==
  {<<0, a, 0, 0>> : a \in {0, 1}}
  \cup {<<1, 1, f>> : f \in {2, 3, 5, 6}}
  \cup {<<a, 1, 2, 2>> : a \in StringAddresses}
  \cup {<<0, b, c, 3, f>> : b \in {27, 28, 30, 33, 40, 61, 62}, c \in {0, 1, 2}, f \in {0, 1, 4}}
  \cup {<<>>, <<0>>, <<1, 4, 0>>}

ServicePrograms ==
  {WithStrings(Pushes(<<a>>) \o <<<<op>>, <<"HALT">>>>) :
     a \in StringAddresses, op \in {"PRINT_STR", "ABORT", "EVAL", "COMPILE"}}
  \cup {WithStrings(Pushes(<<14>>) \o <<<<"COMPILE">>, <<"PUSH", 0>>, <<"SWAP">>, <<"FUNCALL">>>>)}
  \cup {WithStrings(Pushes(c) \o <<<<"C_CALL">>, <<"HALT">>>>) : c \in SystemCalls}

InstructionSpec ==
  /\ InitLoaded(InstructionPrograms, {TRUE}) \/ InitLoaded(ServicePrograms, BOOLEAN)
  /\ [][Next]_vars

EvaluatedPrograms == {Asm(<<<<"PUSH", 7>>, <<"RET", 0>>>>),
                      Asm(<<<<"PUSH", 1>>, <<"PUSH", 9>>, <<"STORE">>, <<"RET", 0>>>>)}
=============================================================================
