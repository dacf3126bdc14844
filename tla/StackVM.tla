------------------------------ MODULE StackVM ------------------------------
(***************************************************************************)
(* The stack virtual machine of stack_vm.hpp, built with bounds checks     *)
(* (vm_checks.hpp), and the calls its host makes on it.  Memory is one     *)
(* flat array of words that holds code, globals, heap and stack; the       *)
(* instruction at ip is decoded from it, so a program may run off its end, *)
(* jump into data, or change the words it will later execute.              *)
(*                                                                         *)
(* One turn of the loop of execute() is two steps: the loop test with the  *)
(* delivery of a pending signal, then the instruction.  Signals may arrive *)
(* between any two steps.  Every check that throws is an outcome of the    *)
(* step that makes it, and leaves the registers and the memory as the C++  *)
(* code has them at the throw.                                             *)
(***************************************************************************)
EXTENDS MachineWord, Opcodes

CONSTANTS CODE_SIZE, HEAP_START, STACK_BASE, MEMORY_SIZE,  \* memory_layout.hpp
          MAX_SIGNAL,       \* signals are 1..MAX_SIGNAL, 31 in the code
          Programs,         \* what the host may load: records of the bytecode, and of the
                            \* words the string literals occupy
          EvalPrograms,     \* what the compiler may make of an evaluated string
          ExternalResults,  \* what a system call may return
          EntryPoints,      \* addresses given to set_ip
          HostWrites,       \* <<address, value>> pairs given to write_memory
          ExecuteLimits,    \* instruction limits given to execute
          MaxRead,          \* bound: bytes one read() returns
          MaxPending,       \* bound: uncounted signals waiting, of each number
          MaxHostCalls      \* bound: calls the host makes

Addr == 0..(MEMORY_SIZE - 1)
CodeAddr == 0..(CODE_SIZE - 1)
Signals == 1..MAX_SIGNAL

(***************************************************************************)
(* The layout of memory_layout.hpp, one unit of 2^27 words per region.     *)
(* Only the last conjunct is not obvious: the room the stack has is no     *)
(* larger than the room above its base.  Copying a call's arguments relies *)
(* on it.                                                                  *)
(***************************************************************************)
ASSUME LayoutAssumption ==
  /\ {CODE_SIZE, HEAP_START, STACK_BASE, MEMORY_SIZE} \subseteq Nat
  /\ 0 < CODE_SIZE /\ CODE_SIZE < HEAP_START /\ HEAP_START + 1 < STACK_BASE
  /\ STACK_BASE < MEMORY_SIZE /\ MEMORY_SIZE < WordSize
  /\ STACK_BASE - HEAP_START <= MEMORY_SIZE - STACK_BASE

ASSUME HostAssumption ==
  /\ MAX_SIGNAL \in Nat
  /\ \A p \in Programs \cup EvalPrograms :
       /\ p.code \in Seq(Word)
       /\ DOMAIN p.data \subseteq Addr \ CodeAddr
       /\ \A a \in DOMAIN p.data : p.data[a] \in Word
  /\ ExternalResults \subseteq Word
  /\ EntryPoints \subseteq Word
  /\ HostWrites \subseteq Word \X Word
  /\ ExecuteLimits \subseteq Nat
  /\ {MaxRead, MaxPending, MaxHostCalls} \subseteq Nat

VARIABLES memory, ip, sp, bp, hp, running,
          interrupt_flag, signal_handlers,
          signal_count,            \* signals noted by the handler, not yet delivered
          instruction_count, max_instructions, hit_instruction_limit,
          eval_ctx,                \* is an EvalContext configured?
          next_code,               \* *eval_ctx->next_code_address
          phase,                   \* where control is: see TypeOK
          exception,               \* what the last call into the machine threw
          host_calls

interruptVars == <<interrupt_flag, signal_handlers, signal_count>>
limitVars == <<instruction_count, max_instructions, hit_instruction_limit>>
hostVars == <<eval_ctx, next_code, host_calls>>
vars == <<memory, ip, sp, bp, hp, running, interruptVars, limitVars, hostVars,
          phase, exception>>

Exceptions == {"StackOverflow", "StackUnderflow", "StackEmpty", "StackFrameBounds",
               "MemoryBounds", "IPBounds", "CodeSegmentProtection",
               "InvalidBPStoreIndex", "DivisionByZero", "InvalidSignal",
               "InvalidAddress", "UnknownOpcode", "ProgramTooLarge", "InvalidSnapshot",
               "RuntimeError"}

TypeOK ==
  /\ memory \in [Addr -> Word]
  /\ {ip, sp, bp, hp} \subseteq Word
  /\ {running, interrupt_flag, hit_instruction_limit, eval_ctx} \subseteq BOOLEAN
  /\ signal_handlers \in [Signals -> Addr]
  /\ signal_count \in [Signals -> Nat]
  /\ {instruction_count, max_instructions, next_code, host_calls} \subseteq Nat
  /\ phase \in {"idle",    \* the host has control
                "loop",    \* in execute(), before the loop test
                "fetch",   \* before fetching the instruction at ip
                "wild"}    \* read past the mapping: no defined continuation
  /\ exception \in Exceptions \cup {"none"}

Init ==
  /\ memory = [a \in Addr |-> 0]
  /\ ip = 0 /\ sp = STACK_BASE /\ bp = STACK_BASE /\ hp = HEAP_START
  /\ running = TRUE
  /\ interrupt_flag = TRUE
  /\ signal_handlers = [s \in Signals |-> 0]
  /\ signal_count = [s \in Signals |-> 0]
  /\ instruction_count = 0 /\ max_instructions = 0 /\ hit_instruction_limit = FALSE
  /\ eval_ctx \in BOOLEAN
  /\ next_code = 0
  /\ phase = "idle" /\ exception = "none" /\ host_calls = 0

-----------------------------------------------------------------------------
(***************************************************************************)
(* Instructions: the opcode is the low byte of the word at ip, operands    *)
(* are the words after it.                                                 *)
(***************************************************************************)
Opcode(word) == IF word % 256 < Len(OpcodeNames) THEN OpcodeNames[(word % 256) + 1]
                ELSE "unknown"

Op == Opcode(memory[ip])
Operand(k) == memory[ip + k]

NextIp == ip + 1 + OperandCount(Op)

Top(k) == memory[sp + k]      \* the k-th word under the top of the stack
Depth == STACK_BASE - sp
\* Faults: the overflow check is < instead of <=; it is not compiled in.
RoomOneMore(s) == s - hp
RoomUnchecked(s) == s
Room(s) == s - hp - 1         \* how many words fit under s before the overflow check throws

\* Fault: the arguments of a system call are taken without the underflow check.
UncheckedArguments == 2
\* C_CALL pops the function, the number of arguments, and the arguments.
CCallConsumes == IF Depth < 2 THEN 2 ELSE 2 + Top(1)

\* How many words the instruction pops, or reads without popping, before it
\* does anything else that lasts.
Consumes(op) ==
  CASE op \in {"POP", "DUP", "JZ", "IRET", "LOAD", "LOAD_BYTE", "LOAD32", "BP_LOAD",
               "PRINT", "PRINT_STR", "ABORT", "EVAL", "COMPILE"} -> 1
    [] op \in BinaryOps \cup {"SWAP", "STORE", "STORE_BYTE", "STORE32", "BP_STORE",
                              "SIGNAL_REG", "FUNCALL"} -> 2
    [] op = "LEAVE" -> Operand(1) + 2
    [] op = "RET" -> 2 * Operand(1) + 2
    [] op = "C_CALL" -> CCallConsumes
    [] OTHER -> 0

Fetching == phase = "fetch"
HasOperands == ip + OperandCount(Op) < MEMORY_SIZE
HasContext == Op \in {"EVAL", "COMPILE"} => eval_ctx

\* The instruction at ip is op, with its operands in memory and its words on
\* the stack.
At(op) == /\ Fetching /\ Op = op
          /\ HasOperands /\ HasContext /\ Depth >= Consumes(op)

\* The two ways a step of execute() ends.
Done(newIp, newSp, newMemory) ==
  /\ ip' = newIp /\ sp' = newSp /\ memory' = newMemory
  /\ phase' = "loop" /\ exception' = exception

Throw(e, newIp, newSp, newMemory) ==
  /\ ip' = newIp /\ sp' = newSp /\ memory' = newMemory
  /\ phase' = "idle" /\ exception' = e

\* Fault: one word too many is dropped.
ReplaceOneTooFar(n, word) == Done(NextIp, sp + n, [memory EXCEPT ![sp + n] = word])

\* Pop n words and leave one in their place: after n >= 1 pops one push cannot overflow.
Replace(n, word) == Done(NextIp, sp + n - 1, [memory EXCEPT ![sp + n - 1] = word])
Drop(n) == Done(NextIp, sp + n, memory)
Reject(e, n) == Throw(e, NextIp, sp + n, memory)

\* Fault: memory[sp--] instead of memory[--sp].
PushPostDecrement(word) ==
  Room(sp) > 0 /\ Done(NextIp, sp - 1, [memory EXCEPT ![sp] = word])

Push(word) ==
  \/ Room(sp) > 0 /\ Done(NextIp, sp - 1, [memory EXCEPT ![sp - 1] = word])
  \/ Room(sp) <= 0 /\ Reject("StackOverflow", 0)

(***************************************************************************)
(* A packed string: its length in bytes, then that many bytes, packed.     *)
(* Only the length word is checked; the characters are read wherever the   *)
(* length leads, and past the end of the mapping nothing is defined.  The  *)
(* room for the string is taken first, and there may be none.              *)
(***************************************************************************)
LastStringWord(adr) ==
  adr + ((memory[adr] + BYTES_PER_WORD - 1) \div BYTES_PER_WORD)

IsString(adr) == adr < MEMORY_SIZE /\ LastStringWord(adr) < MEMORY_SIZE

ReadBadString(adr, popped) ==
  \/ adr >= MEMORY_SIZE /\ Reject("MemoryBounds", popped)
  \/ /\ adr < MEMORY_SIZE /\ LastStringWord(adr) >= MEMORY_SIZE
     /\ \/ Reject("RuntimeError", popped)
        \/ phase' = "wild" /\ UNCHANGED <<ip, sp, memory, exception>>

(***************************************************************************)
(* Instructions that move words between the stack and the memory.          *)
(***************************************************************************)
PushConstant == At("PUSH") /\ Push(Operand(1))
PopTop == At("POP") /\ Drop(1)
Dup == At("DUP") /\ Push(Top(0))
Swap == At("SWAP") /\ Done(NextIp, sp, [memory EXCEPT ![sp] = Top(1), ![sp + 1] = Top(0)])
PrintTop == At("PRINT") /\ Done(NextIp, sp, memory)

BinaryOp ==
  \E op \in BinaryOps :
    /\ At(op)
    /\ \/ /\ op \in {"DIV", "MOD"} => Top(0) # 0
          /\ \E r \in BinaryResults(op, Top(1), Top(0)) : Replace(2, r)
       \/ op \in {"DIV", "MOD"} /\ Top(0) = 0 /\ Reject("DivisionByZero", 2)

\* LOAD, LOAD_BYTE and LOAD32 read one word; the first counts its address in
\* words, the others in bytes.
LoadedWord(op) == IF op = "LOAD" THEN Top(0) ELSE WordIndex(Top(0))

LoadedValues(op, word) ==
  {v \in Word : \/ op = "LOAD" /\ v = word
                \/ op = "LOAD_BYTE" /\ v \in Field(ByteShift(Top(0)), BYTE_BITS, word)
                \/ op = "LOAD32" /\ v \in Field(HalfShift(Top(0)), HALF_BITS, word)}

Load ==
  \E op \in {"LOAD", "LOAD_BYTE", "LOAD32"} :
    /\ At(op)
    /\ \/ LoadedWord(op) >= MEMORY_SIZE /\ Reject("MemoryBounds", 1)
       \/ /\ LoadedWord(op) < MEMORY_SIZE
          /\ \E v \in LoadedValues(op, memory[LoadedWord(op)]) : Replace(1, v)

StoredWord(op) == IF op = "STORE" THEN Top(0) ELSE WordIndex(Top(0))

StoredValues(op, word) ==
  {v \in Word :
     \/ op = "STORE" /\ v = Top(1)
     \/ op = "STORE_BYTE" /\ v \in WithField(ByteShift(Top(0)), BYTE_BITS, word, Top(1))
     \/ op = "STORE32" /\ v \in WithField(HalfShift(Top(0)), HALF_BITS, word, Top(1))}

\* Fault: the code segment is not protected.
StoreAnywhere(adr) == adr < MEMORY_SIZE

\* The checks in front of every store, in their order.
StoreAllowed(adr) == CODE_SIZE <= adr /\ adr < MEMORY_SIZE
RefuseStore(adr, popped) ==
  \/ adr >= MEMORY_SIZE /\ Reject("MemoryBounds", popped)
  \/ adr < CODE_SIZE /\ Reject("CodeSegmentProtection", popped)

Store ==
  \E op \in {"STORE", "STORE_BYTE", "STORE32"} :
    /\ At(op)
    /\ \/ RefuseStore(StoredWord(op), 2)
       \/ /\ StoreAllowed(StoredWord(op))
          /\ \E v \in StoredValues(op, memory[StoredWord(op)]) :
               Done(NextIp, sp + 2, [memory EXCEPT ![StoredWord(op)] = v])

\* Slot idx of the frame at bp; bp may be any word, and the sum wraps.
FrameSlot(idx) == (bp + idx + 1) % WordSize
InFrames(adr, popped) == sp + popped <= adr /\ adr < STACK_BASE

BpLoad ==
  /\ At("BP_LOAD")
  /\ LET adr == FrameSlot(Top(0)) IN
       \/ adr >= MEMORY_SIZE /\ Reject("MemoryBounds", 1)
       \/ adr < MEMORY_SIZE /\ ~InFrames(adr, 1) /\ Reject("StackFrameBounds", 1)
       \/ InFrames(adr, 1) /\ Replace(1, memory[adr])

BpStore ==
  /\ At("BP_STORE")
  /\ LET adr == FrameSlot(Top(0)) IN
       \/ adr >= MEMORY_SIZE /\ Reject("MemoryBounds", 2)
       \/ adr < MEMORY_SIZE /\ Top(0) < 1 /\ Reject("InvalidBPStoreIndex", 2)
       \/ adr < MEMORY_SIZE /\ Top(0) >= 1 /\ ~InFrames(adr, 2) /\ Reject("StackFrameBounds", 2)
       \/ /\ Top(0) >= 1 /\ InFrames(adr, 2)
          /\ Done(NextIp, sp + 2, [memory EXCEPT ![adr] = Top(1)])

PrintString ==
  /\ At("PRINT_STR")
  /\ \/ ReadBadString(Top(0), 0)
     \/ IsString(Top(0)) /\ Done(NextIp, sp, memory)

(***************************************************************************)
(* Jumps and calls.                                                        *)
(***************************************************************************)
JumpTo(target, newSp) ==
  \/ target < MEMORY_SIZE /\ Done(target, newSp, memory)
  \/ target >= MEMORY_SIZE /\ Throw("IPBounds", target, newSp, memory)

Jmp == At("JMP") /\ JumpTo(Operand(1), sp)

Jz == /\ At("JZ")
      /\ \/ Top(0) = 0 /\ JumpTo(Operand(1), sp + 1)
         \/ Top(0) # 0 /\ Drop(1)

(***************************************************************************)
(* CALL and FUNCALL push the return address and then a copy of the nb      *)
(* words under it.  Each copied word is read before the push that may      *)
(* throw, from an address no check looks at.  A call that runs out of      *)
(* stack leaves ip at its target and the words copied so far.              *)
(***************************************************************************)
Least(a, b) == IF a <= b THEN a ELSE b

ArgumentReads(base, nb) == {base + k : k \in 0..(Least(nb, Room(base)) - 1)}
ArgumentsCopied(base, nb) == Least(nb, Room(base) - 1)

CallMemory(base, return, copied) ==
  [a \in Addr |->
     CASE a = base - 1 -> return
       [] base - 1 - copied <= a /\ a < base - 1 -> memory[base + (base - 2 - a)]
       [] OTHER -> memory[a]]

EnterCallee(target, return, base, nb) ==
  LET copied == ArgumentsCopied(base, nb)
      called == CallMemory(base, return, copied)
  IN \/ Room(base) <= 0 /\ Throw("StackOverflow", return, base, memory)
     \/ /\ Room(base) > 0 /\ copied < nb
        /\ Throw("StackOverflow", target, base - 1 - copied, called)
     \/ /\ Room(base) > 0 /\ copied = nb
        /\ \/ target < MEMORY_SIZE /\ Done(target, base - 1 - nb, called)
           \/ target >= MEMORY_SIZE /\ Throw("IPBounds", target, base - 1 - nb, called)

Call == At("CALL") /\ EnterCallee(Operand(1), NextIp, sp, Operand(2))

Funcall ==
  /\ At("FUNCALL")
  /\ \/ Top(0) >= MEMORY_SIZE /\ Reject("InvalidAddress", 2)
     \/ Top(0) < MEMORY_SIZE /\ EnterCallee(Top(0), NextIp, sp + 2, Top(1))

\* RET n drops its own frame of n copied arguments and the caller's n words.
Ret ==
  /\ At("RET")
  /\ LET n == Operand(1)
         newSp == sp + 2 * n + 1
         newMemory == [memory EXCEPT ![newSp] = Top(0)]
         return == Top(n + 1)
     IN \/ return < MEMORY_SIZE /\ Done(return, newSp, newMemory)
        \/ return >= MEMORY_SIZE /\ Throw("IPBounds", return, newSp, newMemory)

(***************************************************************************)
(* ENTER n: n zeroed temporaries, then the saved bp, which bp then points  *)
(* to.  LEAVE n undoes it around the result on top of the stack.           *)
(***************************************************************************)
Zeroed(first, last) == [a \in Addr |-> IF first <= a /\ a <= last THEN 0 ELSE memory[a]]

Enter ==
  /\ At("ENTER")
  /\ LET frame == sp - Operand(1) - 1 IN
       \/ /\ Room(sp) <= Operand(1)
          /\ Throw("StackOverflow", NextIp, hp + 1, Zeroed(hp + 1, sp - 1))
          /\ bp' = bp
       \/ /\ Room(sp) > Operand(1)
          /\ Done(NextIp, frame, [Zeroed(frame, sp - 1) EXCEPT ![frame] = bp])
          /\ bp' = frame

Leave == At("LEAVE") /\ Replace(Operand(1) + 2, Top(0)) /\ bp' = Top(1)

(***************************************************************************)
(* Stopping, and the interrupt instructions.                               *)
(***************************************************************************)
Halt == At("HALT") /\ Done(NextIp, sp, memory) /\ running' = FALSE

Abort ==
  /\ At("ABORT")
  /\ \/ /\ Top(0) >= MEMORY_SIZE \/ IsString(Top(0))
        /\ Drop(1) /\ running' = FALSE
     \/ /\ Top(0) < MEMORY_SIZE
        /\ ReadBadString(Top(0), 1) /\ running' = running

Cli == /\ At("CLI") /\ Done(NextIp, sp, memory)
       /\ interrupt_flag' = FALSE /\ UNCHANGED signal_handlers

Sti == /\ At("STI") /\ Done(NextIp, sp, memory)
       /\ interrupt_flag' = TRUE /\ UNCHANGED signal_handlers

Iret == /\ At("IRET")
        /\ JumpTo(Top(0), sp + 1)
        /\ interrupt_flag' = (interrupt_flag \/ Top(0) < MEMORY_SIZE)
        /\ UNCHANGED signal_handlers

\* Fault: the handler's address is not checked.
SignalRegUnchecked ==
  /\ At("SIGNAL_REG")
  /\ UNCHANGED interrupt_flag
  /\ Top(0) \in Signals
  /\ Drop(2) /\ signal_handlers' = [signal_handlers EXCEPT ![Top(0)] = Top(1)]

SignalReg ==
  /\ At("SIGNAL_REG")
  /\ UNCHANGED interrupt_flag
  /\ \/ /\ Top(0) \notin Signals
        /\ Reject("InvalidSignal", 2) /\ UNCHANGED signal_handlers
     \/ /\ Top(0) \in Signals /\ Top(1) >= MEMORY_SIZE
        /\ Reject("InvalidAddress", 2) /\ UNCHANGED signal_handlers
     \/ /\ Top(0) \in Signals /\ Top(1) < MEMORY_SIZE
        /\ Drop(2) /\ signal_handlers' = [signal_handlers EXCEPT ![Top(0)] = Top(1)]

(***************************************************************************)
(* EVAL and COMPILE hand a string to the compiler behind eval_ctx, which   *)
(* may refuse it, or load the code it makes of it at next_code.            *)
(***************************************************************************)
Fits(p, offset) == offset + Len(p.code) <= CODE_SIZE

Loaded(p, offset) ==
  [a \in Addr |->
     CASE a \in DOMAIN p.data -> p.data[a]
       [] offset <= a /\ a < offset + Len(p.code) -> p.code[a - offset + 1]
       [] OTHER -> memory[a]]

\* The code that is made of the string is loaded, and called or left to be called.
CallCompiled(op, p) ==
  \/ ~Fits(p, next_code) /\ Reject("ProgramTooLarge", 1) /\ UNCHANGED next_code
  \/ /\ Fits(p, next_code)
     /\ next_code' = next_code + Len(p.code)
     /\ LET loaded == Loaded(p, next_code) IN
          \/ op = "EVAL" /\ Done(next_code, sp, [loaded EXCEPT ![sp] = NextIp])
          \/ op = "COMPILE" /\ Done(NextIp, sp, [loaded EXCEPT ![sp] = next_code])

CompileString(op) ==
  /\ At(op)
  /\ \/ ReadBadString(Top(0), 1) /\ UNCHANGED next_code
     \/ IsString(Top(0)) /\ Reject("RuntimeError", 1) /\ UNCHANGED next_code
     \/ IsString(Top(0)) /\ \E p \in EvalPrograms : CallCompiled(op, p)

Eval == CompileString("EVAL")
Compile == CompileString("COMPILE")

(***************************************************************************)
(* C_CALL: system calls on words of the stack.  What they return is        *)
(* outside the machine; read() stores what it got byte by byte, and keeps  *)
(* the bytes before the first it may not store.  The buffer of read() and  *)
(* write() has the size that the program asks for: there may be no room.   *)
(***************************************************************************)
CFunctions == <<"read", "write", "open", "close", "lseek", "fsize">>
Arity == [read |-> 3, write |-> 3, open |-> 2, close |-> 1, lseek |-> 3, fsize |-> 1]

CFunction == IF Top(0) < Len(CFunctions) THEN CFunctions[Top(0) + 1] ELSE "unknown"
Arg(j) == Top(1 + Top(1) - j)
CallsC(f) == At("C_CALL") /\ CFunction = f /\ Top(1) = Arity[f]
ByteAddress(buffer, i) == (buffer + i) % WordSize

CCallRefused ==
  /\ At("C_CALL")
  /\ CFunction = "unknown" \/ (CFunction # "unknown" /\ Top(1) # Arity[CFunction])
  /\ Reject("RuntimeError", 2 + Top(1))

CCallPlain ==
  \E f \in {"close", "lseek", "fsize"} :
    CallsC(f) /\ \E r \in ExternalResults : Replace(2 + Top(1), r)

CCallOpen ==
  /\ CallsC("open")
  /\ \/ ReadBadString(Arg(0), 2 + Top(1))
     \/ IsString(Arg(0)) /\ \E r \in ExternalResults : Replace(2 + Top(1), r)

CCallWrite ==
  /\ CallsC("write")
  /\ LET readable == \A i \in 0..(Arg(2) - 1) :
                       WordIndex(ByteAddress(Arg(1), i)) < MEMORY_SIZE
     IN \/ Reject("RuntimeError", 2 + Top(1))            \* no room for the buffer
        \/ ~readable /\ Reject("MemoryBounds", 2 + Top(1))
        \/ readable /\ \E r \in ExternalResults : Replace(2 + Top(1), r)

\* The memories in which the bytes at `stored` may have changed, and no others.
WithBytes(stored) ==
  LET touched == {WordIndex(b) : b \in stored}
      kept(w) == {b \in 0..(BYTES_PER_WORD - 1) : w * BYTES_PER_WORD + b \notin stored}
  IN {[a \in Addr |-> IF a \in touched THEN new[a] ELSE memory[a]] :
        new \in {n \in [touched -> Word] :
                   \A w \in touched : \A b \in kept(w) :
                     Field(ByteShift(b), BYTE_BITS, n[w])
                       = Field(ByteShift(b), BYTE_BITS, memory[w])}}

CCallRead ==
  /\ CallsC("read")
  /\ LET target(i) == WordIndex(ByteAddress(Arg(1), i))
         popped == 2 + Top(1)
     IN \/ Reject("RuntimeError", popped)               \* no room for the buffer
        \/ Replace(popped, WordSize - 1)                \* read() failed
        \/ \E n \in 0..Least(Arg(2), MaxRead) :
             \/ /\ \A i \in 0..(n - 1) : StoreAllowed(target(i))
                /\ \E m \in WithBytes({ByteAddress(Arg(1), i) : i \in 0..(n - 1)}) :
                     Done(NextIp, sp + popped - 1, [m EXCEPT ![sp + popped - 1] = n])
             \/ \E bad \in 0..(n - 1) :
                  /\ ~StoreAllowed(target(bad))
                  /\ \A i \in 0..(bad - 1) : StoreAllowed(target(i))
                  /\ \E m \in WithBytes({ByteAddress(Arg(1), i) : i \in 0..(bad - 1)}) :
                       Throw(IF target(bad) >= MEMORY_SIZE THEN "MemoryBounds"
                             ELSE "CodeSegmentProtection", NextIp, sp + popped, m)

-----------------------------------------------------------------------------
(***************************************************************************)
(* What stops an instruction before it starts.                             *)
(***************************************************************************)
UnknownOpcode == /\ Fetching /\ Op = "unknown"
                 /\ Reject("UnknownOpcode", 0) /\ bp' = bp

MissingOperand == /\ Fetching /\ ~HasOperands
                  /\ Throw("IPBounds", MEMORY_SIZE, sp, memory) /\ bp' = bp

NoEvalContext == /\ Fetching /\ ~HasContext
                 /\ Reject("RuntimeError", 0) /\ bp' = bp

\* The pops before the failing one have been done: the stack is empty, and
\* LEAVE may have taken bp.  JZ pops before it passes its operand.
UnderflowIp == IF Op = "JZ" THEN ip + 1 ELSE NextIp

StackUnderflow ==
  /\ Fetching /\ HasOperands /\ HasContext /\ Depth < Consumes(Op)
  /\ Throw(IF Op \in {"DUP", "PRINT", "PRINT_STR"} THEN "StackEmpty" ELSE "StackUnderflow",
           UnderflowIp, STACK_BASE, memory)
  /\ bp' = IF Op = "LEAVE" /\ Depth >= 2 THEN Top(1) ELSE bp

\* C_CALL makes room for its arguments before it pops them; for more than the
\* stack holds there may be none.
NoRoomForArguments ==
  /\ Fetching /\ Op = "C_CALL" /\ HasOperands /\ 2 <= Depth /\ Depth < Consumes(Op)
  /\ Reject("RuntimeError", 2) /\ bp' = bp

-----------------------------------------------------------------------------
(***************************************************************************)
(* The loop of execute().                                                  *)
(***************************************************************************)
\* Fault: a handler is enough, the counter is not read.
DeliverableUncounted == {s \in Signals : signal_handlers[s] # 0}

Deliverable == {s \in Signals : signal_count[s] > 0 /\ signal_handlers[s] # 0}

\* Fault: the loop does not test ip.
GoesOnAnywhere == phase = "loop" /\ running /\ instruction_count < max_instructions

GoesOn == /\ phase = "loop" /\ running /\ ip < MEMORY_SIZE
          /\ instruction_count < max_instructions

\* Fault: the turn is not counted.
TurnUncounted ==
  /\ GoesOn /\ (interrupt_flag => Deliverable = {})
  /\ phase' = "fetch"
  /\ UNCHANGED <<memory, ip, sp, bp, hp, running, interruptVars, limitVars, hostVars, exception>>

\* No signal is due: fetch at ip.
TurnQuietly ==
  /\ GoesOn /\ (interrupt_flag => Deliverable = {})
  /\ instruction_count' = instruction_count + 1
  /\ phase' = "fetch"
  /\ UNCHANGED <<memory, ip, sp, bp, hp, running, interruptVars, max_instructions,
                 hit_instruction_limit, hostVars, exception>>

\* The lowest pending signal that has a handler interrupts: mask, push the
\* return address, jump, consume.  The push may throw after the masking.
Interrupt(s) ==
  /\ GoesOn /\ interrupt_flag
  /\ s \in Deliverable /\ \A t \in Deliverable : s <= t
  /\ instruction_count' = instruction_count + 1
  /\ interrupt_flag' = FALSE
  /\ \/ /\ Room(sp) > 0
        /\ sp' = sp - 1 /\ memory' = [memory EXCEPT ![sp - 1] = ip]
        /\ ip' = signal_handlers[s]
        /\ signal_count' = [signal_count EXCEPT ![s] = @ - 1]
        /\ phase' = "fetch" /\ exception' = exception
     \/ /\ Room(sp) <= 0
        /\ Throw("StackOverflow", ip, sp, memory) /\ UNCHANGED signal_count
  /\ UNCHANGED <<bp, hp, running, signal_handlers, max_instructions,
                 hit_instruction_limit, hostVars>>

\* The loop ends, and execute() returns.
Return ==
  /\ phase = "loop" /\ ~GoesOn
  /\ hit_instruction_limit' = (instruction_count >= max_instructions /\ running)
  /\ running' = TRUE
  /\ phase' = "idle"
  /\ UNCHANGED <<memory, ip, sp, bp, hp, interruptVars, instruction_count,
                 max_instructions, hostVars, exception>>

\* By what they may change besides the stack, the memory and ip.
DataInstruction ==
  /\ \/ PushConstant \/ PopTop \/ Dup \/ Swap \/ PrintTop \/ PrintString
     \/ BinaryOp \/ Load \/ Store \/ BpLoad \/ BpStore
     \/ Jmp \/ Jz \/ Call \/ Funcall \/ Ret
     \/ CCallRefused \/ CCallPlain \/ CCallOpen \/ CCallWrite \/ CCallRead
  /\ UNCHANGED <<bp, running, interrupt_flag, signal_handlers, next_code>>

FrameInstruction ==
  /\ \/ Enter \/ Leave
     \/ StackUnderflow \/ NoRoomForArguments \/ UnknownOpcode \/ MissingOperand \/ NoEvalContext
  /\ UNCHANGED <<running, interrupt_flag, signal_handlers, next_code>>

StopInstruction ==
  (Halt \/ Abort) /\ UNCHANGED <<bp, interrupt_flag, signal_handlers, next_code>>

InterruptInstruction ==
  (Cli \/ Sti \/ Iret \/ SignalReg) /\ UNCHANGED <<bp, running, next_code>>

CompileInstruction ==
  (Eval \/ Compile) /\ UNCHANGED <<bp, running, interrupt_flag, signal_handlers>>

Instruction ==
  /\ \/ DataInstruction \/ FrameInstruction \/ StopInstruction
     \/ InterruptInstruction \/ CompileInstruction
  /\ UNCHANGED <<hp, signal_count, limitVars, eval_ctx, host_calls>>

Execution == \/ TurnQuietly \/ (\E s \in Signals : Interrupt(s)) \/ Return
             \/ Instruction

-----------------------------------------------------------------------------
(***************************************************************************)
(* The host's calls, and the signals.  main.cpp loads code at next_code.   *)
(***************************************************************************)
HostTurn == phase = "idle" /\ host_calls < MaxHostCalls /\ host_calls' = host_calls + 1

LoadProgram(p) ==
  /\ HostTurn
  /\ \/ /\ Fits(p, next_code) /\ exception' = "none"
        /\ memory' = Loaded(p, next_code) /\ next_code' = next_code + Len(p.code)
     \/ /\ ~Fits(p, next_code) /\ exception' = "ProgramTooLarge"
        /\ UNCHANGED <<memory, next_code>>
  /\ UNCHANGED <<ip, sp, bp, hp, running, interruptVars, limitVars, eval_ctx, phase>>

\* reset(): registers, run state and pending signals; not the handlers, the
\* interrupt flag, or the memory.
Reset ==
  /\ HostTurn
  /\ ip' = 0 /\ sp' = STACK_BASE /\ bp' = STACK_BASE
  /\ running' = TRUE /\ hit_instruction_limit' = FALSE
  /\ signal_count' = [s \in Signals |-> 0]
  /\ exception' = "none"
  /\ UNCHANGED <<memory, hp, interrupt_flag, signal_handlers, instruction_count,
                 max_instructions, eval_ctx, next_code, phase>>

SetIp(a) ==
  /\ HostTurn /\ ip' = a /\ exception' = "none"
  /\ UNCHANGED <<memory, sp, bp, hp, running, interruptVars, limitVars, eval_ctx,
                 next_code, phase>>

WriteMemory(a, v) ==
  /\ HostTurn
  /\ \/ /\ StoreAllowed(a) /\ exception' = "none"
        /\ memory' = [memory EXCEPT ![a] = v]
     \/ /\ ~StoreAllowed(a) /\ UNCHANGED memory
        /\ exception' = IF a >= MEMORY_SIZE THEN "MemoryBounds" ELSE "CodeSegmentProtection"
  /\ UNCHANGED <<ip, sp, bp, hp, running, interruptVars, limitVars, eval_ctx,
                 next_code, phase>>

StackPop ==
  /\ HostTurn
  /\ \/ Depth > 0 /\ sp' = sp + 1 /\ exception' = "none"
     \/ Depth = 0 /\ sp' = sp /\ exception' = "StackUnderflow"
  /\ UNCHANGED <<memory, ip, bp, hp, running, interruptVars, limitVars, eval_ctx,
                 next_code, phase>>

Execute(limit) ==
  /\ HostTurn
  /\ instruction_count' = 0 /\ max_instructions' = limit
  /\ phase' = "loop" /\ exception' = "none"
  /\ UNCHANGED <<memory, ip, sp, bp, hp, running, interruptVars,
                 hit_instruction_limit, eval_ctx, next_code>>

Host == \/ \E p \in Programs : LoadProgram(p)
        \/ Reset
        \/ \E a \in EntryPoints : SetIp(a)
        \/ \E w \in HostWrites : WriteMemory(w[1], w[2])
        \/ StackPop
        \/ \E limit \in ExecuteLimits : Execute(limit)

\* The signal handler counts the signal; it may run between any two steps.
Raise(s) ==
  /\ signal_count[s] < MaxPending
  /\ signal_count' = [signal_count EXCEPT ![s] = @ + 1]
  /\ UNCHANGED <<memory, ip, sp, bp, hp, running, interrupt_flag, signal_handlers,
                 limitVars, hostVars, phase, exception>>

Next == Execution \/ Host \/ \E s \in Signals : Raise(s)

Spec == Init /\ [][Next]_vars

\* A call of execute() keeps running until it returns or throws.
FairSpec == Spec /\ WF_vars(Execution)

-----------------------------------------------------------------------------
(***************************************************************************)
(* What is expected of the machine.                                        *)
(***************************************************************************)
\* Pushes stop above the heap pointer and pops stop at the base, whatever the
\* program: check_stack_overflow and check_stack_underflow, together with every
\* place that moves sp, partly executed instructions included.
StackBounds == hp = HEAP_START /\ hp < sp /\ sp <= STACK_BASE

\* Wherever jumps, returns, handlers and the host send it, the machine only
\* fetches from its memory, although FUNCALL, SIGNAL_REG and the delivery of a
\* signal set ip without check_ip_bounds.
FetchInBounds == Fetching => ip < MEMORY_SIZE

\* The words CALL and FUNCALL copy are read without a bounds check.  They are in
\* memory all the same, because the copies run into the overflow check first.
CopyInBounds(base, nb) == \A a \in ArgumentReads(base, nb) : a < MEMORY_SIZE

ArgumentCopyInBounds ==
  Fetching => /\ At("CALL") => CopyInBounds(sp, Operand(2))
              /\ At("FUNCALL") => CopyInBounds(sp + 2, Top(1))

\* Code is write-protected during execution: no instruction, delivered signal or
\* system call changes a word of code that has been loaded, and loading only adds
\* words after those loaded before.
CodeAppendOnly ==
  [][\A a \in CodeAddr : memory'[a] # memory[a] => next_code <= a /\ a < next_code']_vars

\* An instruction that does not store leaves every word above those it consumes
\* as it was, also when it throws half-way: the frames of the callers survive
\* every call, return and interrupt.
StoresToMemory == {"STORE", "STORE_BYTE", "STORE32", "BP_STORE", "C_CALL", "EVAL", "COMPILE"}

FirstKept == IF Fetching THEN sp + Consumes(Op) ELSE sp
KeepsCallerWords == \A a \in Addr : a >= FirstKept => memory'[a] = memory[a]

CallerWordsKept ==
  [][phase # "idle" /\ (Fetching => Op \notin StoresToMemory) => KeepsCallerWords]_vars

\* The machine keeps the promise of SignalCounts, as the counters do: it takes one
\* counted signal for each interrupt, with interrupts enabled, and masks them by it.
Open == [m \in {"vm"} |-> interrupt_flag]

Counters == INSTANCE SignalCounts WITH
  Machines <- {"vm"}, pending <- signal_count, open <- Open

ServesEachSignalOnce == Counters!Spec

\* A call of execute() comes back, by returning or throwing, however the program
\* loops and however many signals arrive: the limit counts interrupted turns too.
ExecuteComesBack ==
  phase \in {"loop", "fetch"} ~> phase \in {"idle", "wild"}
=============================================================================
