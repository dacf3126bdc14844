--------------------------- MODULE StackVM_proofs ---------------------------
(***************************************************************************)
(* Proofs about StackVM for every layout, word size, set of programs and   *)
(* bound that its assumptions allow.                                       *)
(***************************************************************************)
EXTENDS StackVM, TLAPS

(***************************************************************************)
(* The inductive invariant: the types, the bounds of the stack, the fetch  *)
(* in memory, and code that ends within the code segment.                  *)
(***************************************************************************)
IInv == TypeOK /\ StackBounds /\ FetchInBounds /\ next_code <= CODE_SIZE

\* What every step of execute() does to the machine, apart from bp and the
\* interrupt state: it stays well-typed and within the stack's bounds.
Sound ==
  /\ memory' \in [Addr -> Word]
  /\ ip' \in Word
  /\ sp' \in Word /\ HEAP_START < sp' /\ sp' <= STACK_BASE
  /\ phase' \in {"idle", "loop", "wild"}
  /\ exception' \in Exceptions \cup {"none"}

CodeKept == \A a \in CodeAddr : memory'[a] = memory[a]

(***************************************************************************)
(* Arithmetic of the layout, and what it says of stack and code words.     *)
(***************************************************************************)
LEMMA Sizes ==
  /\ CODE_SIZE \in Nat /\ HEAP_START \in Nat /\ STACK_BASE \in Nat /\ MEMORY_SIZE \in Nat
  /\ WordSize \in Nat
  /\ 0 < CODE_SIZE /\ CODE_SIZE < HEAP_START /\ HEAP_START + 1 < STACK_BASE
  /\ STACK_BASE < MEMORY_SIZE /\ MEMORY_SIZE < WordSize
  /\ STACK_BASE - HEAP_START <= MEMORY_SIZE - STACK_BASE
  /\ Addr \subseteq Word /\ CodeAddr \subseteq Addr
  BY LayoutAssumption, WordAssumption DEF Word, Addr, CodeAddr

LEMMA Registers ==
  ASSUME IInv
  PROVE  /\ sp \in Nat /\ hp = HEAP_START /\ HEAP_START < sp /\ sp <= STACK_BASE
         /\ ip \in Nat /\ ip < WordSize
         /\ bp \in Nat /\ bp < WordSize
         /\ memory \in [Addr -> Word]
         /\ Fetching => ip < MEMORY_SIZE
  BY Sizes DEF IInv, TypeOK, StackBounds, FetchInBounds, Word

\* The words of the stack are words of memory, and not of the code segment.
LEMMA StackWords ==
  ASSUME IInv, NEW k \in Nat, k < Depth
  PROVE  /\ sp + k \in Addr /\ sp + k \notin CodeAddr
         /\ Top(k) \in Word
<1>1. sp + k \in Addr /\ sp + k \notin CodeAddr
  BY Sizes, Registers DEF Depth, Addr, CodeAddr
<1> QED BY <1>1, Registers DEF Top

\* An instruction whose operands are in memory has a next instruction, and its
\* operands are words.
LEMMA Operands ==
  ASSUME IInv, Fetching, HasOperands
  PROVE  /\ NextIp \in Word
         /\ OperandCount(Op) \in {0, 1, 2}
         /\ \A k \in 0..OperandCount(Op) : Operand(k) \in Word
<1>1. OperandCount(Op) \in {0, 1, 2}
  BY DEF OperandCount
<1>2. ip \in Nat /\ ip < MEMORY_SIZE
  BY Registers
<1>3. NextIp \in Word
  BY <1>1, <1>2, Sizes DEF NextIp, HasOperands, Word
<1>4. ASSUME NEW k \in 0..OperandCount(Op) PROVE ip + k \in Addr
  BY <1>1, <1>2, Sizes DEF HasOperands, Addr
<1> QED BY <1>1, <1>3, <1>4, Registers DEF Operand

(***************************************************************************)
(* The ways an instruction ends.                                           *)
(***************************************************************************)
LEMMA Ending ==
  ASSUME IInv, NEW i \in Word, NEW s \in Word, HEAP_START < s, s <= STACK_BASE,
         NEW m \in [Addr -> Word],
         Done(i, s, m) \/ \E e \in Exceptions : Throw(e, i, s, m)
  PROVE  Sound /\ memory' = m
  BY DEF Sound, Done, Throw, IInv, TypeOK

LEMMA Rejecting ==
  ASSUME IInv, Fetching, HasOperands, NEW n \in Nat, n <= Depth,
         Drop(n) \/ \E e \in Exceptions : Reject(e, n)
  PROVE  Sound /\ CodeKept
<1>1. sp + n \in Word /\ HEAP_START < sp + n /\ sp + n <= STACK_BASE
  BY Sizes DEF IInv, TypeOK, StackBounds, Depth, Word
<1>2. memory \in [Addr -> Word]
  BY DEF IInv, TypeOK
<1>3. Sound /\ memory' = memory
  BY <1>1, <1>2, Ending, Operands DEF Drop, Reject
<1> QED BY <1>3 DEF CodeKept

LEMMA Replacing ==
  ASSUME IInv, Fetching, HasOperands, NEW n \in Nat, 0 < n, n <= Depth, NEW w \in Word,
         Replace(n, w)
  PROVE  Sound /\ CodeKept
<1> DEFINE top == sp + n - 1
           m == [memory EXCEPT ![top] = w]
<1>1. top \in Word /\ HEAP_START < top /\ top <= STACK_BASE /\ top \notin CodeAddr
  BY Sizes DEF IInv, TypeOK, StackBounds, Depth, Word, CodeAddr
<1>2. m \in [Addr -> Word]
  BY DEF IInv, TypeOK
<1>3. \A a \in CodeAddr : m[a] = memory[a]
  BY <1>1, Sizes DEF IInv, TypeOK
<1>4. Done(NextIp, top, m)
  BY DEF Replace
<1> HIDE DEF top, m
<1>5. Sound /\ memory' = m
  BY <1>1, <1>2, <1>4, Ending, Operands
<1> QED BY <1>3, <1>5 DEF CodeKept

LEMMA Pushing ==
  ASSUME IInv, Fetching, HasOperands, NEW w \in Word, Push(w)
  PROVE  Sound /\ CodeKept
<1> DEFINE m == [memory EXCEPT ![sp - 1] = w]
<1>1. CASE Room(sp) > 0 /\ Done(NextIp, sp - 1, m)
  <2>1. sp - 1 \in Word /\ HEAP_START < sp - 1 /\ sp - 1 <= STACK_BASE /\ sp - 1 \notin CodeAddr
    BY <1>1, Sizes DEF IInv, TypeOK, StackBounds, Room, Word, CodeAddr
  <2>2. m \in [Addr -> Word]
    BY DEF IInv, TypeOK
  <2>3. \A a \in CodeAddr : m[a] = memory[a]
    BY <2>1, Sizes DEF IInv, TypeOK
  <2> HIDE DEF m
  <2>4. Sound /\ memory' = m
    BY <1>1, <2>1, <2>2, Ending, Operands
  <2> QED BY <2>3, <2>4 DEF CodeKept
<1>2. CASE Reject("StackOverflow", 0)
  <2>1. 0 \in Nat /\ 0 <= Depth
    BY Sizes DEF IInv, TypeOK, StackBounds, Depth, Word
  <2>2. "StackOverflow" \in Exceptions
    BY DEF Exceptions
  <2> QED BY <1>2, <2>1, <2>2, Rejecting
<1> QED BY <1>1, <1>2 DEF Push

-----------------------------------------------------------------------------
(***************************************************************************)
(* One lemma for each group of instructions.                               *)
(***************************************************************************)
LEMMA MovesSound ==
  ASSUME IInv, PushConstant \/ PopTop \/ Dup \/ PrintTop
  PROVE  Sound /\ CodeKept
<1>1. CASE PushConstant
  <2>1. OperandCount("PUSH") = 1
    BY DEF OperandCount
  <2> QED BY <1>1, <2>1, Operands, Pushing DEF PushConstant, At
<1>2. CASE PopTop
  <2>1. Consumes("POP") = 1
    BY DEF Consumes, BinaryOps
  <2> QED BY <1>2, <2>1, Rejecting DEF PopTop, At
<1>3. CASE Dup
  <2>1. Consumes("DUP") = 1
    BY DEF Consumes, BinaryOps
  <2>2. 0 < Depth
    BY <1>3, <2>1, Registers, Sizes DEF Dup, At, Depth
  <2> QED BY <1>3, <2>2, StackWords, Pushing DEF Dup, At
<1>4. CASE PrintTop
  <2>1. Sound /\ memory' = memory
    BY <1>4, Registers, Operands, Ending, Sizes DEF PrintTop, At, Word
  <2> QED BY <2>1 DEF CodeKept
<1> QED BY <1>1, <1>2, <1>3, <1>4

LEMMA SwapSound ==
  ASSUME IInv, Swap
  PROVE  Sound /\ CodeKept
<1> DEFINE m == [memory EXCEPT ![sp] = Top(1), ![sp + 1] = Top(0)]
<1>1. Fetching /\ HasOperands /\ 2 <= Depth /\ Done(NextIp, sp, m)
  <2>1. Consumes("SWAP") = 2
    BY DEF Consumes, BinaryOps
  <2> QED BY <2>1 DEF Swap, At
<1>2. Top(0) \in Word /\ Top(1) \in Word
  BY <1>1, StackWords, Registers, Sizes DEF Depth
<1>3. m \in [Addr -> Word]
  BY <1>2, Registers
<1>4. \A a \in CodeAddr : m[a] = memory[a]
  BY Registers, Sizes DEF CodeAddr
<1> HIDE DEF m
<1>5. Sound /\ memory' = m
  BY <1>1, <1>3, Registers, Operands, Ending, Sizes DEF Word
<1> QED BY <1>4, <1>5 DEF CodeKept

LEMMA BinaryOpSound ==
  ASSUME IInv, BinaryOp
  PROVE  Sound /\ CodeKept
<1>1. PICK op \in BinaryOps :
        /\ At(op)
        /\ \/ \E r \in BinaryResults(op, Top(1), Top(0)) : Replace(2, r)
           \/ Reject("DivisionByZero", 2)
  BY DEF BinaryOp
<1>2. Consumes(op) = 2
  BY DEF Consumes, BinaryOps
<1>3. Fetching /\ HasOperands /\ 2 <= Depth
  BY <1>1, <1>2 DEF At
<1>4. BinaryResults(op, Top(1), Top(0)) \subseteq Word
  BY DEF BinaryResults
<1>5. "DivisionByZero" \in Exceptions
  BY DEF Exceptions
<1> QED BY <1>1, <1>3, <1>4, <1>5, Replacing, Rejecting

LEMMA LoadSound ==
  ASSUME IInv, Load
  PROVE  Sound /\ CodeKept
<1>1. PICK op \in {"LOAD", "LOAD_BYTE", "LOAD32"} :
        /\ At(op)
        /\ \/ Reject("MemoryBounds", 1)
           \/ \E v \in LoadedValues(op, memory[LoadedWord(op)]) : Replace(1, v)
  BY DEF Load
<1>2. Consumes(op) = 1
  BY DEF Consumes, BinaryOps
<1>3. Fetching /\ HasOperands /\ 1 <= Depth
  BY <1>1, <1>2 DEF At
<1>4. LoadedValues(op, memory[LoadedWord(op)]) \subseteq Word
  BY DEF LoadedValues
<1>5. "MemoryBounds" \in Exceptions
  BY DEF Exceptions
<1> QED BY <1>1, <1>3, <1>4, <1>5, Replacing, Rejecting

\* A store that passes its checks writes a word outside the code segment.
LEMMA Storing ==
  ASSUME IInv, Fetching, HasOperands, 2 <= Depth, NEW a \in Addr \ CodeAddr, NEW v \in Word,
         Done(NextIp, sp + 2, [memory EXCEPT ![a] = v])
  PROVE  Sound /\ CodeKept
<1> DEFINE m == [memory EXCEPT ![a] = v]
<1>1. sp + 2 \in Word /\ HEAP_START < sp + 2 /\ sp + 2 <= STACK_BASE
  BY Registers, Sizes DEF Depth, Word
<1>2. m \in [Addr -> Word] /\ \A b \in CodeAddr : m[b] = memory[b]
  BY Registers, Sizes
<1> HIDE DEF m
<1>3. Sound /\ memory' = m
  BY <1>1, <1>2, Operands, Ending DEF m
<1> QED BY <1>2, <1>3 DEF CodeKept

LEMMA StoreSound ==
  ASSUME IInv, Store
  PROVE  Sound /\ CodeKept
<1>1. PICK op \in {"STORE", "STORE_BYTE", "STORE32"} :
        /\ At(op)
        /\ \/ RefuseStore(StoredWord(op), 2)
           \/ /\ StoreAllowed(StoredWord(op))
              /\ \E v \in StoredValues(op, memory[StoredWord(op)]) :
                   Done(NextIp, sp + 2, [memory EXCEPT ![StoredWord(op)] = v])
  BY DEF Store
<1>2. Consumes(op) = 2
  BY DEF Consumes, BinaryOps
<1>3. Fetching /\ HasOperands /\ 2 <= Depth
  BY <1>1, <1>2 DEF At
<1>4. CASE RefuseStore(StoredWord(op), 2)
  <2>1. "MemoryBounds" \in Exceptions /\ "CodeSegmentProtection" \in Exceptions
    BY DEF Exceptions
  <2> QED BY <1>3, <1>4, <2>1, Rejecting DEF RefuseStore
<1>5. ASSUME StoreAllowed(StoredWord(op)),
             NEW v \in StoredValues(op, memory[StoredWord(op)]),
             Done(NextIp, sp + 2, [memory EXCEPT ![StoredWord(op)] = v])
      PROVE  Sound /\ CodeKept
  <2>1. StoredWord(op) \in Nat
    <3>1. Top(0) \in Word
      BY <1>3, StackWords, Registers, Sizes DEF Depth
    <3> QED BY <3>1, WordAssumption DEF StoredWord, WordIndex, Word
  <2>2. StoredWord(op) \in Addr \ CodeAddr
    BY <1>5, <2>1, Sizes DEF StoreAllowed, Addr, CodeAddr
  <2>3. v \in Word
    BY <1>5 DEF StoredValues
  <2> QED BY <1>3, <1>5, <2>2, <2>3, Storing
<1> QED BY <1>1, <1>4, <1>5

LEMMA FrameAccessSound ==
  ASSUME IInv, BpLoad \/ BpStore
  PROVE  Sound /\ CodeKept
<1> DEFINE adr == FrameSlot(Top(0))
<1>1. "MemoryBounds" \in Exceptions /\ "StackFrameBounds" \in Exceptions
      /\ "InvalidBPStoreIndex" \in Exceptions
  BY DEF Exceptions
<1>2. CASE BpLoad
  <2>1. Consumes("BP_LOAD") = 1
    BY DEF Consumes, BinaryOps
  <2>2. Fetching /\ HasOperands /\ 1 <= Depth
    BY <1>2, <2>1 DEF BpLoad, At
  <2>3. ASSUME InFrames(adr, 1) PROVE memory[adr] \in Word
    <3>1. Top(0) \in Word
      BY <2>2, StackWords, Registers, Sizes DEF Depth
    <3>2. adr \in Int
      BY <3>1, Registers, WordAssumption DEF FrameSlot, Word
    <3>3. adr \in Addr
      BY <2>3, <3>2, Registers, Sizes DEF InFrames, Addr
    <3> QED BY <3>3, Registers
  <2> QED BY <1>1, <1>2, <2>2, <2>3, Replacing, Rejecting DEF BpLoad
<1>3. CASE BpStore
  <2>1. Consumes("BP_STORE") = 2
    BY DEF Consumes, BinaryOps
  <2>2. Fetching /\ HasOperands /\ 2 <= Depth
    BY <1>3, <2>1 DEF BpStore, At
  <2>3. Top(0) \in Word /\ Top(1) \in Word
    BY <2>2, StackWords, Registers, Sizes DEF Depth
  <2>4. ASSUME InFrames(adr, 2) PROVE adr \in Addr \ CodeAddr
    <3>1. adr \in Int
      BY <2>3, Registers, WordAssumption DEF FrameSlot, Word
    <3> QED BY <2>4, <3>1, Registers, Sizes DEF InFrames, Addr, CodeAddr
  <2> QED BY <1>1, <1>3, <2>2, <2>3, <2>4, Storing, Rejecting DEF BpStore
<1> QED BY <1>2, <1>3

LEMMA BadStrings ==
  ASSUME IInv, Fetching, HasOperands, NEW adr, NEW n \in Nat, n <= Depth,
         ReadBadString(adr, n)
  PROVE  Sound /\ CodeKept
<1>1. {"MemoryBounds", "RuntimeError"} \subseteq Exceptions
  BY DEF Exceptions
<1>2. CASE Reject("MemoryBounds", n) \/ Reject("RuntimeError", n)
  BY <1>1, <1>2, Rejecting
<1>3. CASE phase' = "wild" /\ UNCHANGED <<ip, sp, memory, exception>>
  BY <1>3, Registers, Sizes DEF Sound, CodeKept, Word, IInv, TypeOK
<1> QED BY <1>2, <1>3 DEF ReadBadString

LEMMA PrintStringSound ==
  ASSUME IInv, PrintString
  PROVE  Sound /\ CodeKept
<1>1. Fetching /\ HasOperands /\ 0 <= Depth
  BY Registers, Sizes DEF PrintString, At, Depth
<1>2. CASE ReadBadString(Top(0), 0)
  BY <1>1, <1>2, BadStrings
<1>3. CASE Done(NextIp, sp, memory)
  <2>1. Sound /\ memory' = memory
    BY <1>1, <1>3, Registers, Operands, Ending, Sizes DEF Word
  <2> QED BY <2>1 DEF CodeKept
<1> QED BY <1>2, <1>3 DEF PrintString

(***************************************************************************)
(* Jumps and calls.                                                        *)
(***************************************************************************)
LEMMA Jumping ==
  ASSUME IInv, NEW t \in Word, NEW n \in Nat, n <= Depth, JumpTo(t, sp + n)
  PROVE  Sound /\ CodeKept
<1>1. sp + n \in Word /\ HEAP_START < sp + n /\ sp + n <= STACK_BASE
  BY Registers, Sizes DEF Depth, Word
<1>2. "IPBounds" \in Exceptions
  BY DEF Exceptions
<1>3. Sound /\ memory' = memory
  BY <1>1, <1>2, Registers, Ending DEF JumpTo
<1> QED BY <1>3 DEF CodeKept

LEMMA JumpsSound ==
  ASSUME IInv, Jmp \/ Jz
  PROVE  Sound /\ CodeKept
<1>1. OperandCount("JMP") = 1 /\ OperandCount("JZ") = 1 /\ Consumes("JZ") = 1
  BY DEF OperandCount, Consumes, BinaryOps
<1>2. CASE Jmp
  <2>1. 0 <= Depth /\ sp + 0 = sp
    BY Registers, Sizes DEF Depth
  <2> QED BY <1>1, <1>2, <2>1, Operands, Jumping DEF Jmp, At
<1>3. CASE Jz
  BY <1>1, <1>3, Operands, Jumping, Rejecting DEF Jz, At
<1> QED BY <1>2, <1>3

\* The copies a call makes fit between the heap pointer and the return address.
LEMMA CopiesFit ==
  ASSUME IInv, NEW base \in Nat, HEAP_START < base, base <= STACK_BASE, NEW nb \in Nat,
         Room(base) > 0
  PROVE  /\ ArgumentsCopied(base, nb) \in Nat
         /\ ArgumentsCopied(base, nb) <= nb
         /\ HEAP_START < base - 1 - ArgumentsCopied(base, nb)
  BY Registers, Sizes DEF Room, ArgumentsCopied, Least

\* What CALL and FUNCALL read without a check is in memory.
LEMMA CopiesInMemory ==
  ASSUME IInv, NEW base \in Nat, HEAP_START < base, base <= STACK_BASE, NEW nb \in Nat
  PROVE  CopyInBounds(base, nb)
<1> SUFFICES ASSUME NEW k \in 0..(Least(nb, Room(base)) - 1)
             PROVE  base + k < MEMORY_SIZE
  BY DEF CopyInBounds, ArgumentReads
<1>1. k <= Room(base) - 1
  BY Registers, Sizes DEF Least, Room
<1> QED BY <1>1, Registers, Sizes DEF Room

LEMMA CallMemorySound ==
  ASSUME IInv, NEW base \in Nat, HEAP_START < base, base <= STACK_BASE, NEW return \in Word,
         NEW copied \in Nat, HEAP_START < base - 1 - copied
  PROVE  /\ CallMemory(base, return, copied) \in [Addr -> Word]
         /\ \A a \in CodeAddr : CallMemory(base, return, copied)[a] = memory[a]
<1> DEFINE m == CallMemory(base, return, copied)
<1>1. ASSUME NEW a \in Addr, base - 1 - copied <= a, a < base - 1
      PROVE  memory[base + (base - 2 - a)] \in Word
  <2>1. a \in Nat
    BY DEF Addr
  <2>2. base + (base - 2 - a) \in Addr
    BY <1>1, <2>1, Sizes DEF Addr
  <2> QED BY <2>2, Registers
<1>2. m \in [Addr -> Word]
  BY <1>1, Registers DEF CallMemory
<1>3. ASSUME NEW a \in CodeAddr PROVE m[a] = memory[a]
  <2>1. a \in Addr /\ a \in Nat /\ a < base - 1 - copied /\ a # base - 1
    BY <1>3, Sizes DEF CodeAddr
  <2> QED BY <2>1 DEF CallMemory
<1> QED BY <1>2, <1>3

LEMMA EnterCalleeSound ==
  ASSUME IInv, NEW target \in Word, NEW return \in Word, NEW base \in Nat,
         HEAP_START < base, base <= STACK_BASE, NEW nb \in Nat,
         EnterCallee(target, return, base, nb)
  PROVE  Sound /\ CodeKept
<1> DEFINE copied == ArgumentsCopied(base, nb)
           called == CallMemory(base, return, copied)
<1>1. "StackOverflow" \in Exceptions /\ "IPBounds" \in Exceptions
  BY DEF Exceptions
<1>2. CASE Throw("StackOverflow", return, base, memory)
  <2>1. Sound /\ memory' = memory
    BY <1>1, <1>2, Registers, Ending, Sizes DEF Word
  <2> QED BY <2>1 DEF CodeKept
<1>3. ASSUME Room(base) > 0,
             \/ Throw("StackOverflow", target, base - 1 - copied, called)
             \/ /\ copied = nb
                /\ Done(target, base - 1 - nb, called) \/ Throw("IPBounds", target, base - 1 - nb, called)
      PROVE  Sound /\ CodeKept
  <2>1. copied \in Nat /\ HEAP_START < base - 1 - copied
    BY <1>3, CopiesFit
  <2>2. base - 1 - copied \in Word /\ base - 1 - copied <= STACK_BASE
    BY <2>1, Sizes DEF Word
  <2>3. called \in [Addr -> Word] /\ \A a \in CodeAddr : called[a] = memory[a]
    BY <2>1, CallMemorySound
  <2> HIDE DEF copied, called
  <2>4. Sound /\ memory' = called
    BY <1>1, <1>3, <2>1, <2>2, <2>3, Ending
  <2> QED BY <2>3, <2>4 DEF CodeKept
<1> QED BY <1>2, <1>3 DEF EnterCallee

LEMMA CallsSound ==
  ASSUME IInv, Call \/ Funcall
  PROVE  Sound /\ CodeKept
<1>1. CASE Call
  <2>1. OperandCount("CALL") = 2
    BY DEF OperandCount
  <2>2. Operand(1) \in Word /\ Operand(2) \in Nat /\ NextIp \in Word
    BY <1>1, <2>1, Operands DEF Call, At, Word
  <2> QED BY <1>1, <2>2, Registers, EnterCalleeSound DEF Call
<1>2. CASE Funcall
  <2>1. Consumes("FUNCALL") = 2
    BY DEF Consumes, BinaryOps
  <2>2. Fetching /\ HasOperands /\ 2 <= Depth
    BY <1>2, <2>1 DEF Funcall, At
  <2>3. Top(0) \in Word /\ Top(1) \in Word /\ Top(1) \in Nat
    BY <2>2, StackWords, Registers, Sizes DEF Depth, Word
  <2>4. sp + 2 \in Nat /\ HEAP_START < sp + 2 /\ sp + 2 <= STACK_BASE
    BY <2>2, Registers, Sizes DEF Depth
  <2>5. "InvalidAddress" \in Exceptions
    BY DEF Exceptions
  <2> QED BY <1>2, <2>2, <2>3, <2>4, <2>5, Operands, EnterCalleeSound, Rejecting DEF Funcall
<1> QED BY <1>1, <1>2

LEMMA RetSound ==
  ASSUME IInv, Ret
  PROVE  Sound /\ CodeKept
<1> DEFINE n == Operand(1)
           newSp == sp + 2 * n + 1
           m == [memory EXCEPT ![newSp] = Top(0)]
<1>1. OperandCount("RET") = 1 /\ Consumes("RET") = 2 * n + 2
  BY DEF OperandCount, Consumes, BinaryOps
<1>2. n \in Nat /\ 2 * n + 2 <= Depth
  BY <1>1, Operands DEF Ret, At, Word
<1>3. Top(0) \in Word /\ Top(n + 1) \in Word
  BY <1>2, StackWords, Registers, Sizes DEF Depth
<1>4. newSp \in Word /\ HEAP_START < newSp /\ newSp <= STACK_BASE /\ newSp \notin CodeAddr
  BY <1>2, Registers, Sizes DEF Depth, Word, CodeAddr
<1>5. m \in [Addr -> Word] /\ \A a \in CodeAddr : m[a] = memory[a]
  BY <1>3, <1>4, Registers, Sizes
<1>6. "IPBounds" \in Exceptions
  BY DEF Exceptions
<1>7. \/ Done(Top(n + 1), newSp, m)
      \/ Throw("IPBounds", Top(n + 1), newSp, m)
  BY DEF Ret
<1> HIDE DEF newSp, m
<1>8. Sound /\ memory' = m
  BY <1>3, <1>4, <1>5, <1>6, <1>7, Ending
<1> QED BY <1>5, <1>8 DEF CodeKept

(***************************************************************************)
(* System calls.                                                           *)
(***************************************************************************)
LEMMA CCallReady ==
  ASSUME IInv, At("C_CALL")
  PROVE  /\ Fetching /\ HasOperands
         /\ Top(1) \in Nat /\ 2 + Top(1) \in Nat /\ 2 + Top(1) <= Depth
         /\ \A j \in 0..(Top(1) - 1) : Arg(j) \in Word
<1>1. Consumes("C_CALL") = IF Depth < 2 THEN 2 ELSE 2 + Top(1)
  BY DEF Consumes, CCallConsumes, BinaryOps
<1>2. 2 <= Depth
  BY <1>1, Registers, Sizes DEF At, Depth
<1>3. Top(1) \in Nat
  BY <1>2, StackWords, Registers, Sizes DEF Depth, Word
<1>4. 2 + Top(1) <= Depth
  BY <1>1, <1>2, <1>3, Registers, Sizes DEF At, Depth
<1>5. ASSUME NEW j \in 0..(Top(1) - 1) PROVE Arg(j) \in Word
  <2>1. 1 + Top(1) - j \in Nat /\ 1 + Top(1) - j < Depth
    BY <1>3, <1>4, <1>5, Registers, Sizes DEF Depth
  <2> QED BY <2>1, StackWords DEF Arg
<1> QED BY <1>3, <1>4, <1>5 DEF At

LEMMA CCallSimpleSound ==
  ASSUME IInv, CCallRefused \/ CCallPlain \/ CCallOpen \/ CCallWrite
  PROVE  Sound /\ CodeKept
<1>1. At("C_CALL")
  BY DEF CCallRefused, CCallPlain, CCallOpen, CCallWrite, CallsC
<1>2. "RuntimeError" \in Exceptions /\ "MemoryBounds" \in Exceptions
  BY DEF Exceptions
<1>3. ExternalResults \subseteq Word
  BY HostAssumption
<1> DEFINE n == 2 + Top(1)
<1>4. Fetching /\ HasOperands /\ n \in Nat /\ 0 < n /\ n <= Depth
  BY <1>1, CCallReady
<1>5. CASE CCallRefused
  BY <1>2, <1>4, <1>5, Rejecting DEF CCallRefused
<1>6. CASE CCallPlain
  BY <1>3, <1>4, <1>6, Replacing DEF CCallPlain
<1>7. CASE CCallOpen
  BY <1>3, <1>4, <1>7, Replacing, BadStrings DEF CCallOpen
<1>8. CASE CCallWrite
  BY <1>2, <1>3, <1>4, <1>8, Replacing, Rejecting DEF CCallWrite
<1> QED BY <1>5, <1>6, <1>7, <1>8

\* Bytes stored outside the code segment leave it as it was.
LEMMA BytesStored ==
  ASSUME IInv, NEW stored, \A b \in stored : WordIndex(b) \in Addr \ CodeAddr,
         NEW m \in WithBytes(stored)
  PROVE  m \in [Addr -> Word] /\ \A a \in CodeAddr : m[a] = memory[a]
<1> DEFINE touched == {WordIndex(b) : b \in stored}
<1>1. PICK new \in [touched -> Word] :
        m = [a \in Addr |-> IF a \in touched THEN new[a] ELSE memory[a]]
  BY DEF WithBytes
<1>2. touched \subseteq Addr \ CodeAddr
  OBVIOUS
<1> HIDE DEF touched
<1>3. m \in [Addr -> Word]
  BY <1>1, Registers
<1>4. ASSUME NEW a \in CodeAddr PROVE m[a] = memory[a]
  BY <1>1, <1>2, Sizes
<1> QED BY <1>3, <1>4

LEMMA CCallReadSound ==
  ASSUME IInv, CCallRead
  PROVE  Sound /\ CodeKept
<1> DEFINE popped == 2 + Top(1)
           target(i) == WordIndex(ByteAddress(Arg(1), i))
           bytes(n) == {ByteAddress(Arg(1), i) : i \in 0..(n - 1)}
<1>1. At("C_CALL") /\ Top(1) = 3
  BY DEF CCallRead, CallsC, Arity
<1>2. Fetching /\ HasOperands /\ popped \in Nat /\ 0 < popped /\ popped <= Depth
  BY <1>1, CCallReady
<1>3. Arg(1) \in Word /\ Arg(2) \in Word
  BY <1>1, CCallReady
<1>4. ASSUME NEW n \in Nat, \A i \in 0..(n - 1) : StoreAllowed(target(i)), NEW m \in WithBytes(bytes(n))
      PROVE  m \in [Addr -> Word] /\ \A a \in CodeAddr : m[a] = memory[a]
  <2>1. ASSUME NEW i \in 0..(n - 1) PROVE target(i) \in Addr \ CodeAddr
    <3>1. i \in Nat
      OBVIOUS
    <3>2. ByteAddress(Arg(1), i) \in Nat
      BY <1>3, <3>1, WordAssumption DEF ByteAddress, Word
    <3>3. target(i) \in Nat
      BY <3>2, WordAssumption DEF WordIndex
    <3> QED BY <1>4, <3>3, Sizes DEF StoreAllowed, Addr, CodeAddr
  <2>2. \A b \in bytes(n) : WordIndex(b) \in Addr \ CodeAddr
    BY <2>1
  <2> HIDE DEF bytes
  <2> QED BY <1>4, <2>2, BytesStored
<1>5. {"MemoryBounds", "CodeSegmentProtection", "RuntimeError"} \subseteq Exceptions
  BY DEF Exceptions
<1>6. sp + popped \in Word /\ HEAP_START < sp + popped /\ sp + popped <= STACK_BASE
      /\ sp + popped - 1 \in Word /\ HEAP_START < sp + popped - 1
      /\ sp + popped - 1 <= STACK_BASE /\ sp + popped - 1 \notin CodeAddr
  BY <1>2, Registers, Sizes DEF Depth, Word, CodeAddr
<1>7. CASE Replace(popped, WordSize - 1)
  BY <1>2, <1>7, Replacing, WordAssumption DEF Word
<1>8. ASSUME NEW n \in 0..Least(Arg(2), MaxRead),
             \A i \in 0..(n - 1) : StoreAllowed(target(i)),
             NEW m \in WithBytes(bytes(n)),
             Done(NextIp, sp + popped - 1, [m EXCEPT ![sp + popped - 1] = n])
      PROVE  Sound /\ CodeKept
  <2>1. n \in Nat /\ n <= Arg(2)
    BY <1>3, <1>8, HostAssumption DEF Least, Word
  <2>2. n \in Word
    BY <1>3, <2>1, Sizes DEF Word
  <2>3. m \in [Addr -> Word] /\ \A a \in CodeAddr : m[a] = memory[a]
    <3>1. (\A i \in 0..(n - 1) : StoreAllowed(target(i))) /\ m \in WithBytes(bytes(n))
      BY <1>8
    <3> HIDE DEF target, bytes
    <3> QED BY <1>4, <2>1, <3>1
  <2> DEFINE top == sp + popped - 1
             after == [m EXCEPT ![top] = n]
  <2>4. after \in [Addr -> Word] /\ \A a \in CodeAddr : after[a] = memory[a]
    <3>1. top \notin CodeAddr
      BY <1>6
    <3> HIDE DEF top
    <3> QED BY <2>2, <2>3, <3>1, Sizes
  <2>5. Done(NextIp, sp + popped - 1, after)
    BY <1>8
  <2> HIDE DEF after, popped
  <2>6. Sound /\ memory' = after
    BY <1>2, <1>6, <2>4, <2>5, Operands, Ending
  <2> QED BY <2>4, <2>6 DEF CodeKept
<1>9. ASSUME NEW n \in 0..Least(Arg(2), MaxRead), NEW bad \in 0..(n - 1),
             \A i \in 0..(bad - 1) : StoreAllowed(target(i)),
             NEW m \in WithBytes(bytes(bad)),
             NEW e \in Exceptions, Throw(e, NextIp, sp + popped, m)
      PROVE  Sound /\ CodeKept
  <2>1. bad \in Nat
    BY <1>9
  <2>2. m \in [Addr -> Word] /\ \A a \in CodeAddr : m[a] = memory[a]
    BY <1>4, <1>9, <2>1
  <2> HIDE DEF popped
  <2>3. Sound /\ memory' = m
    BY <1>2, <1>6, <1>9, <2>2, Operands, Ending
  <2> QED BY <2>2, <2>3 DEF CodeKept
<1>10. CASE Reject("RuntimeError", popped)
  BY <1>2, <1>5, <1>10, Rejecting
<1> QED BY <1>5, <1>7, <1>8, <1>9, <1>10 DEF CCallRead

(***************************************************************************)
(* Frames, stopping, interrupts, and what refuses an instruction.          *)
(***************************************************************************)
LEMMA EnterSound ==
  ASSUME IInv, Enter
  PROVE  Sound /\ CodeKept /\ bp' \in Word
<1> DEFINE n == Operand(1)
           frame == sp - n - 1
<1>1. OperandCount("ENTER") = 1
  BY DEF OperandCount
<1>2. Fetching /\ HasOperands /\ n \in Nat
  BY <1>1, Operands DEF Enter, At, Word
<1>3. ASSUME NEW first, NEW last
      PROVE  Zeroed(first, last) \in [Addr -> Word]
  BY Registers, Sizes DEF Zeroed, Word
<1>4. ASSUME NEW first \in Nat, CODE_SIZE <= first, NEW last, NEW a \in CodeAddr
      PROVE  Zeroed(first, last)[a] = memory[a]
  BY <1>4, Sizes DEF Zeroed, CodeAddr, Addr
<1>5. ASSUME Throw("StackOverflow", NextIp, hp + 1, Zeroed(hp + 1, sp - 1)), bp' = bp
      PROVE  Sound /\ CodeKept /\ bp' \in Word
  <2> DEFINE m == Zeroed(hp + 1, sp - 1)
  <2>1. m \in [Addr -> Word] /\ \A a \in CodeAddr : m[a] = memory[a]
    BY <1>3, <1>4, Registers, Sizes
  <2>2. "StackOverflow" \in Exceptions
    BY DEF Exceptions
  <2> HIDE DEF m
  <2>3. Sound /\ memory' = m
    BY <1>2, <1>5, <2>1, <2>2, Registers, Operands, Ending, Sizes DEF Word, m
  <2>4. bp' \in Word
    BY <1>5, Registers, Sizes DEF Word
  <2> QED BY <2>1, <2>3, <2>4 DEF CodeKept
<1>6. ASSUME Room(sp) > n, Done(NextIp, frame, [Zeroed(frame, sp - 1) EXCEPT ![frame] = bp]),
             bp' = frame
      PROVE  Sound /\ CodeKept /\ bp' \in Word
  <2> DEFINE z == Zeroed(frame, sp - 1)
             m == [z EXCEPT ![frame] = bp]
  <2>1. frame \in Nat /\ HEAP_START < frame /\ frame <= STACK_BASE /\ frame \in Word
        /\ frame \notin CodeAddr
    BY <1>2, <1>6, Registers, Sizes DEF Room, Word, CodeAddr
  <2>2. z \in [Addr -> Word] /\ \A a \in CodeAddr : z[a] = memory[a]
    BY <1>3, <1>4, <2>1, Sizes
  <2>3. bp \in Word
    BY Registers, Sizes DEF Word
  <2>4. Done(NextIp, frame, m)
    BY <1>6
  <2> HIDE DEF z, frame
  <2>5. m \in [Addr -> Word] /\ \A a \in CodeAddr : m[a] = memory[a]
    BY <2>1, <2>2, <2>3, Sizes
  <2> HIDE DEF m
  <2>6. Sound /\ memory' = m
    BY <1>2, <2>1, <2>4, <2>5, Operands, Ending
  <2> QED BY <1>6, <2>1, <2>5, <2>6 DEF CodeKept
<1> QED BY <1>5, <1>6 DEF Enter

LEMMA LeaveSound ==
  ASSUME IInv, Leave
  PROVE  Sound /\ CodeKept /\ bp' \in Word
<1> DEFINE n == Operand(1) + 2
<1>1. OperandCount("LEAVE") = 1 /\ Consumes("LEAVE") = n
  BY DEF OperandCount, Consumes, BinaryOps
<1>2. Fetching /\ HasOperands /\ n \in Nat /\ 1 < n /\ n <= Depth
  BY <1>1, Operands DEF Leave, At, Word
<1>3. Top(0) \in Word /\ Top(1) \in Word
  BY <1>2, StackWords, Registers, Sizes DEF Depth
<1> HIDE DEF n
<1>4. Replace(n, Top(0)) /\ bp' = Top(1)
  BY DEF Leave, n
<1> QED BY <1>2, <1>3, <1>4, Replacing

LEMMA RefusalsSound ==
  ASSUME IInv, \/ StackUnderflow \/ NoRoomForArguments \/ UnknownOpcode
               \/ MissingOperand \/ NoEvalContext
  PROVE  Sound /\ CodeKept /\ bp' \in Word
<1>1. {"StackEmpty", "StackUnderflow", "UnknownOpcode", "IPBounds", "RuntimeError"} \subseteq Exceptions
  BY DEF Exceptions
<1>2. bp \in Word /\ 0 \in Nat /\ 0 <= Depth /\ sp \in Word
  BY Registers, Sizes DEF Word, Depth
<1>3. CASE StackUnderflow
  <2>1. Sound /\ memory' = memory
    <3>1. UnderflowIp \in Word /\ STACK_BASE \in Word
      <4>1. NextIp \in Word
        BY <1>3, Operands DEF StackUnderflow
      <4>2. ip \in Nat /\ ip < MEMORY_SIZE
        BY <1>3, Registers DEF StackUnderflow
      <4> QED BY <4>1, <4>2, Sizes DEF UnderflowIp, Word
    <3>2. \E e \in Exceptions : Throw(e, UnderflowIp, STACK_BASE, memory)
      BY <1>1, <1>3 DEF StackUnderflow
    <3> QED BY <3>1, <3>2, Registers, Ending, Sizes
  <2>2. bp' \in Word
    <3>1. CASE Op = "LEAVE" /\ Depth >= 2
      <4>1. Top(1) \in Word
        BY <3>1, StackWords, Registers, Sizes DEF Depth
      <4> QED BY <1>3, <3>1, <4>1 DEF StackUnderflow
    <3> QED BY <1>2, <1>3, <3>1 DEF StackUnderflow
  <2> QED BY <2>1, <2>2 DEF CodeKept
<1>4. CASE UnknownOpcode
  <2>1. OperandCount("unknown") = 0
    BY DEF OperandCount
  <2>2. HasOperands
    BY <1>4, <2>1, Registers, Sizes DEF UnknownOpcode, HasOperands
  <2> QED BY <1>1, <1>2, <1>4, <2>2, Rejecting DEF UnknownOpcode
<1>5. CASE MissingOperand
  <2>1. Sound /\ memory' = memory
    BY <1>1, <1>2, <1>5, Registers, Ending, Sizes DEF MissingOperand, Word
  <2> QED BY <1>2, <1>5, <2>1 DEF CodeKept, MissingOperand
<1>6. CASE NoEvalContext
  <2>1. OperandCount(Op) = 0
    BY <1>6 DEF NoEvalContext, HasContext, OperandCount
  <2>2. HasOperands
    BY <1>6, <2>1, Registers, Sizes DEF NoEvalContext, HasOperands
  <2> QED BY <1>1, <1>2, <1>6, <2>2, Rejecting DEF NoEvalContext
<1>7. CASE NoRoomForArguments
  BY <1>1, <1>2, <1>7, Rejecting DEF NoRoomForArguments
<1> QED BY <1>3, <1>4, <1>5, <1>6, <1>7

\* The instructions that stop the machine or change its interrupt state.
HandlersTyped == signal_handlers' \in [Signals -> Addr] /\ interrupt_flag' \in BOOLEAN

LEMMA StopsSound ==
  ASSUME IInv, Halt \/ Abort
  PROVE  Sound /\ CodeKept /\ running' \in BOOLEAN
<1>0. running \in BOOLEAN
  BY DEF IInv, TypeOK
<1>1. CASE Halt
  <2>1. Sound /\ memory' = memory
    BY <1>1, Registers, Operands, Ending, Sizes DEF Halt, At, Word
  <2> QED BY <1>1, <2>1 DEF CodeKept, Halt
<1>2. CASE Abort
  <2>1. Consumes("ABORT") = 1
    BY DEF Consumes, BinaryOps
  <2>2. Fetching /\ HasOperands /\ 1 <= Depth
    BY <1>2, <2>1 DEF Abort, At
  <2>3. Drop(1) \/ ReadBadString(Top(0), 1)
    BY <1>2 DEF Abort
  <2>4. Sound /\ CodeKept
    BY <2>2, <2>3, Rejecting, BadStrings
  <2> QED BY <1>0, <1>2, <2>4 DEF Abort
<1> QED BY <1>1, <1>2

LEMMA InterruptsSound ==
  ASSUME IInv, Cli \/ Sti \/ Iret \/ SignalReg
  PROVE  Sound /\ CodeKept /\ HandlersTyped
<1>1. signal_handlers \in [Signals -> Addr] /\ interrupt_flag \in BOOLEAN
  BY DEF IInv, TypeOK
<1>2. CASE Cli \/ Sti
  <2>1. Sound /\ memory' = memory
    BY <1>2, Registers, Operands, Ending, Sizes DEF Cli, Sti, At, Word
  <2> QED BY <1>1, <1>2, <2>1 DEF CodeKept, HandlersTyped, Cli, Sti
<1>3. CASE Iret
  <2>1. Consumes("IRET") = 1
    BY DEF Consumes, BinaryOps
  <2>2. Fetching /\ HasOperands /\ 1 <= Depth
    BY <1>3, <2>1 DEF Iret, At
  <2>3. Top(0) \in Word
    BY <2>2, StackWords, Registers, Sizes DEF Depth
  <2>4. Sound /\ CodeKept
    BY <1>3, <2>2, <2>3, Jumping DEF Iret
  <2> QED BY <1>1, <1>3, <2>4 DEF HandlersTyped, Iret
<1>4. CASE SignalReg
  <2>1. Consumes("SIGNAL_REG") = 2
    BY DEF Consumes, BinaryOps
  <2>2. Fetching /\ HasOperands /\ 2 <= Depth
    BY <1>4, <2>1 DEF SignalReg, At
  <2>3. Top(1) \in Word
    BY <2>2, StackWords, Registers, Sizes DEF Depth
  <2>4. "InvalidSignal" \in Exceptions /\ "InvalidAddress" \in Exceptions
    BY DEF Exceptions
  <2>5. Sound /\ CodeKept
    BY <1>4, <2>2, <2>4, Rejecting DEF SignalReg
  <2>6. Top(1) < MEMORY_SIZE => Top(1) \in Addr
    BY <2>3, Sizes DEF Word, Addr
  <2>7. HandlersTyped
    BY <1>1, <1>4, <2>6 DEF SignalReg, HandlersTyped
  <2> QED BY <2>5, <2>7
<1> QED BY <1>2, <1>3, <1>4

(***************************************************************************)
(* Loading code, by the host or by EVAL and COMPILE.                       *)
(***************************************************************************)
LoadsOnly == /\ next_code <= next_code' /\ next_code' <= CODE_SIZE
             /\ \A a \in CodeAddr : memory'[a] # memory[a] => next_code <= a /\ a < next_code'

LEMMA Loading ==
  ASSUME IInv, NEW p \in Programs \cup EvalPrograms, Fits(p, next_code)
  PROVE  /\ Loaded(p, next_code) \in [Addr -> Word]
         /\ Len(p.code) \in Nat
         /\ \A a \in CodeAddr : Loaded(p, next_code)[a] # memory[a]
                                  => next_code <= a /\ a < next_code + Len(p.code)
<1> DEFINE m == Loaded(p, next_code)
<1>1. /\ p.code \in Seq(Word) /\ Len(p.code) \in Nat
      /\ DOMAIN p.data \subseteq Addr \ CodeAddr
      /\ \A a \in DOMAIN p.data : p.data[a] \in Word
  BY HostAssumption
<1>2. next_code \in Nat
  BY DEF IInv, TypeOK
<1>3. ASSUME NEW a \in Addr, next_code <= a, a < next_code + Len(p.code)
      PROVE  p.code[a - next_code + 1] \in Word
  <2>1. a - next_code + 1 \in 1..Len(p.code)
    BY <1>1, <1>2, <1>3 DEF Addr
  <2> QED BY <1>1, <2>1
<1>4. m \in [Addr -> Word]
  BY <1>1, <1>3, Registers DEF Loaded
<1>5. ASSUME NEW a \in CodeAddr, ~(next_code <= a /\ a < next_code + Len(p.code))
      PROVE  m[a] = memory[a]
  <2>1. a \in Addr /\ a \notin DOMAIN p.data
    BY <1>1, Sizes
  <2> QED BY <1>5, <2>1 DEF Loaded
<1> QED BY <1>1, <1>4, <1>5

LEMMA CompilesSound ==
  ASSUME IInv, Eval \/ Compile
  PROVE  Sound /\ LoadsOnly /\ next_code' \in Nat
<1>1. PICK op \in {"EVAL", "COMPILE"} : CompileString(op)
  BY DEF Eval, Compile
<1>2. Consumes(op) = 1
  BY DEF Consumes, BinaryOps
<1>3. Fetching /\ HasOperands /\ 1 <= Depth
  BY <1>1, <1>2 DEF CompileString, CallCompiled, At
<1>4. "RuntimeError" \in Exceptions /\ "ProgramTooLarge" \in Exceptions
  BY DEF Exceptions
<1>5. next_code \in Nat /\ next_code <= CODE_SIZE
  BY DEF IInv, TypeOK
<1>6. ASSUME Sound /\ CodeKept /\ next_code' = next_code
      PROVE  Sound /\ LoadsOnly /\ next_code' \in Nat
  BY <1>5, <1>6 DEF LoadsOnly, CodeKept
<1>7. CASE ReadBadString(Top(0), 1) /\ UNCHANGED next_code
  BY <1>3, <1>6, <1>7, BadStrings
<1>8. CASE (Reject("RuntimeError", 1) \/ Reject("ProgramTooLarge", 1)) /\ UNCHANGED next_code
  BY <1>3, <1>4, <1>6, <1>8, Rejecting
<1>9. ASSUME NEW p \in EvalPrograms, Fits(p, next_code),
             next_code' = next_code + Len(p.code),
             NEW i \in {next_code, NextIp}, NEW w \in {next_code, NextIp},
             Done(i, sp, [Loaded(p, next_code) EXCEPT ![sp] = w])
      PROVE  Sound /\ LoadsOnly /\ next_code' \in Nat
  <2> DEFINE l == Loaded(p, next_code)
             m == [l EXCEPT ![sp] = w]
  <2>1. /\ l \in [Addr -> Word] /\ Len(p.code) \in Nat
        /\ \A a \in CodeAddr : l[a] # memory[a] => next_code <= a /\ a < next_code + Len(p.code)
    BY <1>9, Loading
  <2>2. i \in Word /\ w \in Word
    BY <1>3, <1>5, <1>9, Operands, Sizes DEF Word
  <2>3. sp \in Word /\ sp \notin CodeAddr
    BY Registers, Sizes DEF Word, CodeAddr
  <2>4. Done(i, sp, m)
    BY <1>9
  <2> HIDE DEF l
  <2>5. m \in [Addr -> Word] /\ \A a \in CodeAddr : m[a] = l[a]
    BY <2>1, <2>2, <2>3, Sizes
  <2> HIDE DEF m
  <2>6. Sound /\ memory' = m
    BY <2>2, <2>3, <2>4, <2>5, Registers, Ending
  <2>7. next_code <= next_code' /\ next_code' <= CODE_SIZE /\ next_code' \in Nat
    BY <1>5, <1>9, <2>1, Sizes DEF Fits
  <2> QED BY <1>9, <2>1, <2>5, <2>6, <2>7 DEF LoadsOnly
<1> QED BY <1>1, <1>7, <1>8, <1>9 DEF CompileString, CallCompiled

-----------------------------------------------------------------------------
(***************************************************************************)
(* Every step keeps the invariant, and changes code only where it loads.   *)
(***************************************************************************)
CodeStep ==
  \A a \in CodeAddr : memory'[a] # memory[a] => next_code <= a /\ a < next_code'

\* A sound step that leaves the rest well-typed keeps the invariant.
LEMMA SoundKeeps ==
  ASSUME IInv, Sound, bp' \in Word, hp' = hp,
         {running', interrupt_flag', hit_instruction_limit', eval_ctx'} \subseteq BOOLEAN,
         signal_handlers' \in [Signals -> Addr], signal_count' \in [Signals -> Nat],
         {instruction_count', max_instructions', next_code', host_calls'} \subseteq Nat,
         next_code' <= CODE_SIZE
  PROVE  IInv'
<1>1. TypeOK'
  BY DEF TypeOK, IInv, Sound
<1>2. StackBounds' /\ FetchInBounds'
  BY Registers DEF StackBounds, FetchInBounds, Fetching, Sound
<1> QED BY <1>1, <1>2 DEF IInv

LEMMA InstructionKeeps ==
  ASSUME IInv, Instruction
  PROVE  IInv' /\ CodeStep
<1>1. /\ bp \in Word /\ signal_handlers \in [Signals -> Addr] /\ next_code \in Nat
      /\ next_code <= CODE_SIZE
      /\ running \in BOOLEAN /\ interrupt_flag \in BOOLEAN
  BY DEF IInv, TypeOK
<1>2. /\ hp' = hp
      /\ {hit_instruction_limit', eval_ctx'} \subseteq BOOLEAN
      /\ signal_count' \in [Signals -> Nat]
      /\ {instruction_count', max_instructions', host_calls'} \subseteq Nat
  BY DEF Instruction, limitVars, IInv, TypeOK
<1>3. ASSUME Sound, CodeKept, bp' \in Word, running' \in BOOLEAN, HandlersTyped,
             next_code' = next_code
      PROVE  IInv' /\ CodeStep
  BY <1>1, <1>2, <1>3, SoundKeeps DEF HandlersTyped, CodeStep, CodeKept
<1>4. CASE DataInstruction
  <2>1. Sound /\ CodeKept
    BY <1>4, MovesSound, SwapSound, PrintStringSound, BinaryOpSound, LoadSound, StoreSound,
       FrameAccessSound, JumpsSound, CallsSound, RetSound, CCallSimpleSound, CCallReadSound
       DEF DataInstruction
  <2>2. bp' \in Word /\ running' \in BOOLEAN /\ HandlersTyped /\ next_code' = next_code
    BY <1>1, <1>4 DEF DataInstruction, HandlersTyped
  <2> QED BY <1>3, <2>1, <2>2
<1>5. CASE FrameInstruction
  <2>1. Sound /\ CodeKept /\ bp' \in Word
    BY <1>5, EnterSound, LeaveSound, RefusalsSound DEF FrameInstruction
  <2>2. running' \in BOOLEAN /\ HandlersTyped /\ next_code' = next_code
    BY <1>1, <1>5 DEF FrameInstruction, HandlersTyped
  <2> QED BY <1>3, <2>1, <2>2
<1>6. CASE StopInstruction
  <2>1. Sound /\ CodeKept /\ running' \in BOOLEAN
    BY <1>6, StopsSound DEF StopInstruction
  <2>2. bp' \in Word /\ HandlersTyped /\ next_code' = next_code
    BY <1>1, <1>6 DEF StopInstruction, HandlersTyped
  <2> QED BY <1>3, <2>1, <2>2
<1>7. CASE InterruptInstruction
  <2>1. Sound /\ CodeKept /\ HandlersTyped
    BY <1>7, InterruptsSound DEF InterruptInstruction
  <2>2. bp' \in Word /\ running' \in BOOLEAN /\ next_code' = next_code
    BY <1>1, <1>7 DEF InterruptInstruction
  <2> QED BY <1>3, <2>1, <2>2
<1>8. CASE CompileInstruction
  <2>1. Sound /\ LoadsOnly /\ next_code' \in Nat
    BY <1>8, CompilesSound DEF CompileInstruction
  <2>2. bp' \in Word /\ running' \in BOOLEAN /\ HandlersTyped
    BY <1>1, <1>8 DEF CompileInstruction, HandlersTyped
  <2>3. IInv'
    BY <1>2, <2>1, <2>2, SoundKeeps DEF HandlersTyped, LoadsOnly
  <2> QED BY <2>1, <2>3 DEF CodeStep, LoadsOnly
<1> QED BY <1>4, <1>5, <1>6, <1>7, <1>8 DEF Instruction

LEMMA LoopKeeps ==
  ASSUME IInv, TurnQuietly \/ (\E s \in Signals : Interrupt(s)) \/ Return
  PROVE  IInv' /\ CodeStep
<1> USE DEF interruptVars, hostVars
<1>1. CASE TurnQuietly
  BY <1>1, Registers DEF TurnQuietly, GoesOn, IInv, TypeOK, StackBounds, FetchInBounds, Fetching, CodeStep
<1>2. ASSUME NEW s \in Signals, Interrupt(s) PROVE IInv' /\ CodeStep
  <2>0. /\ signal_count \in [Signals -> Nat] /\ signal_count[s] > 0
        /\ signal_handlers \in [Signals -> Addr]
    BY <1>2 DEF IInv, TypeOK, Interrupt, Deliverable
  <2>1. CASE /\ Room(sp) > 0
             /\ sp' = sp - 1 /\ memory' = [memory EXCEPT ![sp - 1] = ip]
             /\ ip' = signal_handlers[s]
             /\ signal_count' = [signal_count EXCEPT ![s] = @ - 1]
             /\ phase' = "fetch" /\ exception' = exception
    <3>1. sp' \in Word /\ HEAP_START < sp' /\ sp' <= STACK_BASE /\ sp' \notin CodeAddr
      BY <2>1, Registers, Sizes DEF Room, Word, CodeAddr
    <3>2. memory' \in [Addr -> Word] /\ \A a \in CodeAddr : memory'[a] = memory[a]
      <4> DEFINE m == [memory EXCEPT ![sp - 1] = ip]
      <4>0. ip \in Word
        BY DEF IInv, TypeOK
      <4>1. m \in [Addr -> Word]
        BY <4>0, Registers
      <4>2. sp - 1 \notin CodeAddr
        BY <2>1, <3>1
      <4>3. \A a \in CodeAddr : m[a] = memory[a]
        BY <4>2, Registers, Sizes
      <4> QED BY <2>1, <4>1, <4>3
    <3>3. ip' \in Word /\ ip' < MEMORY_SIZE
      BY <2>0, <2>1, Sizes DEF Addr, Word
    <3>4. signal_count' \in [Signals -> Nat]
      BY <2>0, <2>1
    <3>5. instruction_count' \in Nat /\ interrupt_flag' \in BOOLEAN
      <4>1. instruction_count \in Nat
        BY DEF IInv, TypeOK
      <4>2. instruction_count' = instruction_count + 1
        BY <1>2 DEF Interrupt
      <4>3. interrupt_flag' \in BOOLEAN
        BY <1>2 DEF Interrupt
      <4> QED BY <4>1, <4>2, <4>3
    <3>6. TypeOK'
      BY <1>2, <2>1, <3>1, <3>2, <3>3, <3>4, <3>5 DEF Interrupt, IInv, TypeOK
    <3>7. StackBounds' /\ FetchInBounds' /\ next_code' <= CODE_SIZE
      BY <1>2, <3>1, <3>3, Registers DEF Interrupt, IInv, StackBounds, FetchInBounds
    <3> QED BY <3>2, <3>6, <3>7 DEF IInv, CodeStep
  <2>2. CASE Throw("StackOverflow", ip, sp, memory) /\ UNCHANGED signal_count
    <3>1. "StackOverflow" \in Exceptions
      BY DEF Exceptions
    <3>2. Sound /\ memory' = memory
      BY <2>2, <3>1, Registers, Ending, Sizes DEF Word
    <3>3. /\ bp' \in Word /\ hp' = hp
          /\ {running', hit_instruction_limit', eval_ctx'} \subseteq BOOLEAN
          /\ signal_handlers' \in [Signals -> Addr] /\ signal_count' \in [Signals -> Nat]
          /\ {max_instructions', next_code', host_calls'} \subseteq Nat
          /\ next_code' <= CODE_SIZE
      BY <1>2, <2>2 DEF Interrupt, IInv, TypeOK
    <3>4. instruction_count' \in Nat
      <4>1. instruction_count \in Nat
        BY DEF IInv, TypeOK
      <4> QED BY <1>2, <4>1 DEF Interrupt
    <3>5. interrupt_flag' \in BOOLEAN
      BY <1>2 DEF Interrupt
    <3>6. IInv'
      BY <3>2, <3>3, <3>4, <3>5, SoundKeeps
    <3> QED BY <3>2, <3>6 DEF CodeStep
  <2> QED BY <1>2, <2>1, <2>2 DEF Interrupt
<1>3. CASE Return
  BY <1>3, Registers DEF Return, IInv, TypeOK, StackBounds, FetchInBounds, Fetching, CodeStep
<1> QED BY <1>1, <1>2, <1>3

LEMMA Poking ==
  ASSUME IInv, NEW a \in Word, NEW v \in Word, StoreAllowed(a)
  PROVE  /\ [memory EXCEPT ![a] = v] \in [Addr -> Word]
         /\ \A c \in CodeAddr : [memory EXCEPT ![a] = v][c] = memory[c]
<1>1. a \notin CodeAddr
  BY Sizes DEF StoreAllowed, CodeAddr, Word
<1> QED BY <1>1, Registers, Sizes

LEMMA HostKeeps ==
  ASSUME IInv, Host
  PROVE  IInv' /\ CodeStep
<1> USE DEF interruptVars, limitVars
<1>0. HostTurn /\ host_calls \in Nat
  BY DEF Host, LoadProgram, Reset, SetIp, WriteMemory, StackPop, Execute, IInv, TypeOK
<1>1. host_calls' \in Nat /\ phase = "idle"
  BY <1>0 DEF HostTurn
<1>2. {"none", "ProgramTooLarge", "MemoryBounds", "CodeSegmentProtection", "StackUnderflow"}
        \subseteq Exceptions \cup {"none"}
  BY DEF Exceptions
<1>3. ASSUME NEW p \in Programs, LoadProgram(p) PROVE IInv' /\ CodeStep
  <2>1. next_code \in Nat
    BY DEF IInv, TypeOK
  <2>2. CASE /\ Fits(p, next_code) /\ exception' = "none"
             /\ memory' = Loaded(p, next_code) /\ next_code' = next_code + Len(p.code)
    <3>1. /\ memory' \in [Addr -> Word] /\ next_code' \in Nat /\ next_code' <= CODE_SIZE
          /\ CodeStep
      BY <2>1, <2>2, Loading DEF Fits, CodeStep
    <3> QED BY <1>1, <1>2, <1>3, <2>2, <3>1 DEF LoadProgram, IInv, TypeOK, StackBounds, FetchInBounds, Fetching
  <2>3. CASE exception' = "ProgramTooLarge" /\ UNCHANGED <<memory, next_code>>
    BY <1>1, <1>2, <1>3, <2>3 DEF LoadProgram, IInv, TypeOK, StackBounds, FetchInBounds, Fetching, CodeStep
  <2> QED BY <1>3, <2>2, <2>3 DEF LoadProgram
<1>4. CASE Reset
  <2>1. 0 \in Word /\ STACK_BASE \in Word /\ HEAP_START < STACK_BASE
    BY Sizes DEF Word
  <2>2. signal_count' \in [Signals -> Nat]
    BY <1>4 DEF Reset
  <2>3. /\ {ip', sp', bp', hp'} \subseteq Word /\ StackBounds'
        /\ next_code' \in Nat /\ next_code' <= CODE_SIZE
    BY <1>4, <2>1, Registers, Sizes DEF Reset, IInv, TypeOK, StackBounds
  <2>4. {running', interrupt_flag', hit_instruction_limit', eval_ctx'} \subseteq BOOLEAN
    BY <1>4 DEF Reset, IInv, TypeOK
  <2>5. /\ memory' \in [Addr -> Word] /\ signal_handlers' \in [Signals -> Addr]
        /\ instruction_count' \in Nat /\ max_instructions' \in Nat
        /\ exception' \in Exceptions \cup {"none"}
    BY <1>4 DEF Reset, IInv, TypeOK
  <2>6. TypeOK'
    BY <1>1, <1>4, <2>2, <2>3, <2>4, <2>5 DEF Reset, TypeOK
  <2> QED BY <1>1, <1>4, <2>3, <2>6 DEF Reset, IInv, FetchInBounds, Fetching, CodeStep
<1>5. ASSUME NEW a \in EntryPoints, SetIp(a) PROVE IInv' /\ CodeStep
  <2>1. a \in Word
    BY HostAssumption
  <2> QED BY <1>1, <1>2, <1>5, <2>1 DEF SetIp, IInv, TypeOK, StackBounds, FetchInBounds, Fetching, CodeStep
<1>6. ASSUME NEW w \in HostWrites, WriteMemory(w[1], w[2]) PROVE IInv' /\ CodeStep
  <2>1. w[1] \in Word /\ w[2] \in Word
    BY HostAssumption
  <2>2. memory' \in [Addr -> Word] /\ \A a \in CodeAddr : memory'[a] = memory[a]
    <3>1. CASE StoreAllowed(w[1]) /\ memory' = [memory EXCEPT ![w[1]] = w[2]]
      BY <2>1, <3>1, Poking
    <3>2. CASE UNCHANGED memory
      BY <3>2, Registers
    <3> QED BY <1>6, <3>1, <3>2 DEF WriteMemory
  <2>3. exception' \in Exceptions \cup {"none"}
    BY <1>2, <1>6 DEF WriteMemory
  <2> QED BY <1>1, <1>6, <2>2, <2>3
          DEF WriteMemory, IInv, TypeOK, StackBounds, FetchInBounds, Fetching, CodeStep
<1>7. CASE StackPop
  <2>1. sp' \in Word /\ HEAP_START < sp' /\ sp' <= STACK_BASE
    BY <1>7, Registers, Sizes DEF StackPop, Depth, Word
  <2>2. exception' \in Exceptions \cup {"none"}
    BY <1>2, <1>7 DEF StackPop
  <2> QED BY <1>1, <1>7, <2>1, <2>2
          DEF StackPop, IInv, TypeOK, StackBounds, FetchInBounds, Fetching, CodeStep
<1>8. ASSUME NEW limit \in ExecuteLimits, Execute(limit) PROVE IInv' /\ CodeStep
  <2>1. limit \in Nat
    BY HostAssumption
  <2> QED BY <1>1, <1>2, <1>8, <2>1
          DEF Execute, IInv, TypeOK, StackBounds, FetchInBounds, Fetching, CodeStep
<1> QED BY <1>3, <1>4, <1>5, <1>6, <1>7, <1>8 DEF Host

LEMMA ArgumentsInMemory ==
  ASSUME IInv
  PROVE  ArgumentCopyInBounds
<1>1. ASSUME At("CALL") PROVE CopyInBounds(sp, Operand(2))
  <2>1. OperandCount("CALL") = 2
    BY DEF OperandCount
  <2>2. 2 \in 0..OperandCount(Op)
    BY <1>1, <2>1 DEF At
  <2>3. Operand(2) \in Word
    BY <1>1, <2>2, Operands DEF At
  <2>4. Operand(2) \in Nat
    BY <2>3, Sizes DEF Word
  <2> QED BY <2>4, Registers, CopiesInMemory
<1>2. ASSUME At("FUNCALL") PROVE CopyInBounds(sp + 2, Top(1))
  <2>1. Consumes("FUNCALL") = 2
    BY DEF Consumes, BinaryOps
  <2>2. 2 <= Depth
    BY <1>2, <2>1 DEF At
  <2>3. Top(1) \in Nat /\ sp + 2 \in Nat /\ HEAP_START < sp + 2 /\ sp + 2 <= STACK_BASE
    <3>1. 1 < Depth /\ sp + 2 \in Nat /\ HEAP_START < sp + 2 /\ sp + 2 <= STACK_BASE
      BY <2>2, Registers, Sizes DEF Depth
    <3>2. Top(1) \in Word
      BY <3>1, StackWords
    <3> QED BY <3>1, <3>2, Sizes DEF Word
  <2> QED BY <2>3, CopiesInMemory
<1> QED BY <1>1, <1>2 DEF ArgumentCopyInBounds

LEMMA NextKeeps ==
  ASSUME IInv, [Next]_vars
  PROVE  IInv' /\ CodeStep
<1>1. CASE Execution
  BY <1>1, InstructionKeeps, LoopKeeps DEF Execution
<1>2. CASE Host
  BY <1>2, HostKeeps
<1>3. ASSUME NEW s \in Signals, Raise(s) PROVE IInv' /\ CodeStep
  BY <1>3 DEF Raise, limitVars, hostVars, IInv, TypeOK, StackBounds, FetchInBounds, Fetching, CodeStep
<1>4. CASE UNCHANGED vars
  BY <1>4 DEF vars, interruptVars, limitVars, hostVars, IInv, TypeOK, StackBounds, FetchInBounds,
              Fetching, CodeStep
<1> QED BY <1>1, <1>2, <1>3, <1>4 DEF Next

LEMMA InitHolds == Init => IInv
<1> SUFFICES ASSUME Init PROVE IInv
  OBVIOUS
<1>1. 0 \in Word /\ STACK_BASE \in Word /\ HEAP_START \in Word /\ 0 \in Addr /\ HEAP_START < STACK_BASE
  BY Sizes DEF Word, Addr
<1>2. /\ memory \in [Addr -> Word] /\ {ip, sp, bp, hp} \subseteq Word
      /\ signal_handlers \in [Signals -> Addr] /\ signal_count \in [Signals -> Nat]
      /\ {instruction_count, max_instructions, next_code, host_calls} \subseteq Nat
  BY <1>1 DEF Init
<1>3. {running, interrupt_flag, hit_instruction_limit, eval_ctx} \subseteq BOOLEAN
  BY DEF Init
<1>4. TypeOK
  BY <1>2, <1>3 DEF Init, TypeOK
<1> QED BY <1>1, <1>4, Sizes DEF Init, IInv, StackBounds, FetchInBounds, Fetching

-----------------------------------------------------------------------------
\* The invariant holds throughout: the machine stays well-typed, its stack pointer
\* between the heap pointer and the base, and its fetches inside its memory, for
\* every program, every interleaving of signals and every order of host calls.
THEOREM Invariance == Spec => []IInv
<1>1. Init => IInv
  BY InitHolds
<1>2. IInv /\ [Next]_vars => IInv'
  BY NextKeeps
<1> QED BY <1>1, <1>2, PTL DEF Spec

\* Every variable has its type: registers and memory hold words, and a registered
\* handler is an address of the memory.
THEOREM TypeCorrect == Spec => []TypeOK
<1>1. IInv => TypeOK
  BY DEF IInv
<1> QED BY <1>1, Invariance, PTL

\* The checks of push and pop keep the stack pointer above the heap pointer and at
\* or below the base, whatever the program does.
THEOREM StackStaysBounded == Spec => []StackBounds
<1>1. IInv => StackBounds
  BY DEF IInv
<1> QED BY <1>1, Invariance, PTL

\* execute() only fetches from memory: the loop's test covers every jump and return,
\* and SIGNAL_REG's test covers the handlers it jumps to without one.
THEOREM FetchesInBounds == Spec => []FetchInBounds
<1>1. IInv => FetchInBounds
  BY DEF IInv
<1> QED BY <1>1, Invariance, PTL

\* The arguments that CALL and FUNCALL copy without a check are in memory: the copy
\* of one that is not would already have overflowed the stack.
THEOREM ArgumentCopiesInBounds == Spec => []ArgumentCopyInBounds
<1>1. IInv => ArgumentCopyInBounds
  BY ArgumentsInMemory
<1> QED BY <1>1, Invariance, PTL

\* Execution never changes a word of code, and loading only adds after what is there.
THEOREM CodeOnlyGrows == Spec => CodeAppendOnly
<1>1. IInv /\ [Next]_vars => [CodeStep]_vars
  BY NextKeeps
<1>2. Spec => [][CodeStep]_vars
  BY <1>1, Invariance, PTL DEF Spec
<1>3. CodeStep <=> \A a \in CodeAddr : memory'[a] # memory[a] => next_code <= a /\ a < next_code'
  BY DEF CodeStep
<1> QED BY <1>2, <1>3, PTL DEF CodeAppendOnly, CodeStep
-----------------------------------------------------------------------------
\* What a step does to the interrupt state the promise is about.
LEMMA StepServes ==
  ASSUME IInv, [Next]_vars
  PROVE  Counters!Next \/ UNCHANGED <<signal_count, Open>>
<1> USE DEF limitVars, hostVars
<1>1. ASSUME UNCHANGED signal_count, interrupt_flag' \in BOOLEAN PROVE Counters!Next
  <2>1. PICK accepts \in BOOLEAN : accepts = interrupt_flag'
    BY <1>1
  <2>2. Counters!Mask("vm", accepts)
    BY <1>1, <2>1 DEF Counters!Mask, Open
  <2> QED BY <2>2 DEF Counters!Next
<1>2. interrupt_flag' \in BOOLEAN
  BY NextKeeps DEF IInv, TypeOK
<1>3. CASE TurnQuietly \/ Return \/ Instruction
  BY <1>1, <1>2, <1>3 DEF TurnQuietly, Return, Instruction, interruptVars
<1>4. ASSUME NEW s \in Signals, Interrupt(s) PROVE Counters!Next
  <2>1. CASE UNCHANGED signal_count
    BY <1>1, <1>2, <2>1
  <2>2. CASE signal_count' = [signal_count EXCEPT ![s] = @ - 1]
    <3>1. interrupt_flag /\ interrupt_flag' = FALSE
      BY <1>4 DEF Interrupt
    <3>2. signal_count[s] > 0
      BY <1>4 DEF Interrupt, Deliverable
    <3>3. Open["vm"] /\ Open' = [Open EXCEPT !["vm"] = FALSE]
      BY <3>1 DEF Open
    <3>4. Counters!Serve("vm", s)
      BY <2>2, <3>2, <3>3 DEF Counters!Serve
    <3> QED BY <3>4 DEF Counters!Next
  <2> QED BY <1>4, <2>1, <2>2 DEF Interrupt
<1>5. CASE Host
  <2>1. CASE Reset
    <3>1. Counters!Discard
      BY <2>1 DEF Reset, Counters!Discard, Open
    <3> QED BY <3>1 DEF Counters!Next
  <2>2. CASE ~Reset
    BY <1>1, <1>2, <1>5, <2>2
       DEF Host, LoadProgram, SetIp, WriteMemory, StackPop, Execute, interruptVars
  <2> QED BY <2>1, <2>2
<1>6. ASSUME NEW s \in Signals, Raise(s) PROVE Counters!Next
  <2>1. Counters!Arrive(s)
    BY <1>6 DEF Raise, Counters!Arrive, Open
  <2> QED BY <2>1 DEF Counters!Next
<1>7. CASE UNCHANGED vars
  BY <1>7 DEF vars, interruptVars, Open
<1> QED BY <1>3, <1>4, <1>5, <1>6, <1>7 DEF Next, Execution

\* The machine implements SignalCounts: each interrupt takes one counted signal, and
\* masks the machine until the program enables interrupts again.
THEOREM SignalsServedOnce == Spec => ServesEachSignalOnce
<1>1. Init => Counters!Init
  <2> SUFFICES ASSUME Init PROVE Counters!Init
    OBVIOUS
  <2> QED BY DEF Init, Counters!Init, Open
<1>2. IInv /\ [Next]_vars => [Counters!Next]_<<signal_count, Open>>
  BY StepServes
<1>3. Spec => Counters!Init /\ [][Counters!Next]_<<signal_count, Open>>
  BY <1>1, <1>2, Invariance, PTL DEF Spec
<1> QED BY <1>3 DEF ServesEachSignalOnce, Counters!Spec

-----------------------------------------------------------------------------
(***************************************************************************)
(* The words of the callers are kept: what a step of execute() writes lies *)
(* under the words it consumes, unless the instruction is one that stores. *)
(* Every such step leaves the memory alone, or changes the word it leaves  *)
(* as its result, or words under the stack pointer.                        *)
(***************************************************************************)
CallerStep == phase # "idle" /\ (Fetching => Op \notin StoresToMemory) => KeepsCallerWords

LEMMA KeptUntouched == memory' = memory => KeepsCallerWords
  BY DEF KeepsCallerWords

LEMMA KeptUnder ==
  ASSUME IInv, FirstKept \in Int, NEW x \in Int, NEW w, x < FirstKept, memory' = [memory EXCEPT ![x] = w]
  PROVE  KeepsCallerWords
<1>1. ASSUME NEW a \in Addr, a >= FirstKept PROVE a # x
  BY <1>1, Registers DEF Addr
<1> QED BY <1>1, Registers DEF KeepsCallerWords

LEMMA Firsts ==
  ASSUME IInv, Fetching, HasOperands, NEW op, Op = op, Consumes(op) \in Nat
  PROVE  FirstKept \in Nat /\ FirstKept = sp + Consumes(op) /\ sp <= FirstKept
  BY Registers DEF FirstKept

\* The three ways to end that most instructions share.
LEMMA PlainEnds ==
  ASSUME NEW n, Drop(n) \/ \E e \in Exceptions : Reject(e, n)
  PROVE  memory' = memory
  BY DEF Drop, Reject, Done, Throw

LEMMA ReplaceKeeps ==
  ASSUME IInv, Fetching, HasOperands, NEW n \in Nat, Consumes(Op) = n, n > 0, NEW w, Replace(n, w)
  PROVE  KeepsCallerWords
<1>1. FirstKept = sp + n /\ sp \in Nat
  BY Registers DEF FirstKept
<1>2. memory' = [memory EXCEPT ![sp + n - 1] = w]
  BY DEF Replace, Done
<1> DEFINE x == sp + n - 1
<1>3. x \in Int /\ FirstKept \in Int /\ x < FirstKept
  BY <1>1
<1> QED BY <1>2, <1>3, KeptUnder

LEMMA PushKeeps ==
  ASSUME IInv, Fetching, HasOperands, Consumes(Op) \in Nat, NEW w, Push(w)
  PROVE  KeepsCallerWords
<1>1. FirstKept = sp + Consumes(Op) /\ sp \in Nat /\ sp - 1 \in Int /\ sp - 1 < FirstKept
  BY Registers DEF FirstKept
<1>2. memory' = memory \/ memory' = [memory EXCEPT ![sp - 1] = w]
  BY DEF Push, Done, Reject, Throw
<1> QED BY <1>1, <1>2, KeptUnder, KeptUntouched

LEMMA BadStringKeeps ==
  ASSUME NEW adr, NEW n, ReadBadString(adr, n)
  PROVE  memory' = memory
  BY DEF ReadBadString, Reject, Throw

-----------------------------------------------------------------------------
LEMMA MovesKeep ==
  ASSUME IInv, \/ PushConstant \/ PopTop \/ Dup \/ PrintTop \/ PrintString \/ BinaryOp \/ Load
               \/ BpLoad
  PROVE  KeepsCallerWords
<1>1. CASE PushConstant
  <2>1. Consumes("PUSH") = 0
    BY DEF Consumes, BinaryOps
  <2> QED BY <1>1, <2>1, PushKeeps DEF PushConstant, At
<1>2. CASE PopTop
  BY <1>2, PlainEnds, KeptUntouched DEF PopTop
<1>3. CASE Dup
  <2>1. Consumes("DUP") = 1
    BY DEF Consumes, BinaryOps
  <2> QED BY <1>3, <2>1, PushKeeps DEF Dup, At
<1>4. CASE PrintTop
  BY <1>4, KeptUntouched DEF PrintTop, Done
<1>5. CASE PrintString
  BY <1>5, BadStringKeeps, KeptUntouched DEF PrintString, Done
<1>6. CASE BinaryOp
  <2>1. PICK op \in BinaryOps : /\ At(op)
                                /\ \/ \E r : Replace(2, r)
                                   \/ Reject("DivisionByZero", 2)
    BY <1>6 DEF BinaryOp
  <2>2. Consumes(op) = 2
    BY DEF Consumes, BinaryOps
  <2>3. CASE \E r : Replace(2, r)
    BY <2>1, <2>2, <2>3, ReplaceKeeps DEF At
  <2>4. CASE Reject("DivisionByZero", 2)
    BY <2>4, KeptUntouched DEF Reject, Throw
  <2> QED BY <2>1, <2>3, <2>4
<1>7. CASE Load
  <2>1. PICK op \in {"LOAD", "LOAD_BYTE", "LOAD32"} :
          At(op) /\ (memory' = memory \/ \E v : Replace(1, v))
    BY <1>7 DEF Load, Reject, Throw
  <2>2. Consumes(op) = 1
    BY DEF Consumes, BinaryOps
  <2> QED BY <2>1, <2>2, ReplaceKeeps, KeptUntouched DEF At
<1>8. CASE BpLoad
  <2>1. Consumes("BP_LOAD") = 1
    BY DEF Consumes, BinaryOps
  <2>2. At("BP_LOAD") /\ (memory' = memory \/ \E v : Replace(1, v))
    BY <1>8 DEF BpLoad, Reject, Throw
  <2> QED BY <2>1, <2>2, ReplaceKeeps, KeptUntouched DEF At
<1> QED BY <1>1, <1>2, <1>3, <1>4, <1>5, <1>6, <1>7, <1>8

LEMMA SwapKeeps ==
  ASSUME IInv, Swap
  PROVE  KeepsCallerWords
<1>1. Consumes("SWAP") = 2
  BY DEF Consumes, BinaryOps
<1>2. FirstKept = sp + 2 /\ sp \in Nat
  BY <1>1, Registers DEF Swap, At, FirstKept
<1>3. memory' = [memory EXCEPT ![sp] = Top(1), ![sp + 1] = Top(0)]
  BY DEF Swap, Done
<1>4. ASSUME NEW a \in Addr, a >= FirstKept PROVE a # sp /\ a # sp + 1
  BY <1>2, <1>4 DEF Addr
<1> QED BY <1>3, <1>4, Registers DEF KeepsCallerWords

\* A call writes only under the words it pops.
LEMMA CalleeKeeps ==
  ASSUME IInv, NEW target, NEW return, NEW base \in Nat, NEW nb \in Nat, base <= FirstKept,
         FirstKept \in Nat, EnterCallee(target, return, base, nb)
  PROVE  KeepsCallerWords
<1>1. memory' = memory \/ \E copied : memory' = CallMemory(base, return, copied)
  BY DEF EnterCallee, Done, Throw
<1>2. ASSUME NEW copied, memory' = CallMemory(base, return, copied), NEW a \in Addr, a >= FirstKept
      PROVE  memory'[a] = memory[a]
  <2>1. a # base - 1 /\ ~(a < base - 1)
    BY <1>2 DEF Addr
  <2> QED BY <1>2, <2>1 DEF CallMemory
<1> QED BY <1>1, <1>2, KeptUntouched DEF KeepsCallerWords

LEMMA JumpsKeep ==
  ASSUME IInv, Jmp \/ Jz \/ Call \/ Funcall \/ Ret
  PROVE  KeepsCallerWords
<1>1. CASE Jmp \/ Jz
  BY <1>1, KeptUntouched DEF Jmp, Jz, JumpTo, Drop, Done, Throw
<1>2. CASE Call
  <2>1. OperandCount("CALL") = 2 /\ Consumes("CALL") = 0
    BY DEF OperandCount, Consumes, BinaryOps
  <2>2. Operand(2) \in Nat /\ FirstKept = sp /\ sp \in Nat
    BY <1>2, <2>1, Operands, Registers DEF Call, At, Word, FirstKept
  <2> QED BY <1>2, <2>2, CalleeKeeps DEF Call
<1>3. CASE Funcall
  <2>1. Consumes("FUNCALL") = 2
    BY DEF Consumes, BinaryOps
  <2>2. FirstKept = sp + 2 /\ sp \in Nat /\ 2 <= Depth
    BY <1>3, <2>1, Registers DEF Funcall, At, FirstKept
  <2>3. Top(1) \in Nat
    BY <2>2, StackWords, Sizes, Registers DEF Depth, Word
  <2>4. sp + 2 \in Nat /\ sp + 2 <= FirstKept /\ FirstKept \in Nat
    BY <2>2
  <2> QED BY <1>3, <2>3, <2>4, CalleeKeeps, KeptUntouched DEF Funcall, Reject, Throw
<1>4. CASE Ret
  <2> DEFINE n == Operand(1)
             x == sp + 2 * n + 1
  <2>1. OperandCount("RET") = 1 /\ Consumes("RET") = 2 * n + 2
    BY DEF OperandCount, Consumes, BinaryOps
  <2>2. n \in Nat /\ FirstKept = sp + (2 * n + 2) /\ sp \in Nat
    BY <1>4, <2>1, Operands, Registers DEF Ret, At, Word, FirstKept
  <2>3. memory' = [memory EXCEPT ![x] = Top(0)]
    BY <1>4 DEF Ret, Done, Throw
  <2> HIDE DEF n
  <2>4. x \in Int /\ FirstKept \in Int /\ x < FirstKept
    BY <2>2
  <2> QED BY <2>3, <2>4, KeptUnder
<1> QED BY <1>1, <1>2, <1>3, <1>4

LEMMA EnterKeeps ==
  ASSUME IInv, Enter
  PROVE  KeepsCallerWords
<1> DEFINE n == Operand(1)
           frame == sp - n - 1
<1>1. OperandCount("ENTER") = 1 /\ Consumes("ENTER") = 0
  BY DEF OperandCount, Consumes, BinaryOps
<1>2. n \in Nat /\ FirstKept = sp /\ sp \in Nat
  BY <1>1, Operands, Registers DEF Enter, At, Word, FirstKept
<1>3. ASSUME NEW first, NEW a \in Addr, a >= sp
      PROVE  Zeroed(first, sp - 1)[a] = memory[a]
  <2>1. ~(a <= sp - 1)
    BY <1>2, <1>3 DEF Addr
  <2> QED BY <2>1 DEF Zeroed
<1>4. \/ memory' = Zeroed(hp + 1, sp - 1)
      \/ memory' = [Zeroed(frame, sp - 1) EXCEPT ![frame] = bp]
  BY DEF Enter, Done, Throw
<1>5. ASSUME NEW a \in Addr, a >= sp PROVE a # frame
  BY <1>2, <1>5 DEF Addr
<1>6. DOMAIN Zeroed(frame, sp - 1) = Addr
  BY DEF Zeroed
<1> HIDE DEF frame
<1> QED BY <1>2, <1>3, <1>4, <1>5, <1>6 DEF KeepsCallerWords

LEMMA LeaveKeeps ==
  ASSUME IInv, Leave
  PROVE  KeepsCallerWords
<1> DEFINE n == Operand(1) + 2
<1>1. OperandCount("LEAVE") = 1 /\ Consumes("LEAVE") = n
  BY DEF OperandCount, Consumes, BinaryOps
<1>2. Fetching /\ HasOperands /\ n \in Nat /\ n > 0 /\ Consumes(Op) = n
  BY <1>1, Operands DEF Leave, At, Word
<1>3. Replace(n, Top(0))
  BY DEF Leave
<1> HIDE DEF n
<1> QED BY <1>2, <1>3, ReplaceKeeps

\* The instructions that change no word at all.
LEMMA OthersUntouched ==
  ASSUME \/ StackUnderflow \/ NoRoomForArguments \/ UnknownOpcode \/ MissingOperand
         \/ NoEvalContext \/ Halt \/ Abort \/ Cli \/ Sti \/ Iret \/ SignalReg
  PROVE  memory' = memory
<1>1. CASE StackUnderflow \/ NoRoomForArguments \/ UnknownOpcode \/ MissingOperand \/ NoEvalContext
  BY <1>1 DEF StackUnderflow, NoRoomForArguments, UnknownOpcode, MissingOperand, NoEvalContext,
              Reject, Throw
<1>2. CASE Halt \/ Abort
  BY <1>2, BadStringKeeps DEF Halt, Abort, Drop, Done
<1>3. CASE Cli \/ Sti \/ Iret \/ SignalReg
  BY <1>3 DEF Cli, Sti, Iret, SignalReg, JumpTo, Drop, Reject, Done, Throw
<1> QED BY <1>1, <1>2, <1>3

LEMMA InstructionCallerWords ==
  ASSUME IInv, Instruction, Op \notin StoresToMemory
  PROVE  KeepsCallerWords
<1>1. CASE Store \/ BpStore \/ CCallRefused \/ CCallPlain \/ CCallOpen \/ CCallWrite \/ CCallRead
  BY <1>1 DEF Store, BpStore, CCallRefused, CCallPlain, CCallOpen, CCallWrite, CCallRead, CallsC, At,
              StoresToMemory
<1>2. CASE DataInstruction
  BY <1>1, <1>2, MovesKeep, SwapKeeps, JumpsKeep DEF DataInstruction
<1>3. CASE FrameInstruction
  BY <1>3, EnterKeeps, LeaveKeeps, OthersUntouched, KeptUntouched DEF FrameInstruction
<1>4. CASE StopInstruction \/ InterruptInstruction
  BY <1>4, OthersUntouched, KeptUntouched DEF StopInstruction, InterruptInstruction
<1>5. CASE CompileInstruction
  BY <1>5 DEF CompileInstruction, Eval, Compile, CompileString, At, StoresToMemory
<1> QED BY <1>2, <1>3, <1>4, <1>5 DEF Instruction

\* The delivery of a signal writes the return address under the stack pointer.
LEMMA LoopCallerWords ==
  ASSUME IInv, TurnQuietly \/ (\E s \in Signals : Interrupt(s)) \/ Return
  PROVE  KeepsCallerWords
<1>1. CASE TurnQuietly \/ Return
  BY <1>1, KeptUntouched DEF TurnQuietly, Return
<1>2. ASSUME NEW s \in Signals, Interrupt(s) PROVE KeepsCallerWords
  <2>1. FirstKept = sp /\ sp \in Nat
    BY <1>2, Registers DEF Interrupt, GoesOn, FirstKept, Fetching
  <2>2. memory' = memory \/ memory' = [memory EXCEPT ![sp - 1] = ip]
    BY <1>2 DEF Interrupt, Throw
  <2>3. sp - 1 \in Int /\ FirstKept \in Int /\ sp - 1 < FirstKept
    BY <2>1
  <2> QED BY <2>2, <2>3, KeptUnder, KeptUntouched
<1> QED BY <1>1, <1>2

-----------------------------------------------------------------------------
\* No instruction but one that stores changes a word above those it consumes, also
\* when it throws half-way, and neither does the delivery of a signal: the frames and
\* the arguments of the callers survive every push, call, return, ENTER and LEAVE, for
\* every program and every number of words an operand asks for.
THEOREM CallersWordsSurvive == Spec => CallerWordsKept
<1>1. IInv /\ [Next]_vars => [CallerStep]_vars
  <2> SUFFICES ASSUME IInv, Next, phase # "idle", Fetching => Op \notin StoresToMemory
               PROVE  KeepsCallerWords
    BY DEF CallerStep
  <2>1. CASE Instruction
    <3>1. Fetching
      BY <2>1 DEF Instruction, DataInstruction, FrameInstruction, StopInstruction,
                  InterruptInstruction, CompileInstruction, PushConstant, PopTop, Dup, Swap,
                  PrintTop, PrintString, BinaryOp, Load, Store, BpLoad, BpStore, Jmp, Jz, Call,
                  Funcall, Ret, CCallRefused, CCallPlain, CCallOpen, CCallWrite, CCallRead, CallsC,
                  Enter, Leave, StackUnderflow, NoRoomForArguments, UnknownOpcode, MissingOperand,
                  NoEvalContext, Halt, Abort, Cli, Sti, Iret, SignalReg, Eval, Compile,
                  CompileString, At
    <3> QED BY <2>1, <3>1, InstructionCallerWords
  <2>2. CASE TurnQuietly \/ (\E s \in Signals : Interrupt(s)) \/ Return
    BY <2>2, LoopCallerWords
  <2>3. CASE Host
    BY <2>3 DEF Host, LoadProgram, Reset, SetIp, WriteMemory, StackPop, Execute, HostTurn
  <2>4. ASSUME NEW s \in Signals, Raise(s) PROVE KeepsCallerWords
    BY <2>4, KeptUntouched DEF Raise
  <2> QED BY <2>1, <2>2, <2>3, <2>4 DEF Next, Execution
<1>2. Spec => [][CallerStep]_vars
  BY <1>1, Invariance, PTL DEF Spec
<1>3. CallerStep <=> (phase # "idle" /\ (Fetching => Op \notin StoresToMemory) => KeepsCallerWords)
  BY DEF CallerStep
<1> QED BY <1>2, <1>3, PTL DEF CallerWordsKept, CallerStep
=============================================================================
