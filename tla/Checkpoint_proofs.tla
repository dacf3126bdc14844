-------------------------- MODULE Checkpoint_proofs --------------------------
(***************************************************************************)
(* The machine keeps its bounds when snapshots are taken and restored, and *)
(* runs from a snapshot as it ran before.                                  *)
(*                                                                         *)
(* The invariant is that of StackVM_proofs, and says of the snapshot what  *)
(* it says of the machine: a snapshot was taken while the invariant held,  *)
(* so putting it back re-establishes the invariant.                        *)
(*                                                                         *)
(* That executions from a snapshot end alike is proved in three parts: the *)
(* bits of a word determine it; a step of execute() is a function of its   *)
(* state (After), one instruction after another; and a state has at most   *)
(* one end that repeating this function leads to.                          *)
(***************************************************************************)
EXTENDS Checkpoint, StackVM_proofs, WellFoundedInduction

\* What a snapshot of the machine's own holds.
SnapshotSound ==
  Usable(snapshot) =>
    /\ snapshot.memory \in [Addr -> Word]
    /\ {snapshot.ip, snapshot.sp, snapshot.bp} \subseteq Word
    /\ snapshot.hp = HEAP_START /\ snapshot.hp \in Word
    /\ HEAP_START < snapshot.sp /\ snapshot.sp <= STACK_BASE
    /\ {snapshot.running, snapshot.interrupt_flag} \subseteq BOOLEAN
    /\ snapshot.signal_handlers \in [Signals -> Addr]

\* What a step may do to the code.
RestoringStep ==
  \/ \A a \in CodeAddr : memory'[a] # memory[a] => next_code <= a /\ a < next_code'
  \/ memory' = snapshot.memory

RestorableInv == IInv /\ SnapshotSound

LEMMA RestorableInit == CheckpointInit(Init, 0) => RestorableInv
<1> SUFFICES ASSUME CheckpointInit(Init, 0) PROVE RestorableInv
  OBVIOUS
<1>1. IInv
  BY InitHolds DEF CheckpointInit
<1>2. ~Usable(snapshot)
  <2>1. DOMAIN snapshot.memory = {}
    BY DEF CheckpointInit, NoSnapshot
  <2>2. 0 \in Addr
    BY Sizes DEF Addr
  <2> QED BY <2>1, <2>2 DEF Usable
<1> QED BY <1>1, <1>2 DEF RestorableInv, SnapshotSound

\* A step of the machine does not touch the snapshot.
LEMMA RestorableStep ==
  ASSUME RestorableInv, [CheckpointNext]_checkpointVars
  PROVE  RestorableInv'
<1> USE DEF RestorableInv
<1>1. ASSUME [Next]_vars, UNCHANGED snapshot PROVE RestorableInv'
  BY <1>1, NextKeeps DEF SnapshotSound, Usable
<1>2. CASE Run
  BY <1>1, <1>2 DEF Run, Next
<1>3. CASE HostCall
  BY <1>1, <1>3 DEF HostCall, Next
<1>4. CASE SignalArrives
  BY <1>1, <1>4 DEF SignalArrives, Next
<1>5. CASE TakeCheckpoint
  <2>1. IInv'
    <3>1. exception' \in Exceptions \cup {"none"} /\ host_calls' \in Nat
      BY <1>5 DEF TakeCheckpoint, hostVars, IInv, TypeOK
    <3> QED BY <1>5, <3>1
            DEF TakeCheckpoint, SnapshotTurn, interruptVars, limitVars, hostVars, IInv, TypeOK, StackBounds,
                FetchInBounds, Fetching
  <2>2. SnapshotSound'
    <3>1. snapshot' = Saved
      BY <1>5 DEF TakeCheckpoint
    <3>2. /\ memory \in [Addr -> Word] /\ {ip, sp, bp, hp} \subseteq Word
          /\ {running, interrupt_flag} \subseteq BOOLEAN
          /\ signal_handlers \in [Signals -> Addr]
          /\ hp = HEAP_START /\ HEAP_START < sp /\ sp <= STACK_BASE
      BY DEF IInv, TypeOK, StackBounds
    <3> QED BY <3>1, <3>2 DEF SnapshotSound, Saved
  <2> QED BY <2>1, <2>2
<1>6. CASE Restore
  <2>1. /\ exception' \in Exceptions \cup {"none"} /\ host_calls' \in Nat
        /\ phase' = "idle" /\ snapshot' = snapshot
        /\ UNCHANGED <<signal_count, limitVars, hostVars>>
    BY <1>6 DEF Restore, SnapshotTurn, hostVars, Exceptions, IInv, TypeOK
  <2>2. CASE Usable(snapshot) /\ RestoreFrom(snapshot)
    <3>1. /\ memory' \in [Addr -> Word] /\ {ip', sp', bp', hp'} \subseteq Word
          /\ {running', interrupt_flag'} \subseteq BOOLEAN
          /\ signal_handlers' \in [Signals -> Addr]
          /\ hp' = HEAP_START /\ HEAP_START < sp' /\ sp' <= STACK_BASE
      BY <2>2 DEF SnapshotSound, RestoreFrom
    <3> QED BY <2>1, <3>1 DEF limitVars, hostVars, IInv, TypeOK, StackBounds, FetchInBounds, Fetching,
                              SnapshotSound, Usable
  <2>3. CASE UNCHANGED <<memory, ip, sp, bp, hp, running, interrupt_flag, signal_handlers>>
    BY <2>1, <2>3 DEF limitVars, hostVars, IInv, TypeOK, StackBounds, FetchInBounds, Fetching,
                      SnapshotSound, Usable
  <2> QED BY <1>6, <2>2, <2>3 DEF Restore
<1>7. CASE UNCHANGED checkpointVars
  BY <1>1, <1>7 DEF checkpointVars
<1> QED BY <1>2, <1>3, <1>4, <1>5, <1>6, <1>7 DEF CheckpointNext

LEMMA RestorableAlways == CheckpointSpec => []RestorableInv
<1>1. RestorableInv /\ [CheckpointNext]_checkpointVars => RestorableInv'
  BY RestorableStep
<1> QED BY <1>1, RestorableInit, PTL DEF CheckpointSpec

\* Every variable has its type throughout: whatever a snapshot puts back, words, flags
\* and addresses, is of the kind that was saved.
THEOREM RestoredTypeCorrect == CheckpointSpec => []TypeOK
<1>1. RestorableInv => TypeOK
  BY DEF RestorableInv, IInv
<1> QED BY <1>1, RestorableAlways, PTL

\* Whatever snapshot is put back, and whatever ran since it was taken, the stack
\* pointer stays between the heap pointer and the base: restore() cannot bring the
\* machine into a state in which the checks of push and pop no longer protect it.
THEOREM RestoredStackBounded == CheckpointSpec => []StackBounds
<1>1. RestorableInv => StackBounds
  BY DEF RestorableInv, IInv
<1> QED BY <1>1, RestorableAlways, PTL

\* Loaded code is write-protected until a snapshot is put back: no other step changes
\* a word of it, whatever the program and the host do.
THEOREM CodeGoesBackOnlyByRestore == CheckpointSpec => CodeChangesByRestore
<1>1. RestorableInv /\ [CheckpointNext]_checkpointVars => [RestoringStep]_checkpointVars
  <2> SUFFICES ASSUME RestorableInv, [CheckpointNext]_checkpointVars PROVE RestoringStep
    OBVIOUS
  <2>1. CASE [Next]_vars
    BY <2>1, NextKeeps DEF RestorableInv, CodeStep, RestoringStep
  <2>2. CASE ~[Next]_vars
    <3>1. TakeCheckpoint \/ Restore
      BY <2>2 DEF CheckpointNext, Run, HostCall, SignalArrives, Next, checkpointVars
    <3>2. memory' = memory \/ memory' = snapshot.memory
      BY <3>1 DEF TakeCheckpoint, Restore, RestoreFrom
    <3> QED BY <3>2 DEF RestoringStep
  <2> QED BY <2>1, <2>2
<1>2. CheckpointSpec => [][RestoringStep]_checkpointVars
  BY <1>1, RestorableAlways, PTL DEF CheckpointSpec
<1>3. RestoringStep <=> \/ \A a \in CodeAddr : memory'[a] # memory[a] => next_code <= a /\ a < next_code'
                       \/ memory' = snapshot.memory
  BY DEF RestoringStep
<1> QED BY <1>2, <1>3, PTL DEF CodeChangesByRestore, RestoringStep

\* Putting a snapshot back delivers no signal again, and none that did not arrive: the
\* counters are not part of it.  It may open or close the machine for interrupts, as
\* CLI and STI do.
THEOREM RestoredServesOnce == CheckpointSpec => ServesEachSignalOnce
<1>1. CheckpointInit(Init, 0) => Counters!Init
  BY DEF CheckpointInit, Init, Counters!Init, Open
<1>2. RestorableInv /\ RestorableInv' /\ [CheckpointNext]_checkpointVars
        => [Counters!Next]_<<signal_count, Open>>
  <2> SUFFICES ASSUME RestorableInv, RestorableInv', [CheckpointNext]_checkpointVars
               PROVE  Counters!Next \/ UNCHANGED <<signal_count, Open>>
    OBVIOUS
  <2>1. CASE [Next]_vars
    BY <2>1, StepServes DEF RestorableInv
  <2>2. CASE ~[Next]_vars
    <3>1. TakeCheckpoint \/ Restore
      BY <2>2 DEF CheckpointNext, Run, HostCall, SignalArrives, Next, checkpointVars
    <3>2. UNCHANGED signal_count
      BY <3>1 DEF TakeCheckpoint, Restore, interruptVars
    <3>3. interrupt_flag' \in BOOLEAN
      BY DEF RestorableInv, IInv, TypeOK
    <3>4. PICK accepts \in BOOLEAN : accepts = interrupt_flag'
      BY <3>3
    <3>5. Counters!Mask("vm", accepts)
      BY <3>2, <3>4 DEF Counters!Mask, Open
    <3> QED BY <3>5 DEF Counters!Next
  <2> QED BY <2>1, <2>2
<1>3. CheckpointSpec => Counters!Init /\ [][Counters!Next]_<<signal_count, Open>>
  BY <1>1, <1>2, RestorableAlways, PTL DEF CheckpointSpec
<1> QED BY <1>3 DEF ServesEachSignalOnce, Counters!Spec

-----------------------------------------------------------------------------
(***************************************************************************)
(* Words and their bits.                                                   *)
(***************************************************************************)
\* Induction over a stretch of the numbers.
LEMMA Stepwise ==
  ASSUME NEW N \in Nat, NEW S, 0 \in S, \A k \in 0..N - 1 : k \in S => k + 1 \in S
  PROVE  \A k \in 0..N : k \in S
<1> DEFINE fails == {k \in 0..N : k \notin S}
<1>1. SUFFICES ASSUME fails # {} PROVE FALSE
  OBVIOUS
<1>2. fails \in SUBSET Nat
  OBVIOUS
<1>3. PICK k \in fails : \A j \in fails : ~(<<j, k>> \in OpToRel(<, Nat))
  <2> HIDE DEF fails
  <2> QED BY <1>1, <1>2, WFMin, NatLessThanWellFounded, Zenon
<1>4. k \in 0..N /\ k \notin S /\ \A j \in fails : ~(j < k)
  <2> HIDE DEF fails
  <2>1. \A j \in fails : j \in Nat /\ k \in Nat
    BY <1>2
  <2>2. \A j \in fails : ~(j < k)
    BY <1>3, <2>1, Zenon DEF OpToRel
  <2>3. k \in fails
    OBVIOUS
  <2> QED BY <2>2, <2>3 DEF fails
<1>5. k - 1 \in 0..N - 1 /\ k - 1 < k
  BY <1>4
<1>6. k - 1 \in S
  BY <1>4, <1>5
<1>7. k \in S
  BY <1>5, <1>6
<1> QED BY <1>4, <1>7

LEMMA PowersOfTwo ==
  /\ PowerOfTwo[0] = 1 /\ PowerOfTwo[1] = 2
  /\ \A n \in Nat : PowerOfTwo[n] \in Nat \ {0} /\ PowerOfTwo[n + 1] = 2 * PowerOfTwo[n]
<1> DEFINE Is(n, g) == /\ g = [i \in 0..n |-> g[i]]
                       /\ g[0] = 1 /\ \A i \in 1..n : g[i] = 2 * g[i - 1]
                       /\ \A i \in 0..n : g[i] \in Nat \ {0}
           good == {n \in Nat : \E g : Is(n, g)}
<1>1. \A n \in Nat : \E g : Is(n, g)
  <2> SUFFICES ASSUME NEW N \in Nat PROVE N \in good
    OBVIOUS
  <2>1. 0 \in good
    <3>1. Is(0, [i \in 0..0 |-> 1])
      OBVIOUS
    <3> QED BY <3>1
  <2>2. ASSUME NEW n \in 0..N - 1, n \in good PROVE n + 1 \in good
    <3>1. PICK g : Is(n, g)
      BY <2>2
    <3> DEFINE h == [i \in 0..n + 1 |-> IF i <= n THEN g[i] ELSE 2 * g[n]]
    <3>2. h[0] = 1 /\ \A i \in 0..n : h[i] = g[i]
      BY <3>1
    <3>3. h[n + 1] = 2 * g[n]
      OBVIOUS
    <3>4. \A i \in 1..n + 1 : h[i] = 2 * h[i - 1]
      <4>1. TAKE i \in 1..n + 1
      <4>2. CASE i = n + 1
        BY <3>2, <3>3, <4>2
      <4>3. CASE i \in 1..n
        <5>1. i \in 0..n /\ i - 1 \in 0..n
          BY <4>3
        <5>2. h[i] = g[i] /\ h[i - 1] = g[i - 1]
          BY <3>2, <5>1
        <5> QED BY <3>1, <4>3, <5>2
      <4> QED BY <4>2, <4>3
    <3>5. \A i \in 0..n + 1 : h[i] \in Nat \ {0}
      <4>1. TAKE i \in 0..n + 1
      <4>2. CASE i = n + 1
        BY <3>1, <3>3, <4>2
      <4>3. CASE i \in 0..n
        BY <3>1, <3>2, <4>3
      <4> QED BY <4>2, <4>3
    <3>6. h = [i \in 0..n + 1 |-> h[i]]
      OBVIOUS
    <3> HIDE DEF h
    <3>7. Is(n + 1, h)
      BY <3>2, <3>4, <3>5, <3>6
    <3> HIDE DEF Is
    <3>8. n + 1 \in Nat
      OBVIOUS
    <3> QED BY <3>7, <3>8
  <2>3. \A k \in 0..N : k \in good
    <3> HIDE DEF good
    <3> QED BY <2>1, <2>2, Stepwise
  <2> HIDE DEF good
  <2> QED BY <2>3
<1>2. ASSUME NEW n \in Nat, NEW g, Is(n, g), NEW m \in Nat, n <= m, NEW h, Is(m, h)
      PROVE  \A i \in 0..n : g[i] = h[i]
  <2> DEFINE same == {i \in 0..n : g[i] = h[i]}
  <2>1. 0 \in same
    BY <1>2
  <2>2. \A i \in 0..n - 1 : i \in same => i + 1 \in same
    <3> SUFFICES ASSUME NEW i \in 0..n - 1, g[i] = h[i] PROVE g[i + 1] = h[i + 1]
      OBVIOUS
    <3>1. i + 1 \in 1..n /\ i + 1 \in 1..m /\ (i + 1) - 1 = i
      BY <1>2
    <3> QED BY <1>2, <3>1
  <2>3. \A i \in 0..n : i \in same
    <3> HIDE DEF same
    <3> QED BY <2>1, <2>2, Stepwise
  <2> QED BY <2>3
<1> DEFINE up(n) == CHOOSE g : Is(n, g)
           f == [n \in Nat |-> up(n)[n]]
<1>3. \A n \in Nat : Is(n, up(n))
  BY <1>1
<1>4. f[0] = 1 /\ \A n \in Nat : f[n] \in Nat \ {0} /\ f[n + 1] = 2 * f[n]
  <2> HIDE DEF up, Is
  <2>1. f[0] = 1
    BY <1>3 DEF Is
  <2>2. ASSUME NEW n \in Nat PROVE f[n] \in Nat \ {0} /\ f[n + 1] = 2 * f[n]
    <3>1. Is(n, up(n)) /\ Is(n + 1, up(n + 1))
      BY <1>3
    <3>2. up(n)[n] = up(n + 1)[n]
      BY <1>2, <3>1
    <3>3. n + 1 \in 1..n + 1 /\ n \in 0..n /\ (n + 1) - 1 = n
      OBVIOUS
    <3>4. up(n + 1)[n + 1] = 2 * up(n + 1)[n] /\ up(n)[n] \in Nat \ {0}
      <4> DEFINE g == up(n)
                 h == up(n + 1)
      <4>1. Is(n, g) /\ Is(n + 1, h)
        BY <3>1
      <4> HIDE DEF g, h
      <4>2. h[n + 1] = 2 * h[n] /\ g[n] \in Nat \ {0}
        BY <3>3, <4>1 DEF Is
      <4> QED BY <4>2 DEF g, h
    <3> QED BY <3>2, <3>4
  <2> QED BY <2>1, <2>2
<1>5. f = [n \in Nat |-> IF n = 0 THEN 1 ELSE 2 * f[n - 1]]
  <2>1. \A n \in Nat : f[n] = IF n = 0 THEN 1 ELSE 2 * f[n - 1]
    <3>1. TAKE n \in Nat
    <3>2. CASE n # 0
      <4>1. n - 1 \in Nat /\ (n - 1) + 1 = n
        BY <3>2
      <4> HIDE DEF f
      <4> QED BY <1>4, <3>2, <4>1
    <3> HIDE DEF f
    <3> QED BY <1>4, <3>2
  <2>2. f = [n \in Nat |-> f[n]]
    OBVIOUS
  <2> HIDE DEF f
  <2> QED BY <2>1, <2>2
<1>6. PowerOfTwo = [n \in Nat |-> IF n = 0 THEN 1 ELSE 2 * PowerOfTwo[n - 1]]
  <2> DEFINE Def(g) == g = [n \in Nat |-> IF n = 0 THEN 1 ELSE 2 * g[n - 1]]
  <2>1. Def(f)
    BY <1>5
  <2>2. PowerOfTwo = CHOOSE g : Def(g)
    BY DEF PowerOfTwo
  <2> HIDE DEF Def, f
  <2>3. Def(PowerOfTwo)
    BY <2>1, <2>2
  <2> QED BY <2>3 DEF Def
<1>7. PowerOfTwo[0] = 1 /\ \A n \in Nat : PowerOfTwo[n + 1] = 2 * PowerOfTwo[n]
  <2>1. PowerOfTwo[0] = 1
    BY <1>6
  <2>2. ASSUME NEW n \in Nat PROVE PowerOfTwo[n + 1] = 2 * PowerOfTwo[n]
    <3>1. n + 1 \in Nat /\ n + 1 # 0 /\ (n + 1) - 1 = n
      OBVIOUS
    <3> QED BY <1>6, <3>1
  <2> QED BY <2>1, <2>2
<1>8. ASSUME NEW n \in Nat PROVE PowerOfTwo[n] \in Nat \ {0}
  <2> DEFINE S == {k \in Nat : PowerOfTwo[k] \in Nat \ {0}}
  <2>1. 0 \in S /\ \A k \in 0..n - 1 : k \in S => k + 1 \in S
    BY <1>7
  <2>2. \A k \in 0..n : k \in S
    <3> HIDE DEF S
    <3> QED BY <2>1, Stepwise
  <2> QED BY <2>2
<1> QED BY <1>7, <1>8

LEMMA Quotients ==
  ASSUME NEW d \in Nat \ {0}, NEW q \in Nat, NEW m \in 0..d - 1
  PROVE  (d * q + m) \div d = q /\ (d * q + m) % d = m
OBVIOUS

LEMMA DoubleModulus ==
  ASSUME NEW r \in Nat, NEW p \in Nat \ {0}
  PROVE  r % (2 * p) = (p * ((r \div p) % 2)) + (r % p)
<1> DEFINE q == r \div p
           m == r % p
           h == q \div 2
           b == q % 2
<1>1. q \in Nat /\ m \in 0..p - 1 /\ r = p * q + m
  OBVIOUS
<1> HIDE DEF q, m
<1>2. h \in Nat /\ b \in 0..1 /\ q = 2 * h + b
  BY <1>1
<1> HIDE DEF h, b
<1>3. p * b + m \in 0..(2 * p) - 1
  BY <1>1, <1>2
<1>4. r = (2 * p) * h + (p * b + m)
  BY <1>1, <1>2
<1>5. 2 * p \in Nat \ {0}
  OBVIOUS
<1>6. r % (2 * p) = p * b + m
  <2> DEFINE d == 2 * p
             k == p * b + m
  <2>1. d \in Nat \ {0} /\ k \in 0..d - 1 /\ r = d * h + k
    BY <1>3, <1>4, <1>5
  <2> HIDE DEF d, k
  <2>2. r % d = k
    BY <1>2, <2>1, Quotients
  <2> QED BY <2>2 DEF d, k
<1> QED BY <1>6 DEF b, q, m

LEMMA SameBits ==
  ASSUME NEW r \in Word, NEW s \in Word, \A i \in BitIndex : Bit(i, r) = Bit(i, s)
  PROVE  r = s
<1>1. WORD_BITS \in Nat /\ WordSize \in Nat /\ WordSize = PowerOfTwo[WORD_BITS]
  BY WordAssumption
<1>2. r \in Nat /\ s \in Nat /\ r < WordSize /\ s < WordSize
  BY <1>1 DEF Word
<1> DEFINE same == {n \in Nat : r % PowerOfTwo[n] = s % PowerOfTwo[n]}
<1>3. 0 \in same
  BY <1>2, PowersOfTwo
<1>4. ASSUME NEW n \in 0..WORD_BITS - 1, n \in same PROVE n + 1 \in same
  <2> DEFINE p == PowerOfTwo[n]
  <2>1. n \in Nat /\ n \in BitIndex
    BY <1>1 DEF BitIndex
  <2>2. p \in Nat \ {0} /\ PowerOfTwo[n + 1] = 2 * p
    BY <2>1, PowersOfTwo
  <2>3. (r \div p) % 2 = (s \div p) % 2
    BY <2>1, PowersOfTwo DEF Bit, Bits
  <2>4. r % p = s % p
    BY <1>4
  <2> HIDE DEF p
  <2>5. r % (2 * p) = s % (2 * p)
    BY <1>2, <2>2, <2>3, <2>4, DoubleModulus
  <2> QED BY <2>1, <2>2, <2>5
<1>5. WORD_BITS \in same
  <2> HIDE DEF same
  <2> QED BY <1>1, <1>3, <1>4, Stepwise
<1> QED BY <1>1, <1>2, <1>5

\* What an instruction on two words gives is one word, if it is defined.
LEMMA OneResult ==
  ASSUME NEW op \in BinaryOps, NEW a \in Word, NEW b \in Word, op \in {"SHL", "SHR", "ASHR"} => b < WORD_BITS,
         NEW r \in BinaryResults(op, a, b), NEW s \in BinaryResults(op, a, b)
  PROVE  r = s
<1>1. r \in Word /\ s \in Word /\ IsResult(op, a, b, r) /\ IsResult(op, a, b, s)
  BY DEF BinaryResults
<1>2. ~(b < WORD_BITS /\ b >= WORD_BITS)
  BY WordAssumption DEF Word
<1>3. CASE op \in {"ADD", "SUB", "MUL", "DIV", "MOD", "EQ", "LT", "GT", "LTE", "GTE"}
  BY <1>1, <1>3 DEF IsResult
<1>4. CASE op \in {"AND", "OR", "XOR", "SHL", "SHR", "ASHR"}
  <2>1. \A i \in BitIndex : Bit(i, r) = Bit(i, s)
    BY <1>1, <1>2, <1>4 DEF IsResult
  <2> QED BY <1>1, <2>1, SameBits
<1> QED BY <1>3, <1>4 DEF BinaryOps

\* So is what a word becomes by storing in a part of it.
LEMMA OneField ==
  ASSUME NEW shift, NEW width, NEW w, NEW v,
         NEW r \in WithField(shift, width, w, v), NEW s \in WithField(shift, width, w, v)
  PROVE  r = s
  BY SameBits DEF WithField
-----------------------------------------------------------------------------
(***************************************************************************)
(* The machine as a function.  What an instruction on the words of a       *)
(* memory m does, with the instruction at `at`, the stack at k and the     *)
(* frame at b: the exception, or "none", and what ip, sp and the memory    *)
(* become.                                                                 *)
(***************************************************************************)
Ends(e, i, k, m) == [exception |-> e, ip |-> i, sp |-> k, memory |-> m]

SomeOf(S) == CHOOSE x \in S : TRUE
Behind(op, at) == at + 1 + OperandCount(op)
Free(k) == k - HEAP_START - 1

PushEnd(m, next, k, w) ==
  IF Free(k) > 0 THEN Ends("none", next, k - 1, [m EXCEPT ![k - 1] = w])
  ELSE Ends("StackOverflow", next, k + 0, m)

JumpEnd(m, target, k) ==
  Ends(IF target < MEMORY_SIZE THEN "none" ELSE "IPBounds", target, k, m)

BinaryEnd(op, m, next, k) ==
  IF op \in {"DIV", "MOD"} /\ m[k + 0] = 0 THEN Ends("DivisionByZero", next, k + 2, m)
  ELSE Ends("none", next, k + 2 - 1,
            [m EXCEPT ![k + 2 - 1] = SomeOf(BinaryResults(op, m[k + 1], m[k + 0]))])

WordAt(adr, whole, word) == IF whole THEN adr ELSE WordIndex(adr)

LoadEnd(op, m, next, k) ==
  LET adr == m[k + 0]
      from == WordAt(adr, op = "LOAD", adr)
      word == m[from]
  IN IF from >= MEMORY_SIZE THEN Ends("MemoryBounds", next, k + 1, m)
     ELSE Ends("none", next, k + 1 - 1,
               [m EXCEPT ![k + 1 - 1] =
                  IF op = "LOAD" THEN word
                  ELSE IF op = "LOAD_BYTE" THEN Bits(ByteShift(adr), BYTE_BITS, word)
                  ELSE Bits(HalfShift(adr), HALF_BITS, word)])

StoreEnd(op, m, next, k) ==
  LET adr == m[k + 0]
      to == WordAt(adr, op = "STORE", adr)
      word == m[to]
      value == m[k + 1]
  IN IF to >= MEMORY_SIZE THEN Ends("MemoryBounds", next, k + 2, m)
     ELSE IF to < CODE_SIZE THEN Ends("CodeSegmentProtection", next, k + 2, m)
     ELSE Ends("none", next, k + 2,
               [m EXCEPT ![to] =
                  IF op = "STORE" THEN value
                  ELSE IF op = "STORE_BYTE" THEN SomeOf(WithField(ByteShift(adr), BYTE_BITS, word, value))
                  ELSE SomeOf(WithField(HalfShift(adr), HALF_BITS, word, value))])

FrameEnd(op, m, next, k, b) ==
  LET slot == (b + m[k + 0] + 1) % WordSize
      n == IF op = "BP_LOAD" THEN 1 ELSE 2
  IN IF slot >= MEMORY_SIZE THEN Ends("MemoryBounds", next, k + n, m)
     ELSE IF op = "BP_STORE" /\ m[k + 0] < 1 THEN Ends("InvalidBPStoreIndex", next, k + n, m)
     ELSE IF slot < k + n \/ slot >= STACK_BASE THEN Ends("StackFrameBounds", next, k + n, m)
     ELSE IF op = "BP_LOAD" THEN Ends("none", next, k + 1 - 1, [m EXCEPT ![k + 1 - 1] = m[slot]])
     ELSE Ends("none", next, k + 2, [m EXCEPT ![slot] = m[k + 1]])

StringFits(m, adr) == adr + ((m[adr] + BYTES_PER_WORD - 1) \div BYTES_PER_WORD) < MEMORY_SIZE

StringEnd(op, m, next, k) ==
  LET adr == m[k + 0] IN
  IF op = "PRINT_STR"
  THEN IF adr >= MEMORY_SIZE THEN Ends("MemoryBounds", next, k + 0, m)
       ELSE IF StringFits(m, adr) THEN Ends("none", next, k, m)
       ELSE Ends("RuntimeError", next, k + 0, m)
  ELSE IF adr >= MEMORY_SIZE \/ StringFits(m, adr) THEN Ends("none", next, k + 1, m)
       ELSE Ends("RuntimeError", next, k + 1, m)

Copies(m, base, return, copied) ==
  [a \in Addr |->
     CASE a = base - 1 -> return
       [] base - 1 - copied <= a /\ a < base - 1 -> m[base + (base - 2 - a)]
       [] OTHER -> m[a]]

CalleeEnd(m, target, return, base, nb) ==
  LET copied == Least(nb, Free(base) - 1)
      called == Copies(m, base, return, copied)
  IN IF Free(base) <= 0 THEN Ends("StackOverflow", return, base, m)
     ELSE IF copied < nb THEN Ends("StackOverflow", target, base - 1 - copied, called)
     ELSE JumpEnd(called, target, base - 1 - nb)

FuncallEnd(m, next, k) ==
  IF m[k + 0] >= MEMORY_SIZE THEN Ends("InvalidAddress", next, k + 2, m)
  ELSE CalleeEnd(m, m[k + 0], next, k + 2, m[k + 1])

RetEnd(m, k, n) ==
  JumpEnd([m EXCEPT ![k + 2 * n + 1] = m[k + 0]], m[k + (n + 1)], k + 2 * n + 1)

JzEnd(m, next, k, target) ==
  IF m[k + 0] = 0 THEN JumpEnd(m, target, k + 1) ELSE Ends("none", next, k + 1, m)

Zeroes(m, first, last) == [a \in Addr |-> IF first <= a /\ a <= last THEN 0 ELSE m[a]]

EnterEnd(m, next, k, b, n) ==
  LET frame == k - n - 1 IN
  IF Free(k) <= n THEN Ends("StackOverflow", next, HEAP_START + 1, Zeroes(m, HEAP_START + 1, k - 1))
  ELSE Ends("none", next, frame, [Zeroes(m, frame, k - 1) EXCEPT ![frame] = b])

LeaveEnd(m, next, k, n) ==
  Ends("none", next, k + (n + 2) - 1, [m EXCEPT ![k + (n + 2) - 1] = m[k + 0]])

SignalEnd(m, next, k) ==
  Ends(IF m[k + 0] \notin Signals THEN "InvalidSignal"
       ELSE IF m[k + 1] >= MEMORY_SIZE THEN "InvalidAddress" ELSE "none", next, k + 2, m)

SwapEnd(m, next, k) == Ends("none", next, k, [m EXCEPT ![k] = m[k + 1], ![k + 1] = m[k + 0]])

EndOf(op, m, at, k, b) ==
  LET next == Behind(op, at)
      n == m[at + 1]
  IN IF op = "PUSH" THEN PushEnd(m, next, k, n)
     ELSE IF op = "POP" THEN Ends("none", next, k + 1, m)
     ELSE IF op = "DUP" THEN PushEnd(m, next, k, m[k + 0])
     ELSE IF op = "SWAP" THEN SwapEnd(m, next, k)
     ELSE IF op \in {"PRINT", "HALT", "CLI", "STI"} THEN Ends("none", next, k, m)
     ELSE IF op \in BinaryOps THEN BinaryEnd(op, m, next, k)
     ELSE IF op \in {"LOAD", "LOAD_BYTE", "LOAD32"} THEN LoadEnd(op, m, next, k)
     ELSE IF op \in {"STORE", "STORE_BYTE", "STORE32"} THEN StoreEnd(op, m, next, k)
     ELSE IF op \in {"BP_LOAD", "BP_STORE"} THEN FrameEnd(op, m, next, k, b)
     ELSE IF op \in {"PRINT_STR", "ABORT"} THEN StringEnd(op, m, next, k)
     ELSE IF op = "JMP" THEN JumpEnd(m, n, k)
     ELSE IF op = "JZ" THEN JzEnd(m, next, k, n)
     ELSE IF op = "IRET" THEN JumpEnd(m, m[k + 0], k + 1)
     ELSE IF op = "CALL" THEN CalleeEnd(m, n, next, k, m[at + 2])
     ELSE IF op = "FUNCALL" THEN FuncallEnd(m, next, k)
     ELSE IF op = "RET" THEN RetEnd(m, k, n)
     ELSE IF op = "ENTER" THEN EnterEnd(m, next, k, b, n)
     ELSE IF op = "LEAVE" THEN LeaveEnd(m, next, k, n)
     ELSE SignalEnd(m, next, k)

\* How many words it needs, and what stops it before it starts.
Needs(op, n) ==
  IF op \in {"POP", "DUP", "JZ", "IRET", "LOAD", "LOAD_BYTE", "LOAD32", "BP_LOAD",
             "PRINT", "PRINT_STR", "ABORT"} THEN 1
  ELSE IF op \in BinaryOps \cup {"SWAP", "STORE", "STORE_BYTE", "STORE32", "BP_STORE",
                                 "SIGNAL_REG", "FUNCALL"} THEN 2
  ELSE IF op = "LEAVE" THEN n + 2
  ELSE IF op = "RET" THEN 2 * n + 2
  ELSE 0

Cut(op, at) == at + OperandCount(op) >= MEMORY_SIZE
Short(op, m, at, k) == STACK_BASE - k < Needs(op, m[at + 1])

FetchEnd(op, m, at, k, b) ==
  IF op = "unknown" THEN Ends("UnknownOpcode", Behind(op, at), k + 0, m)
  ELSE IF Cut(op, at) THEN Ends("IPBounds", MEMORY_SIZE, k, m)
  ELSE IF Short(op, m, at, k)
  THEN Ends(IF op \in {"DUP", "PRINT", "PRINT_STR"} THEN "StackEmpty" ELSE "StackUnderflow",
            IF op = "JZ" THEN at + 1 ELSE Behind(op, at), STACK_BASE, m)
  ELSE EndOf(op, m, at, k, b)

\* Does the instruction get to its effect?
Starts(op, m, at, k) == op # "unknown" /\ ~Cut(op, at) /\ ~Short(op, m, at, k)

\* What becomes of the other registers.
BpEnd(op, m, at, k, b) ==
  IF op = "LEAVE" /\ ~Cut(op, at) /\ STACK_BASE - k >= 2 THEN m[k + 1]
  ELSE IF op = "ENTER" /\ Starts(op, m, at, k) /\ Free(k) > m[at + 1] THEN k - m[at + 1] - 1
  ELSE b

RunningEnd(op, m, at, k, r) ==
  r /\ ~(/\ Starts(op, m, at, k)
         /\ op = "HALT" \/ (op = "ABORT" /\ (m[k + 0] >= MEMORY_SIZE \/ StringFits(m, m[k + 0]))))

FlagEnd(op, m, at, k, f) ==
  IF ~Starts(op, m, at, k) THEN f
  ELSE IF op = "CLI" THEN FALSE
  ELSE IF op = "STI" THEN TRUE
  ELSE f \/ (op = "IRET" /\ m[k + 0] < MEMORY_SIZE)

HandlersEnd(op, m, at, k, h) ==
  IF Starts(op, m, at, k) /\ op = "SIGNAL_REG" /\ m[k + 0] \in Signals /\ m[k + 1] < MEMORY_SIZE
  THEN [h EXCEPT ![m[k + 0]] = m[k + 1]] ELSE h
-----------------------------------------------------------------------------
(***************************************************************************)
(* Each instruction ends as the function says.                             *)
(***************************************************************************)
EndsAs(x) ==
  /\ exception' = x.exception /\ ip' = x.ip /\ sp' = x.sp /\ memory' = x.memory
  /\ phase' = IF x.exception = "none" THEN "loop" ELSE "idle"

Now(op) == EndOf(op, memory, ip, sp, bp)

LEMMA Finishing ==
  ASSUME exception = "none", NEW i, NEW k, NEW m, Done(i, k, m)
  PROVE  EndsAs(Ends("none", i, k, m))
BY DEF Done, EndsAs, Ends

LEMMA Failing ==
  ASSUME NEW e, e # "none", NEW i, NEW k, NEW m, Throw(e, i, k, m)
  PROVE  EndsAs(Ends(e, i, k, m))
BY DEF Throw, EndsAs, Ends

LEMMA RoomIsFree == ASSUME IInv PROVE \A k : Room(k) = Free(k)
BY DEF IInv, StackBounds, Room, Free

LEMMA PushEnds ==
  ASSUME IInv, exception = "none", NEW w, Push(w)
  PROVE  EndsAs(PushEnd(memory, NextIp, sp, w))
<1>1. Free(sp) \in Int
  BY Registers, Sizes DEF Free
<1>2. CASE Free(sp) > 0
  <2>1. Done(NextIp, sp - 1, [memory EXCEPT ![sp - 1] = w])
    BY <1>1, <1>2, RoomIsFree DEF Push
  <2> QED BY <1>2, <2>1, Finishing DEF PushEnd
<1>3. CASE ~(Free(sp) > 0)
  <2>1. Throw("StackOverflow", NextIp, sp + 0, memory)
    BY <1>1, <1>3, RoomIsFree DEF Push, Reject
  <2> QED BY <1>3, <2>1, Failing DEF PushEnd
<1> QED BY <1>2, <1>3

LEMMA JumpEnds ==
  ASSUME exception = "none", NEW m, NEW k, NEW t \in Word,
         \/ t < MEMORY_SIZE /\ Done(t, k, m)
         \/ t >= MEMORY_SIZE /\ Throw("IPBounds", t, k, m)
  PROVE  EndsAs(JumpEnd(m, t, k))
<1>1. CASE t < MEMORY_SIZE
  <2>1. Done(t, k, m)
    BY <1>1, Sizes DEF Word
  <2> QED BY <1>1, <2>1, Finishing DEF JumpEnd
<1>2. CASE ~(t < MEMORY_SIZE)
  <2>1. Throw("IPBounds", t, k, m)
    BY <1>2
  <2> QED BY <1>2, <2>1, Failing DEF JumpEnd
<1> QED BY <1>1, <1>2

LEMMA StackEnds ==
  ASSUME IInv, exception = "none", PushConstant \/ PopTop \/ Dup \/ Swap \/ PrintTop
  PROVE  EndsAs(Now(Op))
<1>1. CASE PushConstant
  <2>1. Op = "PUSH" /\ EndsAs(PushEnd(memory, NextIp, sp, Operand(1)))
    BY <1>1, PushEnds DEF PushConstant, At
  <2>2. Now(Op) = PushEnd(memory, NextIp, sp, Operand(1))
    BY <2>1 DEF Now, EndOf, Behind, NextIp, Operand
  <2> QED BY <2>1, <2>2
<1>2. CASE PopTop
  <2>1. Op = "POP" /\ EndsAs(Ends("none", NextIp, sp + 1, memory))
    BY <1>2, Finishing DEF PopTop, At, Drop
  <2>2. Now(Op) = Ends("none", NextIp, sp + 1, memory)
    BY <2>1 DEF Now, EndOf, Behind, NextIp
  <2> QED BY <2>1, <2>2
<1>3. CASE Dup
  <2>1. Op = "DUP" /\ EndsAs(PushEnd(memory, NextIp, sp, Top(0)))
    BY <1>3, PushEnds DEF Dup, At
  <2>2. Now(Op) = PushEnd(memory, NextIp, sp, Top(0))
    BY <2>1 DEF Now, EndOf, Behind, NextIp, Top
  <2> QED BY <2>1, <2>2
<1>4. CASE Swap
  <2>1. Op = "SWAP" /\ EndsAs(SwapEnd(memory, NextIp, sp))
    BY <1>4, Finishing DEF Swap, At, SwapEnd, Top
  <2>2. Now(Op) = SwapEnd(memory, NextIp, sp)
    BY <2>1 DEF Now, EndOf, Behind, NextIp
  <2> QED BY <2>1, <2>2
<1>5. CASE PrintTop
  <2>1. Op = "PRINT" /\ EndsAs(Ends("none", NextIp, sp, memory))
    BY <1>5, Finishing DEF PrintTop, At
  <2>2. Now(Op) = Ends("none", NextIp, sp, memory)
    BY <2>1 DEF Now, EndOf, Behind, NextIp
  <2> QED BY <2>1, <2>2
<1> QED BY <1>1, <1>2, <1>3, <1>4, <1>5

LEMMA BinaryOpEnds ==
  ASSUME IInv, exception = "none", BinaryOp, ~AsksOutside
  PROVE  EndsAs(Now(Op))
<1>1. PICK op \in BinaryOps :
        /\ At(op)
        /\ \/ /\ op \in {"DIV", "MOD"} => Top(0) # 0
              /\ \E r \in BinaryResults(op, Top(1), Top(0)) : Replace(2, r)
           \/ op \in {"DIV", "MOD"} /\ Top(0) = 0 /\ Reject("DivisionByZero", 2)
  BY DEF BinaryOp
<1>2. Consumes(op) = 2
  BY DEF Consumes, BinaryOps
<1>3. Op = op /\ Fetching /\ Depth >= 2
  BY <1>1, <1>2 DEF At
<1>4. Top(0) \in Word /\ Top(1) \in Word
  BY <1>3, StackWords, Registers, Sizes DEF Depth
<1>5. op \in {"SHL", "SHR", "ASHR"} => Top(0) < WORD_BITS
  BY <1>3, <1>4, WordAssumption DEF AsksOutside, Word
<1>6. Now(Op) = BinaryEnd(op, memory, NextIp, sp)
  BY <1>3 DEF Now, EndOf, Behind, NextIp, BinaryOps
<1>7. CASE op \in {"DIV", "MOD"} /\ Top(0) = 0
  <2>1. EndsAs(Ends("DivisionByZero", NextIp, sp + 2, memory))
    BY <1>1, <1>7, Failing DEF Reject
  <2> QED BY <1>6, <1>7, <2>1 DEF BinaryEnd, Top
<1>8. CASE ~(op \in {"DIV", "MOD"} /\ Top(0) = 0)
  <2> DEFINE S == BinaryResults(op, Top(1), Top(0))
  <2>1. PICK r \in S : Replace(2, r)
    BY <1>1, <1>8
  <2>2. r = SomeOf(S)
    <3>1. SomeOf(S) \in S
      BY <2>1 DEF SomeOf
    <3> QED BY <1>4, <1>5, <2>1, <3>1, OneResult
  <2>3. EndsAs(Ends("none", NextIp, sp + 2 - 1, [memory EXCEPT ![sp + 2 - 1] = SomeOf(S)]))
    <3> HIDE DEF S
    <3> QED BY <2>1, <2>2, Finishing DEF Replace
  <2> QED BY <1>6, <1>8, <2>3 DEF BinaryEnd, Top
<1> QED BY <1>7, <1>8

LEMMA LoadEnds ==
  ASSUME IInv, exception = "none", Load
  PROVE  EndsAs(Now(Op))
<1>1. PICK op \in {"LOAD", "LOAD_BYTE", "LOAD32"} :
        /\ At(op)
        /\ \/ LoadedWord(op) >= MEMORY_SIZE /\ Reject("MemoryBounds", 1)
           \/ /\ LoadedWord(op) < MEMORY_SIZE
              /\ \E v \in LoadedValues(op, memory[LoadedWord(op)]) : Replace(1, v)
  BY DEF Load
<1> DEFINE word == memory[LoadedWord(op)]
           value == IF op = "LOAD" THEN word
                    ELSE IF op = "LOAD_BYTE" THEN Bits(ByteShift(Top(0)), BYTE_BITS, word)
                    ELSE Bits(HalfShift(Top(0)), HALF_BITS, word)
           loaded == [memory EXCEPT ![sp + 1 - 1] = value]
<1>2. Op = op
  BY <1>1 DEF At
<1>3. Now(Op) = LoadEnd(op, memory, NextIp, sp)
  BY <1>2 DEF Now, EndOf, Behind, NextIp, BinaryOps
<1>4. LoadedWord(op) = WordAt(Top(0), op = "LOAD", Top(0))
  BY DEF LoadedWord, WordAt
<1>5. CASE Reject("MemoryBounds", 1) /\ LoadedWord(op) >= MEMORY_SIZE
  <2>1. EndsAs(Ends("MemoryBounds", NextIp, sp + 1, memory))
    BY <1>5, Failing DEF Reject
  <2> QED BY <1>3, <1>4, <1>5, <2>1 DEF LoadEnd, Top
<1>6. CASE ~(LoadedWord(op) >= MEMORY_SIZE)
  <2>1. PICK v \in LoadedValues(op, word) : Replace(1, v)
    BY <1>1, <1>6
  <2>2. v = value
    BY <2>1 DEF LoadedValues, Field
  <2>3. EndsAs(Ends("none", NextIp, sp + 1 - 1, loaded))
    <3> HIDE DEF value
    <3> QED BY <2>1, <2>2, Finishing DEF Replace
  <2>4. LoadEnd(op, memory, NextIp, sp) = Ends("none", NextIp, sp + 1 - 1, loaded)
    BY <1>4, <1>6 DEF LoadEnd, Top
  <2> QED BY <1>3, <2>3, <2>4
<1>7. LoadedWord(op) >= MEMORY_SIZE => ~(LoadedWord(op) < MEMORY_SIZE)
  <2>1. Consumes(op) = 1
    BY DEF Consumes, BinaryOps
  <2>2. Top(0) \in Word
    BY <1>1, <2>1, StackWords, Registers, Sizes DEF Depth, At
  <2>3. LoadedWord(op) \in Int
    BY <2>2, WordAssumption DEF LoadedWord, WordIndex, Word
  <2> QED BY <2>3, Sizes
<1> QED BY <1>1, <1>5, <1>6, <1>7

LEMMA StoreEnds ==
  ASSUME IInv, exception = "none", Store
  PROVE  EndsAs(Now(Op))
<1>1. PICK op \in {"STORE", "STORE_BYTE", "STORE32"} :
        /\ At(op)
        /\ \/ RefuseStore(StoredWord(op), 2)
           \/ /\ StoreAllowed(StoredWord(op))
              /\ \E v \in StoredValues(op, memory[StoredWord(op)]) :
                   Done(NextIp, sp + 2, [memory EXCEPT ![StoredWord(op)] = v])
  BY DEF Store
<1> DEFINE to == StoredWord(op)
           word == memory[to]
           value == IF op = "STORE" THEN Top(1)
                    ELSE IF op = "STORE_BYTE"
                    THEN SomeOf(WithField(ByteShift(Top(0)), BYTE_BITS, word, Top(1)))
                    ELSE SomeOf(WithField(HalfShift(Top(0)), HALF_BITS, word, Top(1)))
           stored == [memory EXCEPT ![to] = value]
<1>2. Op = op
  BY <1>1 DEF At
<1>3. Now(Op) = StoreEnd(op, memory, NextIp, sp)
  BY <1>2 DEF Now, EndOf, Behind, NextIp, BinaryOps
<1>4. to = WordAt(Top(0), op = "STORE", Top(0))
  BY DEF StoredWord, WordAt
<1>5. to \in Int
  <2>1. Consumes(op) = 2
    BY DEF Consumes, BinaryOps
  <2>2. Top(0) \in Word
    BY <1>1, <2>1, StackWords, Registers, Sizes DEF Depth, At
  <2> QED BY <2>2, WordAssumption DEF StoredWord, WordIndex, Word
<1> HIDE DEF to
<1>6. CASE to >= MEMORY_SIZE
  <2>1. Reject("MemoryBounds", 2)
    BY <1>1, <1>5, <1>6, Sizes DEF RefuseStore, StoreAllowed, to
  <2>2. EndsAs(Ends("MemoryBounds", NextIp, sp + 2, memory))
    BY <2>1, Failing DEF Reject
  <2> QED BY <1>3, <1>4, <1>6, <2>2 DEF StoreEnd, Top
<1>7. CASE to < CODE_SIZE
  <2>1. Reject("CodeSegmentProtection", 2) /\ ~(to >= MEMORY_SIZE)
    BY <1>1, <1>5, <1>7, Sizes DEF RefuseStore, StoreAllowed, to
  <2>2. EndsAs(Ends("CodeSegmentProtection", NextIp, sp + 2, memory))
    BY <2>1, Failing DEF Reject
  <2> QED BY <1>3, <1>4, <1>7, <2>1, <2>2 DEF StoreEnd, Top
<1>8. CASE ~(to >= MEMORY_SIZE) /\ ~(to < CODE_SIZE)
  <2>1. PICK v \in StoredValues(op, word) : Done(NextIp, sp + 2, [memory EXCEPT ![to] = v])
    BY <1>1, <1>8 DEF RefuseStore, to
  <2>2. v = value
    <3>1. CASE op = "STORE"
      BY <2>1, <3>1 DEF StoredValues
    <3>2. CASE op = "STORE_BYTE"
      <4> DEFINE S == WithField(ByteShift(Top(0)), BYTE_BITS, word, Top(1))
      <4>1. v \in S
        BY <2>1, <3>2 DEF StoredValues
      <4>2. SomeOf(S) \in S
        BY <4>1 DEF SomeOf
      <4>3. v = SomeOf(S)
        BY <4>1, <4>2, OneField
      <4> QED BY <3>2, <4>3
    <3>3. CASE op = "STORE32"
      <4> DEFINE S == WithField(HalfShift(Top(0)), HALF_BITS, word, Top(1))
      <4>1. v \in S
        BY <2>1, <3>3 DEF StoredValues
      <4>2. SomeOf(S) \in S
        BY <4>1 DEF SomeOf
      <4>3. v = SomeOf(S)
        BY <4>1, <4>2, OneField
      <4> QED BY <3>3, <4>3
    <3> QED BY <3>1, <3>2, <3>3
  <2>3. EndsAs(Ends("none", NextIp, sp + 2, stored))
    <3> HIDE DEF value
    <3> QED BY <2>1, <2>2, Finishing
  <2>4. StoreEnd(op, memory, NextIp, sp) = Ends("none", NextIp, sp + 2, stored)
    BY <1>4, <1>8 DEF StoreEnd, Top
  <2> QED BY <1>3, <2>3, <2>4
<1> QED BY <1>6, <1>7, <1>8

LEMMA FrameEnds ==
  ASSUME IInv, exception = "none", BpLoad \/ BpStore
  PROVE  EndsAs(Now(Op))
<1> DEFINE slot == FrameSlot(Top(0))
           n == IF Op = "BP_LOAD" THEN 1 ELSE 2
<1>1. Op \in {"BP_LOAD", "BP_STORE"} /\ Fetching /\ Depth >= 1
  <2>1. Consumes("BP_LOAD") = 1 /\ Consumes("BP_STORE") = 2
    BY DEF Consumes, BinaryOps
  <2> QED BY <2>1, Registers, Sizes DEF BpLoad, BpStore, At, Depth
<1>2. Top(0) \in Word
  BY <1>1, StackWords, Registers, Sizes DEF Depth
<1>3. slot \in Int /\ Top(0) \in Int
  BY <1>2, Registers, WordAssumption DEF FrameSlot, Word
<1>4. Now(Op) = FrameEnd(Op, memory, NextIp, sp, bp)
  BY <1>1 DEF Now, EndOf, Behind, NextIp, BinaryOps
<1>5. slot = (bp + memory[sp + 0] + 1) % WordSize
  BY DEF FrameSlot, Top
<1> HIDE DEF slot
<1>6. CASE BpLoad
  <2>1. Op = "BP_LOAD"
    BY <1>6 DEF BpLoad, At
  <2>2. \/ slot >= MEMORY_SIZE /\ Reject("MemoryBounds", 1)
        \/ slot < MEMORY_SIZE /\ ~InFrames(slot, 1) /\ Reject("StackFrameBounds", 1)
        \/ InFrames(slot, 1) /\ Replace(1, memory[slot])
    BY <1>6 DEF BpLoad, slot
  <2>3. CASE slot >= MEMORY_SIZE
    <3>1. Reject("MemoryBounds", 1)
      BY <1>3, <2>2, <2>3, Sizes DEF InFrames
    <3>2. EndsAs(Ends("MemoryBounds", NextIp, sp + 1, memory))
      BY <3>1, Failing DEF Reject
    <3> QED BY <1>4, <1>5, <2>1, <2>3, <3>2 DEF FrameEnd
  <2>4. CASE ~(slot >= MEMORY_SIZE) /\ (slot < sp + 1 \/ slot >= STACK_BASE)
    <3>1. Reject("StackFrameBounds", 1)
      BY <1>3, <2>2, <2>4, Sizes, Registers DEF InFrames
    <3>2. EndsAs(Ends("StackFrameBounds", NextIp, sp + 1, memory))
      BY <3>1, Failing DEF Reject
    <3> QED BY <1>4, <1>5, <2>1, <2>4, <3>2 DEF FrameEnd
  <2>5. CASE ~(slot >= MEMORY_SIZE) /\ ~(slot < sp + 1 \/ slot >= STACK_BASE)
    <3>1. Replace(1, memory[slot])
      BY <1>3, <2>2, <2>5, Sizes, Registers DEF InFrames
    <3>2. EndsAs(Ends("none", NextIp, sp + 1 - 1, [memory EXCEPT ![sp + 1 - 1] = memory[slot]]))
      BY <3>1, Finishing DEF Replace
    <3> QED BY <1>4, <1>5, <2>1, <2>5, <3>2 DEF FrameEnd
  <2> QED BY <2>3, <2>4, <2>5
<1>7. CASE BpStore
  <2>1. Op = "BP_STORE"
    BY <1>7 DEF BpStore, At
  <2>2. \/ slot >= MEMORY_SIZE /\ Reject("MemoryBounds", 2)
        \/ slot < MEMORY_SIZE /\ Top(0) < 1 /\ Reject("InvalidBPStoreIndex", 2)
        \/ slot < MEMORY_SIZE /\ Top(0) >= 1 /\ ~InFrames(slot, 2) /\ Reject("StackFrameBounds", 2)
        \/ /\ Top(0) >= 1 /\ InFrames(slot, 2)
           /\ Done(NextIp, sp + 2, [memory EXCEPT ![slot] = Top(1)])
    BY <1>7 DEF BpStore, slot
  <2>3. CASE slot >= MEMORY_SIZE
    <3>1. Reject("MemoryBounds", 2)
      BY <1>3, <2>2, <2>3, Sizes DEF InFrames
    <3>2. EndsAs(Ends("MemoryBounds", NextIp, sp + 2, memory))
      BY <3>1, Failing DEF Reject
    <3> QED BY <1>4, <1>5, <2>1, <2>3, <3>2 DEF FrameEnd
  <2>4. CASE ~(slot >= MEMORY_SIZE) /\ Top(0) < 1
    <3>1. Reject("InvalidBPStoreIndex", 2)
      BY <1>3, <2>2, <2>4, Sizes
    <3>2. EndsAs(Ends("InvalidBPStoreIndex", NextIp, sp + 2, memory))
      BY <3>1, Failing DEF Reject
    <3> QED BY <1>4, <1>5, <2>1, <2>4, <3>2 DEF FrameEnd, Top
  <2>5. CASE ~(slot >= MEMORY_SIZE) /\ ~(Top(0) < 1) /\ (slot < sp + 2 \/ slot >= STACK_BASE)
    <3>1. Reject("StackFrameBounds", 2)
      BY <1>3, <2>2, <2>5, Sizes, Registers DEF InFrames
    <3>2. EndsAs(Ends("StackFrameBounds", NextIp, sp + 2, memory))
      BY <3>1, Failing DEF Reject
    <3> QED BY <1>4, <1>5, <2>1, <2>5, <3>2 DEF FrameEnd, Top
  <2>6. CASE ~(slot >= MEMORY_SIZE) /\ ~(Top(0) < 1) /\ ~(slot < sp + 2 \/ slot >= STACK_BASE)
    <3>1. Done(NextIp, sp + 2, [memory EXCEPT ![slot] = Top(1)])
      BY <1>3, <2>2, <2>6, Sizes, Registers DEF InFrames
    <3>2. EndsAs(Ends("none", NextIp, sp + 2, [memory EXCEPT ![slot] = Top(1)]))
      BY <3>1, Finishing
    <3> QED BY <1>4, <1>5, <2>1, <2>6, <3>2 DEF FrameEnd, Top
  <2> QED BY <2>3, <2>4, <2>5, <2>6
<1> QED BY <1>6, <1>7

\* The address of a string and its last word are numbers.
LEMMA StringWords ==
  ASSUME IInv, Fetching, Depth >= 1
  PROVE  /\ Top(0) \in Word
         /\ Top(0) < MEMORY_SIZE =>
              (LastStringWord(Top(0)) < MEMORY_SIZE <=> ~(LastStringWord(Top(0)) >= MEMORY_SIZE))
         /\ LastStringWord(Top(0)) < MEMORY_SIZE <=> StringFits(memory, Top(0))
<1>1. Top(0) \in Word
  BY StackWords, Registers, Sizes DEF Depth
<1>2. ASSUME Top(0) < MEMORY_SIZE PROVE LastStringWord(Top(0)) \in Int
  <2>1. Top(0) \in Addr
    BY <1>1, <1>2, Sizes DEF Word, Addr
  <2>2. memory[Top(0)] \in Word
    BY <2>1, Registers
  <2> QED BY <1>1, <2>2, WordAssumption DEF LastStringWord, Word
<1> QED BY <1>1, <1>2, Sizes DEF StringFits, LastStringWord

LEMMA StringEnds ==
  ASSUME IInv, exception = "none", PrintString \/ Abort, phase' # "wild"
  PROVE  EndsAs(Now(Op))
<1>1. Op \in {"PRINT_STR", "ABORT"} /\ Fetching /\ Depth >= 1
  <2>1. Consumes("PRINT_STR") = 1 /\ Consumes("ABORT") = 1
    BY DEF Consumes, BinaryOps
  <2> QED BY <2>1 DEF PrintString, Abort, At
<1>2. /\ Top(0) \in Word
      /\ Top(0) < MEMORY_SIZE =>
              (LastStringWord(Top(0)) < MEMORY_SIZE <=> ~(LastStringWord(Top(0)) >= MEMORY_SIZE))
      /\ LastStringWord(Top(0)) < MEMORY_SIZE <=> StringFits(memory, Top(0))
  BY <1>1, StringWords
<1>3. Top(0) < MEMORY_SIZE <=> ~(Top(0) >= MEMORY_SIZE)
  BY <1>2, Sizes DEF Word
<1>4. Now(Op) = StringEnd(Op, memory, NextIp, sp)
  BY <1>1 DEF Now, EndOf, Behind, NextIp, BinaryOps
<1>5. CASE PrintString
  <2>1. Op = "PRINT_STR"
    BY <1>5 DEF PrintString, At
  <2>2. CASE Top(0) >= MEMORY_SIZE
    <3>1. Reject("MemoryBounds", 0)
      BY <1>3, <1>5, <2>2 DEF PrintString, ReadBadString, IsString
    <3>2. EndsAs(Ends("MemoryBounds", NextIp, sp + 0, memory))
      BY <3>1, Failing DEF Reject
    <3> QED BY <1>4, <2>1, <2>2, <3>2 DEF StringEnd, Top
  <2>3. CASE ~(Top(0) >= MEMORY_SIZE) /\ StringFits(memory, Top(0))
    <3>1. Done(NextIp, sp, memory)
      BY <1>2, <1>3, <1>5, <2>3 DEF PrintString, ReadBadString
    <3>2. EndsAs(Ends("none", NextIp, sp, memory))
      BY <3>1, Finishing
    <3> QED BY <1>4, <2>1, <2>3, <3>2 DEF StringEnd, Top
  <2>4. CASE ~(Top(0) >= MEMORY_SIZE) /\ ~StringFits(memory, Top(0))
    <3>1. Reject("RuntimeError", 0)
      BY <1>2, <1>3, <1>5, <2>4 DEF PrintString, ReadBadString, IsString
    <3>2. EndsAs(Ends("RuntimeError", NextIp, sp + 0, memory))
      BY <3>1, Failing DEF Reject
    <3> QED BY <1>4, <2>1, <2>4, <3>2 DEF StringEnd, Top
  <2> QED BY <2>2, <2>3, <2>4
<1>6. CASE Abort
  <2>1. Op = "ABORT"
    BY <1>6 DEF Abort, At
  <2>2. CASE Top(0) >= MEMORY_SIZE \/ StringFits(memory, Top(0))
    <3>1. Drop(1)
      BY <1>2, <1>3, <1>6, <2>2 DEF Abort, ReadBadString
    <3>2. EndsAs(Ends("none", NextIp, sp + 1, memory))
      BY <3>1, Finishing DEF Drop
    <3> QED BY <1>4, <2>1, <2>2, <3>2 DEF StringEnd, Top
  <2>3. CASE ~(Top(0) >= MEMORY_SIZE) /\ ~StringFits(memory, Top(0))
    <3>1. Reject("RuntimeError", 1)
      BY <1>2, <1>3, <1>6, <2>3 DEF Abort, ReadBadString, IsString
    <3>2. EndsAs(Ends("RuntimeError", NextIp, sp + 1, memory))
      BY <3>1, Failing DEF Reject
    <3> QED BY <1>4, <2>1, <2>3, <3>2 DEF StringEnd, Top
  <2> QED BY <2>2, <2>3
<1> QED BY <1>5, <1>6

LEMMA JumpsEnd ==
  ASSUME IInv, exception = "none", Jmp \/ Jz \/ Iret
  PROVE  EndsAs(Now(Op))
<1>1. CASE Jmp
  <2>1. Op = "JMP" /\ Fetching /\ HasOperands
    BY <1>1 DEF Jmp, At
  <2>2. OperandCount(Op) = 1
    BY <2>1 DEF OperandCount
  <2>3. Operand(1) \in Word
    BY <2>1, <2>2, Operands
  <2>4. EndsAs(JumpEnd(memory, Operand(1), sp))
    BY <1>1, <2>3, JumpEnds DEF Jmp, JumpTo
  <2>5. Now(Op) = JumpEnd(memory, Operand(1), sp)
    BY <2>1 DEF Now, EndOf, Operand, BinaryOps
  <2> QED BY <2>4, <2>5
<1>2. CASE Jz
  <2>1. Op = "JZ" /\ Fetching /\ HasOperands
    BY <1>2 DEF Jz, At
  <2>2. OperandCount(Op) = 1
    BY <2>1 DEF OperandCount
  <2>3. Operand(1) \in Word
    BY <2>1, <2>2, Operands
  <2>4. Now(Op) = JzEnd(memory, NextIp, sp, Operand(1))
    BY <2>1 DEF Now, EndOf, Operand, BinaryOps, Behind, NextIp
  <2>5. CASE Top(0) = 0
    <3>1. EndsAs(JumpEnd(memory, Operand(1), sp + 1))
      BY <1>2, <2>3, <2>5, JumpEnds DEF Jz, JumpTo
    <3> QED BY <2>4, <2>5, <3>1 DEF JzEnd, Top
  <2>6. CASE Top(0) # 0
    <3>1. EndsAs(Ends("none", NextIp, sp + 1, memory))
      BY <1>2, <2>6, Finishing DEF Jz, Drop
    <3> QED BY <2>4, <2>6, <3>1 DEF JzEnd, Top
  <2> QED BY <2>5, <2>6
<1>3. CASE Iret
  <2>1. Consumes("IRET") = 1
    BY DEF Consumes, BinaryOps
  <2>2. Op = "IRET" /\ Fetching /\ Depth >= 1
    BY <1>3, <2>1 DEF Iret, At
  <2>3. Top(0) \in Word
    BY <2>2, StackWords, Registers, Sizes DEF Depth
  <2>4. EndsAs(JumpEnd(memory, Top(0), sp + 1))
    BY <1>3, <2>3, JumpEnds DEF Iret, JumpTo
  <2>5. Now(Op) = JumpEnd(memory, Top(0), sp + 1)
    BY <2>2 DEF Now, EndOf, Top, BinaryOps
  <2> QED BY <2>4, <2>5
<1> QED BY <1>1, <1>2, <1>3

LEMMA CalleeEnds ==
  ASSUME IInv, exception = "none", NEW target \in Word, NEW return \in Word, NEW base \in Nat, NEW nb \in Nat,
         EnterCallee(target, return, base, nb)
  PROVE  EndsAs(CalleeEnd(memory, target, return, base, nb))
<1> DEFINE copied == ArgumentsCopied(base, nb)
           called == CallMemory(base, return, copied)
<1>1. Free(base) \in Int /\ Room(base) = Free(base)
  BY RoomIsFree, Sizes DEF Free
<1>2. copied = Least(nb, Free(base) - 1) /\ called = Copies(memory, base, return, copied)
  BY <1>1 DEF ArgumentsCopied, CallMemory, Copies
<1>3. copied \in Int /\ copied <= nb
  BY <1>1, <1>2 DEF Least
<1>4. \/ Free(base) <= 0 /\ Throw("StackOverflow", return, base, memory)
      \/ /\ Free(base) > 0 /\ copied < nb
         /\ Throw("StackOverflow", target, base - 1 - copied, called)
      \/ /\ Free(base) > 0 /\ copied = nb
         /\ \/ target < MEMORY_SIZE /\ Done(target, base - 1 - nb, called)
            \/ target >= MEMORY_SIZE /\ Throw("IPBounds", target, base - 1 - nb, called)
  BY <1>1 DEF EnterCallee
<1>5. CalleeEnd(memory, target, return, base, nb)
        = IF Free(base) <= 0 THEN Ends("StackOverflow", return, base, memory)
          ELSE IF copied < nb THEN Ends("StackOverflow", target, base - 1 - copied, called)
          ELSE JumpEnd(called, target, base - 1 - nb)
  BY <1>2 DEF CalleeEnd
<1> HIDE DEF copied, called
<1>6. CASE Free(base) <= 0
  <2>1. Throw("StackOverflow", return, base, memory)
    BY <1>1, <1>4, <1>6
  <2> QED BY <1>5, <1>6, <2>1, Failing
<1>7. CASE ~(Free(base) <= 0) /\ copied < nb
  <2>1. Throw("StackOverflow", target, base - 1 - copied, called)
    BY <1>1, <1>3, <1>4, <1>7
  <2> QED BY <1>5, <1>7, <2>1, Failing
<1>8. CASE ~(Free(base) <= 0) /\ ~(copied < nb)
  <2>1. \/ target < MEMORY_SIZE /\ Done(target, base - 1 - nb, called)
        \/ target >= MEMORY_SIZE /\ Throw("IPBounds", target, base - 1 - nb, called)
    BY <1>1, <1>3, <1>4, <1>8
  <2> QED BY <1>5, <1>8, <2>1, JumpEnds
<1> QED BY <1>6, <1>7, <1>8

LEMMA CallsEnd ==
  ASSUME IInv, exception = "none", Call \/ Funcall \/ Ret
  PROVE  EndsAs(Now(Op))
<1>1. CASE Call
  <2>1. Op = "CALL" /\ Fetching /\ HasOperands
    BY <1>1 DEF Call, At
  <2>2. OperandCount(Op) = 2
    BY <2>1 DEF OperandCount
  <2>3. Operand(1) \in Word /\ Operand(2) \in Word /\ NextIp \in Word
    BY <2>1, <2>2, Operands
  <2>4. Operand(2) \in Nat /\ sp \in Nat
    BY <2>3, Registers DEF Word
  <2>5. EndsAs(CalleeEnd(memory, Operand(1), NextIp, sp, Operand(2)))
    BY <1>1, <2>3, <2>4, CalleeEnds DEF Call
  <2>6. Now(Op) = CalleeEnd(memory, Operand(1), NextIp, sp, Operand(2))
    BY <2>1 DEF Now, EndOf, Operand, BinaryOps, Behind, NextIp
  <2> QED BY <2>5, <2>6
<1>2. CASE Funcall
  <2>1. Consumes("FUNCALL") = 2
    BY DEF Consumes, BinaryOps
  <2>2. Op = "FUNCALL" /\ Fetching /\ HasOperands /\ Depth >= 2
    BY <1>2, <2>1 DEF Funcall, At
  <2>3. Top(0) \in Word /\ Top(1) \in Word /\ NextIp \in Word
    BY <2>2, StackWords, Operands, Registers, Sizes DEF Depth
  <2>4. Now(Op) = FuncallEnd(memory, NextIp, sp)
    BY <2>2 DEF Now, EndOf, BinaryOps, Behind, NextIp
  <2>5. CASE Top(0) >= MEMORY_SIZE
    <3>1. Reject("InvalidAddress", 2)
      BY <1>2, <2>3, <2>5, Sizes DEF Funcall, Word
    <3>2. EndsAs(Ends("InvalidAddress", NextIp, sp + 2, memory))
      BY <3>1, Failing DEF Reject
    <3> QED BY <2>4, <2>5, <3>2 DEF FuncallEnd, Top
  <2>6. CASE ~(Top(0) >= MEMORY_SIZE)
    <3>1. EnterCallee(Top(0), NextIp, sp + 2, Top(1))
      BY <1>2, <2>6 DEF Funcall
    <3>2. sp + 2 \in Nat /\ Top(1) \in Nat
      BY <2>3, Registers DEF Word
    <3>3. EndsAs(CalleeEnd(memory, Top(0), NextIp, sp + 2, Top(1)))
      BY <2>3, <3>1, <3>2, CalleeEnds
    <3> QED BY <2>4, <2>6, <3>3 DEF FuncallEnd, Top
  <2> QED BY <2>5, <2>6
<1>3. CASE Ret
  <2>1. Op = "RET" /\ Fetching /\ HasOperands /\ Depth >= 2 * Operand(1) + 2
    <3>1. Consumes("RET") = 2 * Operand(1) + 2
      BY DEF Consumes, BinaryOps
    <3> QED BY <1>3, <3>1 DEF Ret, At
  <2>2. OperandCount(Op) = 1
    BY <2>1 DEF OperandCount
  <2> DEFINE n == Operand(1)
             newSp == sp + 2 * n + 1
             m == [memory EXCEPT ![newSp] = Top(0)]
             return == Top(n + 1)
  <2>3. n \in Word
    BY <2>1, <2>2, Operands
  <2>4. \/ return < MEMORY_SIZE /\ Done(return, newSp, m)
        \/ return >= MEMORY_SIZE /\ Throw("IPBounds", return, newSp, m)
    BY <1>3 DEF Ret
  <2>5. Now(Op) = JumpEnd(m, return, newSp)
    BY <2>1 DEF Now, EndOf, RetEnd, Operand, BinaryOps, Top
  <2>6. n + 1 \in Nat /\ n + 1 < Depth
    <3> HIDE DEF n
    <3>1. n \in Nat /\ Depth \in Int
      BY <2>3, Registers, Sizes DEF Word, Depth
    <3>2. Depth >= 2 * n + 2
      BY <2>1 DEF n
    <3> QED BY <3>1, <3>2
  <2> HIDE DEF n, m, newSp
  <2>7. return \in Word
    BY <2>6, StackWords
  <2> HIDE DEF return
  <2>8. EndsAs(JumpEnd(m, return, newSp))
    BY <2>4, <2>7, JumpEnds
  <2> QED BY <2>5, <2>8
<1> QED BY <1>1, <1>2, <1>3

LEMMA EnterLeaveEnd ==
  ASSUME IInv, exception = "none", Enter \/ Leave
  PROVE  EndsAs(Now(Op)) /\ bp' = BpEnd(Op, memory, ip, sp, bp)
<1>1. CASE Enter
  <2> DEFINE n == Operand(1)
             frame == sp - n - 1
  <2>1. Op = "ENTER" /\ Fetching /\ HasOperands
    BY <1>1 DEF Enter, At
  <2>2. OperandCount(Op) = 1
    BY <2>1 DEF OperandCount
  <2>3. n \in Nat /\ Free(sp) \in Int
    BY <2>1, <2>2, Operands, Registers, Sizes DEF Word, Free
  <2>4. Now(Op) = EnterEnd(memory, NextIp, sp, bp, n)
    BY <2>1 DEF Now, EndOf, Operand, BinaryOps, Behind, NextIp
  <2>5. Starts(Op, memory, ip, sp)
    <3>1. ~Cut(Op, ip)
      BY <2>1, <2>2, Registers, Sizes DEF Cut, HasOperands
    <3>2. Needs(Op, memory[ip + 1]) = 0
      BY <2>1 DEF Needs, BinaryOps
    <3>3. ~Short(Op, memory, ip, sp)
      BY <3>2, Registers, Sizes DEF Short
    <3> QED BY <2>1, <3>1, <3>3 DEF Starts
  <2>6. BpEnd(Op, memory, ip, sp, bp) = IF Free(sp) > n THEN frame ELSE bp
    BY <2>1, <2>5 DEF BpEnd, Operand
  <2>7. CASE Free(sp) <= n
    <3>1. Throw("StackOverflow", NextIp, HEAP_START + 1, Zeroes(memory, HEAP_START + 1, sp - 1)) /\ bp' = bp
      BY <1>1, <2>3, <2>7, RoomIsFree, Registers DEF Enter, Zeroed, Zeroes
    <3>2. EndsAs(Ends("StackOverflow", NextIp, HEAP_START + 1, Zeroes(memory, HEAP_START + 1, sp - 1)))
      BY <3>1, Failing
    <3> HIDE DEF n
    <3> QED BY <2>3, <2>4, <2>6, <2>7, <3>1, <3>2 DEF EnterEnd
  <2>8. CASE ~(Free(sp) <= n)
    <3>1. Done(NextIp, frame, [Zeroes(memory, frame, sp - 1) EXCEPT ![frame] = bp]) /\ bp' = frame
      BY <1>1, <2>3, <2>8, RoomIsFree DEF Enter, Zeroed, Zeroes
    <3>2. EndsAs(Ends("none", NextIp, frame, [Zeroes(memory, frame, sp - 1) EXCEPT ![frame] = bp]))
      BY <3>1, Finishing
    <3> HIDE DEF n
    <3> QED BY <2>3, <2>4, <2>6, <2>8, <3>1, <3>2 DEF EnterEnd
  <2> QED BY <2>7, <2>8
<1>2. CASE Leave
  <2> DEFINE n == Operand(1)
  <2>1. Op = "LEAVE" /\ Fetching /\ HasOperands /\ Depth >= n + 2
    <3>1. Consumes("LEAVE") = n + 2
      BY DEF Consumes, BinaryOps
    <3> QED BY <1>2, <3>1 DEF Leave, At
  <2>2. OperandCount(Op) = 1
    BY <2>1 DEF OperandCount
  <2>3. n \in Nat
    BY <2>1, <2>2, Operands DEF Word
  <2>4. Now(Op) = LeaveEnd(memory, NextIp, sp, n)
    BY <2>1 DEF Now, EndOf, Operand, BinaryOps, Behind, NextIp
  <2>5. EndsAs(LeaveEnd(memory, NextIp, sp, n)) /\ bp' = Top(1)
    BY <1>2, Finishing DEF Leave, Replace, LeaveEnd, Top
  <2>6. BpEnd(Op, memory, ip, sp, bp) = Top(1)
    <3>1. ~Cut(Op, ip)
      BY <2>1, <2>2, Registers, Sizes DEF Cut, HasOperands
    <3>2. STACK_BASE - sp >= 2
      <4> HIDE DEF n
      <4> QED BY <2>1, <2>3, Registers, Sizes DEF Depth
    <3> QED BY <2>1, <3>1, <3>2 DEF BpEnd, Top
  <2> QED BY <2>4, <2>5, <2>6
<1> QED BY <1>1, <1>2

LEMMA FlagsEnd ==
  ASSUME IInv, exception = "none", Halt \/ Cli \/ Sti \/ SignalReg
  PROVE  EndsAs(Now(Op))
<1>1. CASE Halt \/ Cli \/ Sti
  <2>1. Op \in {"HALT", "CLI", "STI"} /\ Done(NextIp, sp, memory)
    BY <1>1 DEF Halt, Cli, Sti, At
  <2>2. EndsAs(Ends("none", NextIp, sp, memory))
    BY <2>1, Finishing
  <2>3. Now(Op) = Ends("none", NextIp, sp, memory)
    BY <2>1 DEF Now, EndOf, Behind, NextIp
  <2> QED BY <2>2, <2>3
<1>2. CASE SignalReg
  <2>1. Consumes("SIGNAL_REG") = 2
    BY DEF Consumes, BinaryOps
  <2>2. Op = "SIGNAL_REG" /\ Fetching /\ Depth >= 2
    BY <1>2, <2>1 DEF SignalReg, At
  <2>3. Top(1) \in Word
    BY <2>2, StackWords, Registers, Sizes DEF Depth
  <2>4. Top(1) < MEMORY_SIZE <=> ~(Top(1) >= MEMORY_SIZE)
    BY <2>3, Sizes DEF Word
  <2>5. Now(Op) = SignalEnd(memory, NextIp, sp)
    BY <2>2 DEF Now, EndOf, Behind, NextIp, BinaryOps
  <2>6. CASE Top(0) \notin Signals
    <3>1. EndsAs(Ends("InvalidSignal", NextIp, sp + 2, memory))
      BY <1>2, <2>6, Failing DEF SignalReg, Reject
    <3> QED BY <2>5, <2>6, <3>1 DEF SignalEnd, Top
  <2>7. CASE Top(0) \in Signals /\ Top(1) >= MEMORY_SIZE
    <3>1. EndsAs(Ends("InvalidAddress", NextIp, sp + 2, memory))
      BY <1>2, <2>4, <2>7, Failing DEF SignalReg, Reject
    <3> QED BY <2>5, <2>7, <3>1 DEF SignalEnd, Top
  <2>8. CASE Top(0) \in Signals /\ ~(Top(1) >= MEMORY_SIZE)
    <3>1. EndsAs(Ends("none", NextIp, sp + 2, memory))
      BY <1>2, <2>4, <2>8, Finishing DEF SignalReg, Drop
    <3> QED BY <2>5, <2>8, <3>1 DEF SignalEnd, Top
  <2> QED BY <2>6, <2>7, <2>8
<1> QED BY <1>1, <1>2

\* The instructions that do something of their own, and those among them that leave the
\* other registers alone.
PlainOps == BinaryOps \cup
  {"PUSH", "POP", "DUP", "SWAP", "PRINT", "PRINT_STR", "LOAD", "LOAD_BYTE", "LOAD32", "STORE", "STORE_BYTE",
   "STORE32", "BP_LOAD", "BP_STORE", "JMP", "JZ", "CALL", "FUNCALL", "RET"}
OwnOps == PlainOps \cup {"ENTER", "LEAVE", "HALT", "ABORT", "CLI", "STI", "IRET", "SIGNAL_REG"}

LEMMA OwnOpsAre ==
  /\ "unknown" \notin OwnOps
  /\ PlainOps \cap {"ENTER", "LEAVE", "HALT", "ABORT", "CLI", "STI", "IRET", "SIGNAL_REG"} = {}
BY DEF OwnOps, PlainOps, BinaryOps

LEMMA OpsAre ==
  ASSUME IInv, Fetching
  PROVE  Op = "unknown" \/ Op \in OwnOps \cup {"C_CALL", "EVAL", "COMPILE"}
<1>1. memory[ip] \in Nat
  BY Registers, Sizes DEF Addr, Word
<1> DEFINE i == memory[ip] % 256
<1>2. i \in Nat
  BY <1>1
<1>3. CASE ~(i < Len(OpcodeNames))
  BY <1>3 DEF Op, Opcode
<1>4. CASE i < Len(OpcodeNames)
  <2>1. Op = OpcodeNames[i + 1]
    BY <1>4 DEF Op, Opcode
  <2> HIDE DEF i
  <2>2. Len(OpcodeNames) = 46
    BY DEF OpcodeNames
  <2>3. i + 1 \in 1..46
    BY <1>2, <1>4, <2>2
  <2>4. \A j \in 1..46 : OpcodeNames[j] \in OwnOps \cup {"C_CALL", "EVAL", "COMPILE"}
    BY DEF OpcodeNames, OwnOps, PlainOps, BinaryOps
  <2> QED BY <2>1, <2>3, <2>4
<1> QED BY <1>3, <1>4

LEMMA NeedsAre ==
  ASSUME Op \in OwnOps \cup {"unknown"}
  PROVE  Consumes(Op) = Needs(Op, memory[ip + 1])
<1>1. CASE Op \in {"POP", "DUP", "JZ", "IRET", "LOAD", "LOAD_BYTE", "LOAD32", "BP_LOAD",
                   "PRINT", "PRINT_STR", "ABORT"}
  BY <1>1 DEF Consumes, Needs, BinaryOps
<1>2. CASE Op \in BinaryOps \cup {"SWAP", "STORE", "STORE_BYTE", "STORE32", "BP_STORE",
                                  "SIGNAL_REG", "FUNCALL"}
  BY <1>2 DEF Consumes, Needs, BinaryOps
<1>3. CASE Op \in {"LEAVE", "RET"}
  BY <1>3 DEF Consumes, Needs, BinaryOps, Operand
<1>4. CASE Op \in {"PUSH", "PRINT", "JMP", "CALL", "ENTER", "HALT", "CLI", "STI", "unknown"}
  BY <1>4 DEF Consumes, Needs, BinaryOps
<1> QED BY <1>1, <1>2, <1>3, <1>4 DEF OwnOps, PlainOps

LEMMA Refusing ==
  ASSUME IInv, Fetching, Op \in OwnOps \cup {"unknown"}
  PROVE  /\ HasOperands <=> ~Cut(Op, ip)
         /\ HasOperands => (Depth < Consumes(Op) <=> Short(Op, memory, ip, sp))
         /\ HasOperands => (Depth >= Consumes(Op) <=> ~Short(Op, memory, ip, sp))
<1>1. ip \in Nat /\ OperandCount(Op) \in {0, 1, 2}
  BY Registers DEF OperandCount
<1>2. HasOperands <=> ~Cut(Op, ip)
  BY <1>1, Sizes DEF HasOperands, Cut
<1>3. ASSUME HasOperands PROVE Consumes(Op) \in Nat /\ Depth \in Int
  <2>1. Depth \in Int
    BY Registers, Sizes DEF Depth
  <2>2. CASE Op \in {"LEAVE", "RET"}
    <3>1. OperandCount(Op) = 1
      BY <2>2 DEF OperandCount
    <3>2. Operand(1) \in Nat
      BY <1>3, <3>1, Operands DEF Word
    <3>3. Consumes(Op) = Operand(1) + 2 \/ Consumes(Op) = 2 * Operand(1) + 2
      BY <2>2 DEF Consumes, BinaryOps
    <3> QED BY <2>1, <3>2, <3>3
  <2>3. CASE Op \notin {"LEAVE", "RET"}
    <3>1. Needs(Op, memory[ip + 1]) \in {0, 1, 2}
      BY <2>3 DEF Needs
    <3> QED BY <2>1, <3>1, NeedsAre
  <2> QED BY <2>2, <2>3
<1> QED BY <1>2, <1>3, NeedsAre DEF Short, Depth

LEMMA Starting ==
  ASSUME IInv, Op \in OwnOps, At(Op)
  PROVE  Starts(Op, memory, ip, sp) /\ FetchEnd(Op, memory, ip, sp, bp) = Now(Op)
<1>1. Op # "unknown" /\ ~Cut(Op, ip) /\ ~Short(Op, memory, ip, sp)
  BY Refusing, OwnOpsAre DEF At
<1> QED BY <1>1 DEF Starts, FetchEnd, Now

\* What else an instruction does.
OthersEnd ==
  /\ bp' = BpEnd(Op, memory, ip, sp, bp)
  /\ running' = RunningEnd(Op, memory, ip, sp, running)
  /\ interrupt_flag' = FlagEnd(Op, memory, ip, sp, interrupt_flag)
  /\ signal_handlers' = HandlersEnd(Op, memory, ip, sp, signal_handlers)

LEMMA PlainEnd ==
  ASSUME IInv, exception = "none", DataInstruction, ~AsksOutside, phase' # "wild"
  PROVE  EndsAs(FetchEnd(Op, memory, ip, sp, bp)) /\ OthersEnd
<1>1. ~(CCallRefused \/ CCallPlain \/ CCallOpen \/ CCallWrite \/ CCallRead)
  BY DEF AsksOutside, CCallRefused, CCallPlain, CCallOpen, CCallWrite, CCallRead, CallsC, At
<1>2. \/ PushConstant \/ PopTop \/ Dup \/ Swap \/ PrintTop \/ PrintString
      \/ BinaryOp \/ Load \/ Store \/ BpLoad \/ BpStore
      \/ Jmp \/ Jz \/ Call \/ Funcall \/ Ret
  BY <1>1 DEF DataInstruction
<1>3. At(Op) /\ Op \in PlainOps
  BY <1>2 DEF PlainOps, PushConstant, PopTop, Dup, Swap, PrintTop, PrintString, BinaryOp, Load, Store,
              BpLoad, BpStore, Jmp, Jz, Call, Funcall, Ret, At
<1>4. EndsAs(Now(Op))
  BY <1>2, StackEnds, BinaryOpEnds, LoadEnds, StoreEnds, FrameEnds, StringEnds, JumpsEnd, CallsEnd
<1>5. EndsAs(FetchEnd(Op, memory, ip, sp, bp))
  BY <1>3, <1>4, Starting DEF OwnOps
<1>6. OthersEnd
  <2>1. Op \notin {"ENTER", "LEAVE", "HALT", "ABORT", "CLI", "STI", "IRET", "SIGNAL_REG"}
    BY <1>3, OwnOpsAre
  <2>2. UNCHANGED <<bp, running, interrupt_flag, signal_handlers>>
    BY DEF DataInstruction
  <2>3. running \in BOOLEAN /\ interrupt_flag \in BOOLEAN
    BY DEF IInv, TypeOK
  <2> QED BY <2>1, <2>2, <2>3 DEF OthersEnd, BpEnd, RunningEnd, FlagEnd, HandlersEnd
<1> QED BY <1>5, <1>6

LEMMA FramesEnd ==
  ASSUME IInv, exception = "none", FrameInstruction, ~AsksOutside
  PROVE  EndsAs(FetchEnd(Op, memory, ip, sp, bp)) /\ OthersEnd
<1>0. running \in BOOLEAN /\ interrupt_flag \in BOOLEAN
  BY DEF IInv, TypeOK
<1>1. UNCHANGED <<running, interrupt_flag, signal_handlers>>
  BY DEF FrameInstruction
<1>2. CASE Enter \/ Leave
  <2>1. At(Op) /\ Op \in {"ENTER", "LEAVE"}
    BY <1>2 DEF Enter, Leave, At
  <2>2. EndsAs(Now(Op)) /\ bp' = BpEnd(Op, memory, ip, sp, bp)
    BY <1>2, EnterLeaveEnd
  <2>3. EndsAs(FetchEnd(Op, memory, ip, sp, bp))
    BY <2>1, <2>2, Starting DEF OwnOps
  <2>4. OthersEnd
    BY <1>0, <1>1, <2>1, <2>2 DEF OthersEnd, RunningEnd, FlagEnd, HandlersEnd
  <2> QED BY <2>3, <2>4
<1>3. ASSUME Fetching, ~Starts(Op, memory, ip, sp), bp' = BpEnd(Op, memory, ip, sp, bp) PROVE OthersEnd
  BY <1>0, <1>1, <1>3 DEF OthersEnd, RunningEnd, FlagEnd, HandlersEnd
<1>4. Fetching => Op \in OwnOps \cup {"unknown"}
  BY OpsAre DEF AsksOutside
<1>5. CASE UnknownOpcode
  <2>1. Fetching /\ Op = "unknown" /\ bp' = bp
    BY <1>5 DEF UnknownOpcode
  <2>2. EndsAs(Ends("UnknownOpcode", NextIp, sp + 0, memory))
    BY <1>5, Failing DEF UnknownOpcode, Reject
  <2>3. EndsAs(FetchEnd(Op, memory, ip, sp, bp))
    BY <2>1, <2>2 DEF FetchEnd, Behind, NextIp
  <2>4. bp' = BpEnd(Op, memory, ip, sp, bp) /\ ~Starts(Op, memory, ip, sp)
    BY <2>1 DEF BpEnd, Starts
  <2> QED BY <1>3, <2>1, <2>3, <2>4
<1>6. CASE MissingOperand
  <2>1. Fetching /\ ~HasOperands /\ bp' = bp
    BY <1>6 DEF MissingOperand
  <2>2. Cut(Op, ip)
    BY <1>4, <2>1, Refusing
  <2>3. EndsAs(Ends("IPBounds", MEMORY_SIZE, sp, memory))
    BY <1>6, Failing DEF MissingOperand
  <2>4. Op # "unknown"
    <3>1. ASSUME Op = "unknown" PROVE FALSE
      <4>1. OperandCount("unknown") = 0
        BY DEF OperandCount
      <4> QED BY <2>1, <3>1, <4>1, Registers, Sizes DEF HasOperands
    <3> QED BY <3>1
  <2>5. EndsAs(FetchEnd(Op, memory, ip, sp, bp))
    BY <2>2, <2>3, <2>4 DEF FetchEnd
  <2>6. bp' = BpEnd(Op, memory, ip, sp, bp) /\ ~Starts(Op, memory, ip, sp)
    BY <2>1, <2>2 DEF BpEnd, Starts
  <2> QED BY <1>3, <2>1, <2>5, <2>6
<1>7. CASE StackUnderflow
  <2>1. /\ Fetching /\ HasOperands /\ Depth < Consumes(Op)
        /\ Throw(IF Op \in {"DUP", "PRINT", "PRINT_STR"} THEN "StackEmpty" ELSE "StackUnderflow",
                 UnderflowIp, STACK_BASE, memory)
        /\ bp' = IF Op = "LEAVE" /\ Depth >= 2 THEN Top(1) ELSE bp
    BY <1>7 DEF StackUnderflow
  <2>2. ~Cut(Op, ip) /\ Short(Op, memory, ip, sp)
    BY <1>4, <2>1, Refusing
  <2>3. Op # "unknown"
    <3>1. ASSUME Op = "unknown" PROVE FALSE
      <4>1. Consumes(Op) = 0
        BY <3>1 DEF Consumes, BinaryOps
      <4> QED BY <2>1, <4>1, Registers, Sizes DEF Depth
    <3> QED BY <3>1
  <2>4. EndsAs(Ends(IF Op \in {"DUP", "PRINT", "PRINT_STR"} THEN "StackEmpty" ELSE "StackUnderflow",
                    UnderflowIp, STACK_BASE, memory))
    BY <2>1, Failing
  <2>5. EndsAs(FetchEnd(Op, memory, ip, sp, bp))
    BY <2>2, <2>3, <2>4 DEF FetchEnd, Behind, NextIp, UnderflowIp
  <2>6. bp' = BpEnd(Op, memory, ip, sp, bp) /\ ~Starts(Op, memory, ip, sp)
    BY <2>1, <2>2 DEF BpEnd, Starts, Depth, Top
  <2> QED BY <1>3, <2>1, <2>5, <2>6
<1>8. ~NoEvalContext /\ ~NoRoomForArguments
  BY DEF NoEvalContext, NoRoomForArguments, AsksOutside, HasContext
<1> QED BY <1>2, <1>5, <1>6, <1>7, <1>8 DEF FrameInstruction

LEMMA StopsEnd ==
  ASSUME IInv, exception = "none", StopInstruction \/ InterruptInstruction, phase' # "wild"
  PROVE  EndsAs(FetchEnd(Op, memory, ip, sp, bp)) /\ OthersEnd
<1>0. running \in BOOLEAN /\ interrupt_flag \in BOOLEAN
  BY DEF IInv, TypeOK
<1>1. At(Op) /\ Op \in {"HALT", "ABORT", "CLI", "STI", "IRET", "SIGNAL_REG"}
  BY DEF StopInstruction, InterruptInstruction, Halt, Abort, Cli, Sti, Iret, SignalReg, At
<1>2. EndsAs(Now(Op))
  BY StringEnds, JumpsEnd, FlagsEnd DEF StopInstruction, InterruptInstruction
<1>3. Starts(Op, memory, ip, sp) /\ FetchEnd(Op, memory, ip, sp, bp) = Now(Op)
  BY <1>1, Starting DEF OwnOps
<1>4. bp' = BpEnd(Op, memory, ip, sp, bp)
  BY <1>1 DEF BpEnd, StopInstruction, InterruptInstruction
<1>5. CASE StopInstruction
  <2>1. UNCHANGED <<interrupt_flag, signal_handlers>> /\ (Halt \/ Abort)
    BY <1>5 DEF StopInstruction
  <2>2. Op \in {"HALT", "ABORT"}
    BY <2>1 DEF Halt, Abort, At
  <2>3. running' = RunningEnd(Op, memory, ip, sp, running)
    <3>1. CASE Halt
      BY <1>0, <1>3, <3>1 DEF RunningEnd, Halt, At
    <3>2. CASE Abort
      <4>1. Op = "ABORT" /\ Fetching /\ Depth >= 1
        <5>1. Consumes("ABORT") = 1
          BY DEF Consumes, BinaryOps
        <5> QED BY <3>2, <5>1 DEF Abort, At
      <4>2. /\ Top(0) \in Word
            /\ Top(0) < MEMORY_SIZE =>
                 (LastStringWord(Top(0)) < MEMORY_SIZE <=> ~(LastStringWord(Top(0)) >= MEMORY_SIZE))
            /\ LastStringWord(Top(0)) < MEMORY_SIZE <=> StringFits(memory, Top(0))
        BY <4>1, StringWords
      <4>3. Top(0) < MEMORY_SIZE <=> ~(Top(0) >= MEMORY_SIZE)
        BY <4>2, Sizes DEF Word
      <4>4. running' = IF Top(0) >= MEMORY_SIZE \/ StringFits(memory, Top(0)) THEN FALSE ELSE running
        BY <3>2, <4>2, <4>3 DEF Abort, IsString, ReadBadString
      <4> QED BY <1>0, <1>3, <4>1, <4>4 DEF RunningEnd, Top
    <3> QED BY <2>1, <3>1, <3>2
  <2> QED BY <1>0, <1>2, <1>3, <1>4, <2>1, <2>2, <2>3 DEF OthersEnd, FlagEnd, HandlersEnd
<1>6. CASE InterruptInstruction
  <2>1. UNCHANGED running /\ (Cli \/ Sti \/ Iret \/ SignalReg)
    BY <1>6 DEF InterruptInstruction
  <2>2. running' = RunningEnd(Op, memory, ip, sp, running)
    <3>1. Op \in {"CLI", "STI", "IRET", "SIGNAL_REG"}
      BY <2>1 DEF Cli, Sti, Iret, SignalReg, At
    <3> QED BY <1>0, <2>1, <3>1 DEF RunningEnd
  <2>3. interrupt_flag' = FlagEnd(Op, memory, ip, sp, interrupt_flag)
    <3>1. CASE Cli
      BY <1>3, <3>1 DEF FlagEnd, Cli, At
    <3>2. CASE Sti
      BY <1>3, <3>2 DEF FlagEnd, Sti, At
    <3>3. CASE Iret
      BY <1>0, <1>3, <3>3 DEF FlagEnd, Iret, At, Top
    <3>4. CASE SignalReg
      BY <1>0, <1>3, <3>4 DEF FlagEnd, SignalReg, At
    <3> QED BY <2>1, <3>1, <3>2, <3>3, <3>4
  <2>4. signal_handlers' = HandlersEnd(Op, memory, ip, sp, signal_handlers)
    <3>1. CASE Cli \/ Sti \/ Iret
      BY <3>1 DEF HandlersEnd, Cli, Sti, Iret, At
    <3>2. CASE SignalReg
      <4>1. Consumes("SIGNAL_REG") = 2
        BY DEF Consumes, BinaryOps
      <4>2. Op = "SIGNAL_REG" /\ Fetching /\ Depth >= 2
        BY <3>2, <4>1 DEF SignalReg, At
      <4>3. Top(1) \in Word
        BY <4>2, StackWords, Registers, Sizes DEF Depth
      <4>4. Top(1) < MEMORY_SIZE <=> ~(Top(1) >= MEMORY_SIZE)
        BY <4>3, Sizes DEF Word
      <4>5. signal_handlers' = IF Top(0) \in Signals /\ Top(1) < MEMORY_SIZE
                               THEN [signal_handlers EXCEPT ![Top(0)] = Top(1)] ELSE signal_handlers
        BY <3>2, <4>4 DEF SignalReg
      <4> QED BY <1>3, <4>2, <4>5 DEF HandlersEnd, Top
    <3> QED BY <2>1, <3>1, <3>2
  <2> QED BY <1>2, <1>3, <1>4, <2>2, <2>3, <2>4 DEF OthersEnd
<1> QED BY <1>5, <1>6

LEMMA InstructionEnds ==
  ASSUME IInv, exception = "none", Instruction, ~AsksOutside, phase' # "wild"
  PROVE  EndsAs(FetchEnd(Op, memory, ip, sp, bp)) /\ OthersEnd
<1>1. ~CompileInstruction
  BY DEF CompileInstruction, Eval, Compile, CompileString, At, AsksOutside
<1> QED BY <1>1, PlainEnd, FramesEnd, StopsEnd DEF Instruction

-----------------------------------------------------------------------------
(***************************************************************************)
(* The state of an execution, and the one that follows it.                 *)
(***************************************************************************)
Machine(m, at, k, b, r, f, h, count, turns, limit, where, e, limited) ==
  [memory |-> m, ip |-> at, sp |-> k, bp |-> b, running |-> r, interrupt_flag |-> f,
   signal_handlers |-> h, signal_count |-> count, instruction_count |-> turns,
   max_instructions |-> limit, phase |-> where, exception |-> e, limited |-> limited]

State == Machine(memory, ip, sp, bp, running, interrupt_flag, signal_handlers, signal_count,
                 instruction_count, max_instructions, phase, exception,
                 phase = "idle" /\ exception = "none" /\ hit_instruction_limit)

AfterFetch(m, at, k, b, r, f, h, count, turns, limit) ==
  LET op == Opcode(m[at])
      x == FetchEnd(op, m, at, k, b)
  IN Machine(x.memory, x.ip, x.sp, BpEnd(op, m, at, k, b), RunningEnd(op, m, at, k, r),
             FlagEnd(op, m, at, k, f), HandlersEnd(op, m, at, k, h), count, turns, limit,
             IF x.exception = "none" THEN "loop" ELSE "idle", x.exception, FALSE)

Due(count, h) == {s \in Signals : count[s] > 0 /\ h[s] # 0}
First(S) == CHOOSE s \in S : \A t \in S : s <= t

AfterInterrupt(s, m, at, k, b, r, h, count, turns, limit) ==
  IF Free(k) > 0
  THEN Machine([m EXCEPT ![k - 1] = at], h[s], k - 1, b, r, FALSE, h, [count EXCEPT ![s] = @ - 1],
               turns + 1, limit, "fetch", "none", FALSE)
  ELSE Machine(m, at, k, b, r, FALSE, h, count, turns + 1, limit, "idle", "StackOverflow", FALSE)

AfterTest(m, at, k, b, r, f, h, count, turns, limit) ==
  IF ~(r /\ at < MEMORY_SIZE /\ turns < limit)
  THEN Machine(m, at, k, b, TRUE, f, h, count, turns, limit, "idle", "none", turns >= limit /\ r)
  ELSE IF f /\ Due(count, h) # {}
  THEN AfterInterrupt(First(Due(count, h)), m, at, k, b, r, h, count, turns, limit)
  ELSE Machine(m, at, k, b, r, f, h, count, turns + 1, limit, "fetch", "none", FALSE)

After(s) ==
  IF s.phase = "loop"
  THEN AfterTest(s.memory, s.ip, s.sp, s.bp, s.running, s.interrupt_flag, s.signal_handlers,
                 s.signal_count, s.instruction_count, s.max_instructions)
  ELSE AfterFetch(s.memory, s.ip, s.sp, s.bp, s.running, s.interrupt_flag, s.signal_handlers,
                  s.signal_count, s.instruction_count, s.max_instructions)

LEMMA AfterState ==
  After(State) = IF phase = "loop"
                 THEN AfterTest(memory, ip, sp, bp, running, interrupt_flag, signal_handlers,
                                signal_count, instruction_count, max_instructions)
                 ELSE AfterFetch(memory, ip, sp, bp, running, interrupt_flag, signal_handlers,
                                 signal_count, instruction_count, max_instructions)
BY DEF After, State, Machine

LEMMA TestEnds ==
  ASSUME IInv, exception = "none", TurnQuietly \/ (\E s \in Signals : Interrupt(s)) \/ Return
  PROVE  State' = AfterTest(memory, ip, sp, bp, running, interrupt_flag, signal_handlers,
                            signal_count, instruction_count, max_instructions)
<1> DEFINE stops == ~(running /\ ip < MEMORY_SIZE /\ instruction_count < max_instructions)
           due == Due(signal_count, signal_handlers)
<1>1. due = Deliverable /\ (GoesOn <=> phase = "loop" /\ ~stops)
  BY DEF Due, Deliverable, GoesOn
<1>2. CASE Return
  <2>1. stops
    BY <1>1, <1>2 DEF Return
  <2>2. State' = Machine(memory, ip, sp, bp, TRUE, interrupt_flag, signal_handlers, signal_count,
                         instruction_count, max_instructions, "idle", "none",
                         instruction_count >= max_instructions /\ running)
    BY <1>2 DEF Return, State, Machine, interruptVars, hostVars
  <2> QED BY <2>1, <2>2 DEF AfterTest
<1>3. CASE TurnQuietly
  <2>1. ~stops /\ ~(interrupt_flag /\ due # {})
    BY <1>1, <1>3 DEF TurnQuietly
  <2>2. State' = Machine(memory, ip, sp, bp, running, interrupt_flag, signal_handlers, signal_count,
                         instruction_count + 1, max_instructions, "fetch", "none", FALSE)
    BY <1>3 DEF TurnQuietly, State, Machine, interruptVars, hostVars
  <2> QED BY <2>1, <2>2 DEF AfterTest
<1>4. ASSUME NEW s \in Signals, Interrupt(s)
      PROVE  State' = AfterTest(memory, ip, sp, bp, running, interrupt_flag, signal_handlers,
                                signal_count, instruction_count, max_instructions)
  <2>1. ~stops /\ interrupt_flag /\ due # {}
    BY <1>1, <1>4 DEF Interrupt
  <2>2. s = First(due)
    <3>1. s \in due /\ \A t \in due : s <= t
      BY <1>1, <1>4 DEF Interrupt
    <3>2. First(due) \in due /\ \A t \in due : First(due) <= t
      <4> HIDE DEF due
      <4> QED BY <3>1 DEF First
    <3> DEFINE first == First(due)
    <3>3. first \in Int /\ s \in Int
      BY <1>1, <3>1, <3>2, HostAssumption DEF Deliverable, Signals
    <3>4. first <= s /\ s <= first
      BY <3>1, <3>2
    <3> HIDE DEF due, first
    <3>5. s = first
      BY <3>3, <3>4
    <3> QED BY <3>5 DEF first
  <2>3. Free(sp) \in Int /\ Room(sp) = Free(sp)
    BY RoomIsFree, Registers, Sizes DEF Free
  <2>4. State' = AfterInterrupt(s, memory, ip, sp, bp, running, signal_handlers, signal_count,
                                instruction_count, max_instructions)
    <3>1. CASE Free(sp) > 0
      <4>1. State' = Machine([memory EXCEPT ![sp - 1] = ip], signal_handlers[s], sp - 1, bp, running, FALSE,
                             signal_handlers, [signal_count EXCEPT ![s] = @ - 1],
                             instruction_count + 1, max_instructions, "fetch", "none", FALSE)
        <5>1. /\ sp' = sp - 1 /\ memory' = [memory EXCEPT ![sp - 1] = ip] /\ ip' = signal_handlers[s]
              /\ signal_count' = [signal_count EXCEPT ![s] = @ - 1]
              /\ phase' = "fetch" /\ exception' = "none" /\ interrupt_flag' = FALSE
              /\ instruction_count' = instruction_count + 1
              /\ UNCHANGED <<bp, running, signal_handlers, max_instructions>>
          BY <1>4, <2>3, <3>1 DEF Interrupt, hostVars
        <5>2. (phase' = "idle" /\ exception' = "none" /\ hit_instruction_limit') = FALSE
          BY <5>1
        <5> QED BY <5>1, <5>2 DEF State
      <4> QED BY <3>1, <4>1 DEF AfterInterrupt
    <3>2. CASE ~(Free(sp) > 0)
      <4>1. State' = Machine(memory, ip, sp, bp, running, FALSE, signal_handlers, signal_count,
                             instruction_count + 1, max_instructions, "idle", "StackOverflow", FALSE)
        BY <1>4, <2>3, <3>2 DEF Interrupt, Throw, State, Machine, hostVars
      <4> QED BY <3>2, <4>1 DEF AfterInterrupt
    <3> QED BY <3>1, <3>2
  <2> QED BY <2>1, <2>2, <2>4 DEF AfterTest
<1> QED BY <1>2, <1>3, <1>4

\* A step of execute() is a function of the registers, the memory, the handlers, the
\* signals that wait and the limit, unless it asks the outside; the limit flag and all that
\* belongs to the host have no part in it.
THEOREM ExecutionIsDetermined ==
  ASSUME IInv, Execution, exception = "none", ~AsksOutside, phase' # "wild"
  PROVE  State' = After(State)
<1>1. CASE TurnQuietly \/ (\E s \in Signals : Interrupt(s)) \/ Return
  <2>1. phase = "loop"
    BY <1>1 DEF TurnQuietly, Interrupt, Return, GoesOn
  <2> QED BY <1>1, <2>1, TestEnds, AfterState
<1>2. CASE Instruction
  <2>1. phase = "fetch"
    BY <1>2 DEF Instruction, DataInstruction, FrameInstruction, StopInstruction, InterruptInstruction,
                CompileInstruction, PushConstant, PopTop, Dup, Swap, PrintTop, PrintString, BinaryOp, Load,
                Store, BpLoad, BpStore, Jmp, Jz, Call, Funcall, Ret, CCallRefused, CCallPlain, CCallOpen,
                CCallWrite, CCallRead, CallsC, Enter, Leave, StackUnderflow, NoRoomForArguments,
                UnknownOpcode, MissingOperand, NoEvalContext, Halt, Abort, Cli, Sti, Iret, SignalReg,
                Eval, Compile, CompileString, At, Fetching
  <2> DEFINE x == FetchEnd(Op, memory, ip, sp, bp)
  <2>2. EndsAs(x) /\ OthersEnd
    BY <1>2, InstructionEnds
  <2>3. UNCHANGED <<signal_count, instruction_count, max_instructions>>
    BY <1>2 DEF Instruction, limitVars
  <2> HIDE DEF x
  <2>4. (phase' = "idle" /\ exception' = "none" /\ hit_instruction_limit') = FALSE
    BY <2>2 DEF EndsAs
  <2>5. State' = Machine(x.memory, x.ip, x.sp, BpEnd(Op, memory, ip, sp, bp),
                         RunningEnd(Op, memory, ip, sp, running), FlagEnd(Op, memory, ip, sp, interrupt_flag),
                         HandlersEnd(Op, memory, ip, sp, signal_handlers), signal_count,
                         instruction_count, max_instructions,
                         IF x.exception = "none" THEN "loop" ELSE "idle", x.exception, FALSE)
    BY <2>2, <2>3, <2>4 DEF EndsAs, OthersEnd, State
  <2> QED BY <2>1, <2>5, AfterState DEF AfterFetch, Op, x
<1> QED BY <1>1, <1>2 DEF Execution

-----------------------------------------------------------------------------
(***************************************************************************)
(* Executions from a state: the states that follow one another.            *)
(***************************************************************************)
Chain(f, n, s) ==
  f[0] = s /\ \A i \in 0..n - 1 : f[i].phase # "idle" /\ f[i + 1] = After(f[i])

Leads(s, t) == \E n \in Nat : \E f : Chain(f, n, s) /\ f[n] = t

LEMMA LeadsToItself == \A s : Leads(s, s)
<1>1. TAKE s
<1>2. Chain([i \in 0..0 |-> s], 0, s) /\ [i \in 0..0 |-> s][0] = s
  BY DEF Chain
<1> QED BY <1>2 DEF Leads

LEMMA LeadsOn ==
  ASSUME NEW s, NEW t, Leads(s, t), t.phase # "idle"
  PROVE  Leads(s, After(t))
<1>0. PICK n \in Nat : \E f : Chain(f, n, s) /\ f[n] = t
  BY DEF Leads
<1>1. PICK f : Chain(f, n, s) /\ f[n] = t
  BY <1>0
<1> DEFINE u == After(t)
           g == [i \in 0..n + 1 |-> IF i <= n THEN f[i] ELSE u]
<1> HIDE DEF u
<1>2. g[n + 1] = u /\ \A i \in 0..n : g[i] = f[i]
  OBVIOUS
<1>3. Chain(g, n + 1, s)
  <2>1. g[0] = s
    BY <1>1, <1>2 DEF Chain
  <2>2. ASSUME NEW i \in 0..(n + 1) - 1 PROVE g[i].phase # "idle" /\ g[i + 1] = After(g[i])
    <3>1. CASE i = n
      BY <1>1, <1>2, <3>1 DEF u
    <3>2. CASE i # n
      <4>1. i \in 0..n - 1 /\ i \in 0..n /\ i + 1 \in 0..n
        BY <3>2
      <4>2. g[i] = f[i] /\ g[i + 1] = f[i + 1]
        BY <1>2, <4>1
      <4> HIDE DEF g
      <4> QED BY <1>1, <4>1, <4>2 DEF Chain
    <3> QED BY <3>1, <3>2
  <2> HIDE DEF g
  <2> QED BY <2>1, <2>2 DEF Chain
<1> HIDE DEF g
<1>4. n + 1 \in Nat
  OBVIOUS
<1> QED BY <1>2, <1>3, <1>4 DEF Leads, u

\* There is one end that a state leads to.
LEMMA OneEnd ==
  ASSUME NEW s, NEW t, NEW u, Leads(s, t), Leads(s, u), t.phase = "idle", u.phase = "idle"
  PROVE  t = u
<1>0. PICK n \in Nat, m \in Nat : /\ \E f : Chain(f, n, s) /\ f[n] = t
                                  /\ \E g : Chain(g, m, s) /\ g[m] = u
  BY DEF Leads
<1>1. PICK f : Chain(f, n, s) /\ f[n] = t
  BY <1>0
<1>2. PICK g : Chain(g, m, s) /\ g[m] = u
  BY <1>0
<1> DEFINE same == {i \in Nat : i <= n /\ i <= m => f[i] = g[i]}
<1>3. ASSUME NEW N \in Nat PROVE \A i \in 0..N : i \in same
  <2>1. 0 \in same
    BY <1>1, <1>2 DEF Chain
  <2>2. ASSUME NEW i \in 0..N - 1, i \in same PROVE i + 1 \in same
    <3>1. CASE i + 1 <= n /\ i + 1 <= m
      <4>1. i \in 0..n - 1 /\ i \in 0..m - 1
        BY <3>1
      <4>2. f[i] = g[i]
        BY <2>2, <4>1
      <4>3. f[i + 1] = g[i + 1]
        BY <1>1, <1>2, <4>1, <4>2 DEF Chain
      <4> QED BY <4>3
    <3> QED BY <3>1
  <2> HIDE DEF same
  <2> QED BY <2>1, <2>2, Stepwise
<1>4. \A i \in Nat : i <= n /\ i <= m => f[i] = g[i]
  BY <1>3
<1>5. CASE n < m
  <2>1. f[n] = g[n] /\ n \in 0..m - 1
    BY <1>4, <1>5
  <2> QED BY <1>1, <1>2, <2>1 DEF Chain
<1>6. CASE m < n
  <2>1. f[m] = g[m] /\ m \in 0..n - 1
    BY <1>4, <1>6
  <2> QED BY <1>1, <1>2, <2>1 DEF Chain
<1>7. CASE n = m
  BY <1>1, <1>2, <1>4, <1>7
<1> QED BY <1>5, <1>6, <1>7

(***************************************************************************)
(* What is known of the executions that start from the snapshot: those     *)
(* that have ended, and the one under way.                                 *)
(***************************************************************************)
\* The state in which execute() begins when the machine is as in the snapshot.
Begin(snap, g) ==
  Machine(snap.memory, snap.ip, snap.sp, snap.bp, snap.running, snap.interrupt_flag,
          snap.signal_handlers, g.pending, 0, g.limit, "loop", "none", FALSE)

OutcomeOf(t) ==
  [ip |-> t.ip, sp |-> t.sp, bp |-> t.bp, memory |-> t.memory, running |-> t.running,
   interrupt_flag |-> t.interrupt_flag, signal_handlers |-> t.signal_handlers,
   signal_count |-> t.signal_count, exception |-> t.exception, limited |-> t.limited]

Ended(o) == \E t : Leads(Begin(snapshot, o.given), t) /\ t.phase = "idle" /\ o.outcome = OutcomeOf(t)

AsIn(snap) ==
  /\ memory = snap.memory /\ ip = snap.ip /\ sp = snap.sp /\ bp = snap.bp /\ running = snap.running
  /\ interrupt_flag = snap.interrupt_flag /\ signal_handlers = snap.signal_handlers

UnderWay ==
  follows => /\ phase = "idle" => AsIn(snapshot)
             /\ phase \in {"loop", "fetch"} => /\ exception = "none"
                                               /\ Leads(Begin(snapshot, given), State)

ReplayInv == /\ RestorableInv
             /\ follows \in BOOLEAN /\ UnderWay
             /\ \A o \in outcomes : Ended(o)

LEMMA ReplayInit == CheckpointInit(Init, 0) => ReplayInv
<1>1. CheckpointInit(Init, 0) => follows = FALSE /\ outcomes = {}
  BY DEF CheckpointInit
<1> QED BY <1>1, RestorableInit DEF ReplayInv, UnderWay

LEMMA ReplayStep ==
  ASSUME ReplayInv, [CheckpointNext]_checkpointVars
  PROVE  ReplayInv'
<1>1. RestorableInv'
  BY RestorableStep DEF ReplayInv
<1>2. IInv /\ phase \in {"idle", "loop", "fetch", "wild"}
  BY DEF ReplayInv, RestorableInv, IInv, TypeOK
<1>3. SUFFICES (follows' \in BOOLEAN) /\ UnderWay' /\ \A o \in outcomes' : Ended(o)'
  BY <1>1 DEF ReplayInv
<1>4. ASSUME snapshot' = snapshot PROVE \A o \in outcomes : Ended(o)'
  BY <1>4 DEF ReplayInv, Ended
<1>5. CASE Run
  <2>1. /\ Execution
        /\ follows' = (follows /\ ~AsksOutside /\ phase' # "idle")
        /\ given' = IF follows' THEN given ELSE Nothing
        /\ outcomes' = IF follows /\ ~AsksOutside /\ phase' = "idle"
                       THEN outcomes \cup {[given |-> given, outcome |-> Outcome']}
                       ELSE outcomes
        /\ snapshot' = snapshot
    BY <1>5 DEF Run
  <2>2. ASSUME follows, ~AsksOutside, phase' # "wild"
        PROVE  exception = "none" /\ Leads(Begin(snapshot, given), State')
    <3>1. phase \in {"loop", "fetch"}
      BY <2>1 DEF Execution, Instruction, DataInstruction, FrameInstruction, StopInstruction, InterruptInstruction,
                CompileInstruction, PushConstant, PopTop, Dup, Swap, PrintTop, PrintString, BinaryOp, Load,
                Store, BpLoad, BpStore, Jmp, Jz, Call, Funcall, Ret, CCallRefused, CCallPlain, CCallOpen,
                CCallWrite, CCallRead, CallsC, Enter, Leave, StackUnderflow, NoRoomForArguments,
                UnknownOpcode, MissingOperand, NoEvalContext, Halt, Abort, Cli, Sti, Iret, SignalReg,
                Eval, Compile, CompileString, At, Fetching, TurnQuietly, Interrupt, Return, GoesOn
    <3>2. exception = "none" /\ Leads(Begin(snapshot, given), State)
      BY <2>2, <3>1 DEF ReplayInv, UnderWay
    <3>3. State' = After(State)
      BY <1>2, <2>1, <2>2, <3>2, ExecutionIsDetermined
    <3>4. State.phase # "idle"
      BY <3>1 DEF State, Machine
    <3> QED BY <3>2, <3>3, <3>4, LeadsOn
  <2>3. UnderWay'
    <3> SUFFICES ASSUME follows' PROVE /\ phase' # "idle"
                                       /\ phase' \in {"loop", "fetch"} =>
                                            /\ exception' = "none"
                                            /\ Leads(Begin(snapshot', given'), State')
      BY DEF UnderWay
    <3>1. follows /\ ~AsksOutside /\ phase' # "idle" /\ given' = given
      BY <2>1
    <3>2. ASSUME phase' \in {"loop", "fetch"} PROVE exception' = "none"
      <4>1. phase' # "wild"
        BY <3>2
      <4>2. State' = After(State) /\ exception = "none"
        BY <1>2, <2>1, <2>2, <3>1, <4>1, ExecutionIsDetermined
      <4>3. State'.phase = phase' /\ State'.exception = exception'
        BY DEF State, Machine
      <4>4. After(State).phase # "idle" => After(State).exception = "none"
        BY AfterState DEF AfterTest, AfterFetch, AfterInterrupt, Machine
      <4> QED BY <3>1, <4>2, <4>3, <4>4
    <3> QED BY <2>1, <2>2, <3>1, <3>2
  <2>4. \A o \in outcomes' : Ended(o)'
    <3>1. CASE follows /\ ~AsksOutside /\ phase' = "idle"
      <4>1. Leads(Begin(snapshot, given), State')
        BY <2>2, <3>1
      <4>2. State'.phase = "idle" /\ Outcome' = OutcomeOf(State')
        BY <3>1 DEF State, Machine, Outcome, OutcomeOf
      <4>3. PICK t : t = State'
        OBVIOUS
      <4>4. PICK e : e = [given |-> given, outcome |-> Outcome']
        OBVIOUS
      <4>5. e.given = given /\ e.outcome = Outcome'
        BY <4>4
      <4>6. Leads(Begin(snapshot', e.given), t) /\ t.phase = "idle" /\ e.outcome = OutcomeOf(t)
        BY <2>1, <4>1, <4>2, <4>3, <4>5
      <4>7. Ended(e)'
        BY <4>6 DEF Ended
      <4>8. outcomes' = outcomes \cup {e}
        BY <2>1, <3>1, <4>4
      <4> QED BY <1>4, <2>1, <4>7, <4>8
    <3> QED BY <1>4, <2>1, <3>1
  <2> QED BY <2>1, <2>3, <2>4 DEF ReplayInv
<1>6. CASE HostCall
  <2>1. /\ Host
        /\ follows' = (follows /\ phase' = "loop")
        /\ given' = IF follows' THEN [limit |-> max_instructions', pending |-> signal_count]
                    ELSE Nothing
        /\ UNCHANGED <<snapshot, restores, outcomes>>
    BY <1>6 DEF HostCall
  <2>2. UnderWay'
    <3> SUFFICES ASSUME follows' PROVE /\ phase' = "loop" /\ exception' = "none"
                                       /\ Leads(Begin(snapshot', given'), State')
      BY <2>1 DEF UnderWay
    <3>1. follows /\ phase' = "loop"
      BY <2>1
    <3>2. phase = "idle"
      BY <2>1 DEF Host, LoadProgram, Reset, SetIp, WriteMemory, StackPop, Execute, HostTurn
    <3>3. PICK limit \in ExecuteLimits : Execute(limit)
      BY <2>1, <3>1, <3>2 DEF Host, LoadProgram, Reset, SetIp, WriteMemory, StackPop
    <3>4. /\ instruction_count' = 0 /\ max_instructions' = limit /\ exception' = "none"
          /\ UNCHANGED <<memory, ip, sp, bp, hp, running, interrupt_flag, signal_handlers, signal_count>>
      BY <3>3 DEF Execute, interruptVars
    <3>5. AsIn(snapshot)
      BY <3>1, <3>2 DEF ReplayInv, UnderWay
    <3>6. given'.limit = limit /\ given'.pending = signal_count /\ snapshot' = snapshot
      BY <2>1, <3>4
    <3>7. /\ snapshot.memory = memory /\ snapshot.ip = ip /\ snapshot.sp = sp /\ snapshot.bp = bp
          /\ snapshot.running = running /\ snapshot.interrupt_flag = interrupt_flag
          /\ snapshot.signal_handlers = signal_handlers
      BY <3>5 DEF AsIn
    <3>8. (phase' = "idle" /\ exception' = "none" /\ hit_instruction_limit') = FALSE
      BY <3>1
    <3>9. State' = Begin(snapshot', given')
      BY <3>1, <3>4, <3>6, <3>7, <3>8 DEF State, Begin
    <3> QED BY <3>1, <3>4, <3>9, LeadsToItself
  <2> QED BY <1>4, <2>1, <2>2 DEF ReplayInv
<1>7. CASE SignalArrives
  <2>1. /\ follows' = (follows /\ phase = "idle") /\ snapshot' = snapshot /\ outcomes' = outcomes
        /\ UNCHANGED <<phase, memory, ip, sp, bp, hp, running, interrupt_flag, signal_handlers>>
    BY <1>7 DEF SignalArrives, Raise
  <2>2. UnderWay'
    BY <2>1 DEF ReplayInv, UnderWay, AsIn
  <2> QED BY <1>4, <2>1, <2>2 DEF ReplayInv
<1>8. CASE TakeCheckpoint
  <2>1. /\ phase' = "idle" /\ follows' = TRUE /\ snapshot' = Saved /\ outcomes' = {}
        /\ UNCHANGED <<memory, ip, sp, bp, hp, running, interrupt_flag, signal_handlers>>
    BY <1>8 DEF TakeCheckpoint, SnapshotTurn, interruptVars
  <2>2. AsIn(snapshot)'
    BY <2>1 DEF AsIn, Saved
  <2> QED BY <2>1, <2>2 DEF UnderWay
<1>9. CASE Restore
  <2>1. phase' = "idle" /\ snapshot' = snapshot /\ outcomes' = outcomes /\ phase = "idle"
    BY <1>9 DEF Restore, SnapshotTurn
  <2>2. CASE Usable(snapshot) /\ RestoreFrom(snapshot) /\ follows' = TRUE
    <3>1. AsIn(snapshot)'
      BY <2>1, <2>2 DEF AsIn, RestoreFrom
    <3> QED BY <1>4, <2>1, <2>2, <3>1 DEF UnderWay
  <2>3. CASE UNCHANGED <<memory, ip, sp, bp, hp, running, interrupt_flag, signal_handlers, follows>>
    BY <1>4, <2>1, <2>3 DEF ReplayInv, UnderWay, AsIn
  <2> QED BY <1>9, <2>2, <2>3 DEF Restore
<1>10. CASE UNCHANGED checkpointVars
  <2>1. UNCHANGED <<vars, snapshot, follows, given, outcomes>>
    BY <1>10 DEF checkpointVars, historyVars
  <2>2. State' = State /\ (AsIn(snapshot)' <=> AsIn(snapshot))
    BY <2>1 DEF vars, interruptVars, limitVars, State, AsIn
  <2>3. UNCHANGED <<phase, exception>>
    BY <2>1 DEF vars
  <2> QED BY <1>4, <2>1, <2>2, <2>3 DEF ReplayInv, UnderWay
<1> QED BY <1>5, <1>6, <1>7, <1>8, <1>9, <1>10 DEF CheckpointNext

\* Executions that start from the same snapshot with the same limit and the same signals
\* waiting end alike, for every program, layout and host: all that execute() depends on is
\* in the snapshot, the limit and those signals, and restore() brings it back.
THEOREM RestoredReplays == CheckpointSpec => []ReplaysFromSnapshot
<1>1. ReplayInv /\ [CheckpointNext]_checkpointVars => ReplayInv'
  BY ReplayStep
<1>2. ReplayInv => ReplaysFromSnapshot
  <2> SUFFICES ASSUME ReplayInv, NEW a \in outcomes, NEW b \in outcomes, a.given = b.given
               PROVE  a.outcome = b.outcome
    BY DEF ReplaysFromSnapshot
  <2>1. PICK t : Leads(Begin(snapshot, a.given), t) /\ t.phase = "idle" /\ a.outcome = OutcomeOf(t)
    BY DEF ReplayInv, Ended
  <2>2. PICK u : Leads(Begin(snapshot, b.given), u) /\ u.phase = "idle" /\ b.outcome = OutcomeOf(u)
    BY DEF ReplayInv, Ended
  <2>3. t = u
    BY <2>1, <2>2, OneEnd
  <2> QED BY <2>1, <2>2, <2>3
<1> QED BY <1>1, <1>2, ReplayInit, PTL DEF CheckpointSpec
=============================================================================
