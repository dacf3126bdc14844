---------------------- MODULE InterruptHandling_proofs ----------------------
(***************************************************************************)
(* Proofs about InterruptHandling for any machines, any number of signals  *)
(* and any number of them sent.  A sum over the signals is defined by      *)
(* recursion: facts about it are proved with the least signal for which    *)
(* they would not hold.                                                    *)
(***************************************************************************)
EXTENDS InterruptHandling, WellFoundedInduction, TLAPS

Types ==
  /\ waiting \subseteq Signals
  /\ signal_count \in [Signals -> Nat]
  /\ interrupt_flag \in [Machines -> BOOLEAN]
  /\ machine \in Machines /\ signal \in Signals /\ expected \in Nat
  /\ sent \in [Signals -> Nat] /\ merged \in [Signals -> Nat]
  /\ consumed \in [Signals -> Nat] /\ cleared \in [Signals -> Nat]
  /\ at \in {"idle", "scan", "load", "swap", "uncount", "clear", "clear_event"}

\* A machine looks for a signal unmasked, and consumes it masked.
MaskedWhileConsuming ==
  /\ at = "scan" => interrupt_flag[machine]
  /\ at \in {"load", "swap"} => ~interrupt_flag[machine]

\* clear() works with the signals blocked, from the first signal to the last.
ClearedSoFar ==
  /\ Clearing => blocked
  /\ at = "clear" => \A s \in Signals : s < signal => signal_count[s] = 0
  /\ at = "clear_event" => \A s \in Signals : signal_count[s] = 0

IInv == Types /\ EverySignalAccounted /\ DeliveredIsThere /\ MaskedWhileConsuming /\ ClearedSoFar

LEMMA Naturals == MAX_SIGNAL \in Nat /\ 0 < MAX_SIGNAL /\ MaxSent \in Nat
                  /\ \A s \in Signals : s \in Nat /\ 1 <= s /\ s <= MAX_SIGNAL
  BY BoundsAssumption DEF Signals

LEMMA Counting ==
  ASSUME NEW f \in [Signals -> Nat], NEW s \in Signals
  PROVE  /\ Plus(f, s) \in [Signals -> Nat]
         /\ Plus(f, s)[s] = f[s] + 1
         /\ \A t \in Signals \ {s} : Plus(f, s)[t] = f[t]
  BY DEF Plus

LEMMA InitHolds == Init => IInv
<1> SUFFICES ASSUME Init PROVE IInv
  OBVIOUS
<1>1. None \in [Signals -> Nat] /\ (\A s \in Signals : None[s] = 0) /\ 1 \in Signals
  BY Naturals DEF None, Signals
<1>2. Types
  BY <1>1 DEF Init, Types
<1>3. EverySignalAccounted
  BY <1>1 DEF Init, EverySignalAccounted
<1> QED BY <1>2, <1>3 DEF Init, IInv, DeliveredIsThere, MaskedWhileConsuming, ClearedSoFar, Clearing

LEMMA SendKeeps ==
  ASSUME IInv, NEW s \in Signals, Send(s)
  PROVE  IInv'
<1> USE DEF counterVars, machineVars, controlVars, IInv
<1>1. Types'
  BY Counting DEF Send, Types
<1>2. EverySignalAccounted'
  <2>1. sent'[s] = sent[s] + 1 /\ \A t \in Signals \ {s} : sent'[t] = sent[t]
    BY Counting DEF Send, Types
  <2>2. \A t \in Signals : {sent[t], merged[t], signal_count[t], consumed[t], cleared[t]} \subseteq Nat
    BY DEF Types
  <2>3. CASE s \notin waiting /\ waiting' = waiting \cup {s} /\ UNCHANGED merged
    BY <2>1, <2>2, <2>3 DEF Send, EverySignalAccounted
  <2>4. CASE s \in waiting /\ merged' = Plus(merged, s) /\ UNCHANGED waiting
    <3>1. merged'[s] = merged[s] + 1 /\ \A t \in Signals \ {s} : merged'[t] = merged[t]
      BY <2>4, Counting DEF Types
    <3> QED BY <2>1, <2>2, <2>4, <3>1 DEF Send, EverySignalAccounted
  <2> QED BY <2>3, <2>4 DEF Send
<1>3. DeliveredIsThere' /\ MaskedWhileConsuming' /\ ClearedSoFar'
  BY DEF Send, DeliveredIsThere, MaskedWhileConsuming, ClearedSoFar, Clearing
<1> QED BY <1>1, <1>2, <1>3

LEMMA HandlerKeeps ==
  ASSUME IInv, NEW s \in Signals, Handler(s)
  PROVE  IInv'
<1> USE DEF machineVars, controlVars, historyVars, IInv
<1>1. Types'
  BY Counting DEF Handler, Types
<1>2. signal_count'[s] = signal_count[s] + 1 /\ \A t \in Signals \ {s} : signal_count'[t] = signal_count[t]
  BY Counting DEF Handler, Types
<1>3. \A t \in Signals : {sent[t], merged[t], signal_count[t], consumed[t], cleared[t]} \subseteq Nat
  BY DEF Types
<1>4. EverySignalAccounted'
  BY <1>2, <1>3 DEF Handler, EverySignalAccounted
<1>5. DeliveredIsThere' /\ MaskedWhileConsuming'
  BY <1>2, <1>3 DEF Handler, DeliveredIsThere, MaskedWhileConsuming, Types
<1>6. ClearedSoFar'
  BY DEF Handler, ClearedSoFar, Clearing
<1> QED BY <1>1, <1>4, <1>5, <1>6

\* The steps that leave the counters and the history alone.
LEMMA ScanKeeps ==
  ASSUME IInv,
         \/ \E m \in Machines : Look(m) \/ Reset(m)
         \/ \E m \in Machines, flag \in BOOLEAN : SetFlag(m, flag)
         \/ \E m \in Machines : \E handled \in Registered(m) : SignalReg(m, handled)
         \/ PassOver \/ Deliver \/ Load \/ Reload \/ Uncount
  PROVE  IInv'
<1> USE DEF kernelVars, counterVars, machineVars, controlVars, historyVars, IInv, Control
<1>1. UNCHANGED <<signal_count, historyVars, waiting>>
  BY DEF Look, Reset, SetFlag, SignalReg, PassOver, Deliver, Load, Reload, Uncount
<1>2. EverySignalAccounted'
  BY <1>1 DEF EverySignalAccounted
<1>3. 1 \in Signals /\ (signal < MAX_SIGNAL => signal + 1 \in Signals)
  BY Naturals DEF Signals, Types
<1>4. CASE \E m \in Machines : Look(m) \/ Reset(m)
  <2>1. PICK m \in Machines : Look(m) \/ Reset(m)
    BY <1>4
  <2>2. machine' = m /\ signal' = 1 /\ at' \in {"scan", "clear"} /\ (at' = "clear" => blocked')
        /\ (at' = "scan" => interrupt_flag'[m])
        /\ UNCHANGED <<interrupt_flag, expected>>
    BY <2>1 DEF Look, Reset
  <2>3. \A s \in Signals : ~(s < 1)
    BY Naturals
  <2>4. Types'
    BY <1>1, <1>3, <2>2 DEF Types
  <2>5. ClearedSoFar'
    BY <2>2, <2>3 DEF ClearedSoFar, Clearing
  <2> QED BY <1>2, <2>2, <2>4, <2>5 DEF DeliveredIsThere, MaskedWhileConsuming
<1>5. CASE \E m \in Machines, flag \in BOOLEAN : SetFlag(m, flag)
  BY <1>1, <1>2, <1>5
     DEF SetFlag, Types, DeliveredIsThere, MaskedWhileConsuming, ClearedSoFar, Clearing
<1>6. CASE \E m \in Machines : \E handled \in Registered(m) : SignalReg(m, handled)
  BY <1>1, <1>2, <1>6
     DEF SignalReg, Types, DeliveredIsThere, MaskedWhileConsuming, ClearedSoFar, Clearing
<1>7. CASE PassOver
  BY <1>1, <1>2, <1>3, <1>7
     DEF PassOver, Types, DeliveredIsThere, MaskedWhileConsuming, ClearedSoFar, Clearing
<1>8. CASE Deliver
  <2>1. interrupt_flag' \in [Machines -> BOOLEAN] /\ interrupt_flag'[machine] = FALSE
    BY <1>8 DEF Deliver, Types
  <2> QED BY <1>1, <1>2, <1>8, <2>1
          DEF Deliver, Due, Types, DeliveredIsThere, MaskedWhileConsuming, ClearedSoFar, Clearing
<1>9. CASE Load \/ Reload \/ Uncount
  <2>1. signal_count[signal] \in Nat
    BY DEF Types
  <2> QED BY <1>1, <1>2, <1>9, <2>1
          DEF Load, Reload, Uncount, Types, DeliveredIsThere, MaskedWhileConsuming, ClearedSoFar, Clearing
<1> QED BY <1>4, <1>5, <1>6, <1>7, <1>8, <1>9

LEMMA SwapKeeps ==
  ASSUME IInv, Swap
  PROVE  IInv'
<1> USE DEF kernelVars, machineVars, IInv
<1>1. /\ expected \in Nat /\ expected > 0 /\ signal \in Signals
      /\ signal_count[signal] = expected /\ expected - 1 \in Nat
  BY DEF Swap, Types
<1>2. /\ signal_count'[signal] = expected - 1 /\ consumed'[signal] = consumed[signal] + 1
      /\ \A t \in Signals \ {signal} : signal_count'[t] = signal_count[t] /\ consumed'[t] = consumed[t]
  BY <1>1, Counting DEF Swap, Consume, Types
<1>3. Types'
  BY <1>1, Counting DEF Swap, Consume, Types
<1>4. \A t \in Signals : {sent[t], merged[t], signal_count[t], consumed[t], cleared[t]} \subseteq Nat
  BY DEF Types
<1>5. EverySignalAccounted'
  BY <1>1, <1>2, <1>4 DEF Swap, Consume, EverySignalAccounted
<1> QED BY <1>3, <1>5
        DEF Swap, Consume, DeliveredIsThere, MaskedWhileConsuming, ClearedSoFar, Clearing

LEMMA ClearKeeps ==
  ASSUME IInv, ClearCount \/ ClearEvent
  PROVE  IInv'
<1> USE DEF kernelVars, counterVars, machineVars, historyVars, IInv
<1>1. CASE ClearCount
  <2>1. signal \in Signals /\ signal_count[signal] \in Nat /\ cleared[signal] \in Nat
    BY DEF Types
  <2>2. /\ signal_count'[signal] = 0 /\ cleared'[signal] = cleared[signal] + signal_count[signal]
        /\ \A t \in Signals \ {signal} : signal_count'[t] = signal_count[t] /\ cleared'[t] = cleared[t]
    BY <1>1, <2>1 DEF ClearCount, Types
  <2>3. signal < MAX_SIGNAL => signal + 1 \in Signals
    BY <2>1, Naturals DEF Signals
  <2>4. Types'
    BY <1>1, <2>1, <2>3 DEF ClearCount, Types
  <2>5. \A t \in Signals : {sent[t], merged[t], signal_count[t], consumed[t], cleared[t]} \subseteq Nat
    BY DEF Types
  <2>6. EverySignalAccounted'
    BY <1>1, <2>1, <2>2, <2>5 DEF ClearCount, EverySignalAccounted
  <2>7. ClearedSoFar'
    BY <1>1, <2>1, <2>2, Naturals DEF ClearCount, ClearedSoFar, Clearing
  <2> QED BY <1>1, <2>4, <2>6, <2>7 DEF ClearCount, DeliveredIsThere, MaskedWhileConsuming
<1>2. CASE ClearEvent
  BY <1>2 DEF ClearEvent, Types, EverySignalAccounted, DeliveredIsThere, MaskedWhileConsuming,
              ClearedSoFar, Clearing
<1> QED BY <1>1, <1>2

LEMMA NextKeeps ==
  ASSUME IInv, [Next]_vars
  PROVE  IInv'
<1>1. CASE Next
  BY <1>1, SendKeeps, HandlerKeeps, ScanKeeps, SwapKeeps, ClearKeeps DEF Next, Thread
<1>2. CASE UNCHANGED vars
  BY <1>2 DEF vars, kernelVars, counterVars, machineVars, controlVars, historyVars, IInv, Types,
              EverySignalAccounted, DeliveredIsThere, MaskedWhileConsuming, ClearedSoFar, Clearing
<1> QED BY <1>1, <1>2

-----------------------------------------------------------------------------
\* The invariant holds throughout.
THEOREM Invariance == Spec => []IInv
<1>1. Init => IInv
  BY InitHolds
<1>2. IInv /\ [Next]_vars => IInv'
  BY NextKeeps
<1> QED BY <1>1, <1>2, PTL DEF Spec

\* Every signal that was sent is merged into one that waits, waits, is counted, was
\* consumed, or was cleared: the handler and consumme() never lose each other's updates.
THEOREM SignalsAccounted == Spec => []EverySignalAccounted
<1>1. IInv => EverySignalAccounted
  BY DEF IInv
<1> QED BY <1>1, Invariance, PTL

\* The signal a machine was interrupted for is still counted when it consumes it.
THEOREM DeliveredStays == Spec => []DeliveredIsThere
<1>1. IInv => DeliveredIsThere
  BY DEF IInv
<1> QED BY <1>1, Invariance, PTL
-----------------------------------------------------------------------------
(***************************************************************************)
(* The counters implement SignalCounts.                                    *)
(***************************************************************************)
\* Steps that the abstract machines do not see.
LEMMA Unseen ==
  ASSUME IInv, [Next]_vars,
         \/ \E s \in Signals : Send(s)
         \/ \E m \in Machines : Look(m)
         \/ \E m \in Machines : \E handled \in Registered(m) : SignalReg(m, handled)
         \/ PassOver \/ Load \/ Reload \/ Uncount \/ ClearCount \/ ClearEvent \/ UNCHANGED vars
  PROVE  UNCHANGED <<Pending, Open>>
<1> USE DEF vars, kernelVars, counterVars, machineVars, controlVars, historyVars, Control
<1>1. UNCHANGED Open
  BY DEF Open, Send, Look, SignalReg, PassOver, Load, Reload, Uncount, ClearCount, ClearEvent
<1>2. CASE ClearEvent
  <2>1. signal_count' = None
    BY <1>2 DEF ClearEvent, IInv, Types, ClearedSoFar, None
  <2> QED BY <1>1, <1>2, <2>1 DEF ClearEvent, Pending, Clearing
<1>3. CASE ClearCount
  BY <1>1, <1>3 DEF ClearCount, Pending, Clearing
<1>4. CASE ~ClearEvent /\ ~ClearCount
  BY <1>1, <1>4
     DEF Pending, Clearing, Send, Look, SignalReg, PassOver, Load, Reload, Uncount
<1> QED BY <1>2, <1>3, <1>4

LEMMA StepRefines ==
  ASSUME IInv, [Next]_vars
  PROVE  Abstract!Next \/ UNCHANGED <<Pending, Open>>
<1> USE DEF kernelVars, counterVars, machineVars, controlVars, historyVars
<1>1. ASSUME NEW s \in Signals, Handler(s) PROVE Abstract!Next
  <2>1. ~Clearing /\ ~Clearing'
    BY <1>1 DEF Handler, IInv, ClearedSoFar, Clearing
  <2>2. Abstract!Arrive(s)
    BY <1>1, <2>1 DEF Handler, Plus, Abstract!Arrive, Clearing, Pending, Open
  <2> QED BY <2>2 DEF Abstract!Next
<1>2. ASSUME NEW m \in Machines, Reset(m) PROVE Abstract!Next
  <2>1. Abstract!Discard
    BY <1>2 DEF Reset, Abstract!Discard, Clearing, None, Pending, Open
  <2> QED BY <2>1 DEF Abstract!Next
<1>3. ASSUME NEW m \in Machines, NEW flag \in BOOLEAN, SetFlag(m, flag) PROVE Abstract!Next
  <2>1. at = "idle" /\ at' = "idle" /\ interrupt_flag' = [interrupt_flag EXCEPT ![m] = flag]
        /\ UNCHANGED <<signal_count, machine>>
    BY <1>3 DEF SetFlag
  <2>2. Open' = [Open EXCEPT ![m] = flag] /\ UNCHANGED Pending
    BY <2>1 DEF Open, Pending, Clearing, IInv, Types
  <2>3. Abstract!Mask(m, flag)
    BY <2>2 DEF Abstract!Mask
  <2> QED BY <2>3 DEF Abstract!Next
<1>4. CASE Deliver
  <2>1. CASE at' = "load"
    <3>1. interrupt_flag[machine] /\ interrupt_flag' = [interrupt_flag EXCEPT ![machine] = FALSE]
          /\ at = "scan" /\ machine' = machine /\ UNCHANGED signal_count
      BY <1>4, <2>1 DEF Deliver, Control, IInv, MaskedWhileConsuming
    <3>2. UNCHANGED Open
      <4>1. ASSUME NEW m \in Machines PROVE Open'[m] = Open[m]
        BY <2>1, <3>1 DEF Open, IInv, Types
      <4> QED BY <4>1 DEF Open
    <3>3. UNCHANGED <<Pending, Open>>
      BY <2>1, <3>1, <3>2 DEF Pending, Clearing
    <3> QED BY <3>3
  <2>2. CASE at' = "idle"
    <3>1. Open' = [Open EXCEPT ![machine] = FALSE] /\ UNCHANGED Pending
      BY <1>4, <2>2 DEF Deliver, Control, Open, Pending, Clearing, IInv, Types
    <3>2. PICK m \in Machines : m = machine
      BY DEF IInv, Types
    <3>3. Abstract!Mask(m, FALSE)
      BY <3>1, <3>2 DEF Abstract!Mask
    <3> QED BY <3>3 DEF Abstract!Next
  <2> QED BY <1>4, <2>1, <2>2 DEF Deliver, Control
<1>5. CASE Swap
  <2>1. machine \in Machines /\ signal \in Signals /\ ~interrupt_flag[machine]
        /\ signal_count[signal] = expected /\ expected > 0
    BY <1>5 DEF Swap, IInv, Types, MaskedWhileConsuming
  <2>2. Open[machine] /\ Open' = [Open EXCEPT ![machine] = FALSE]
    BY <1>5, <2>1 DEF Swap, Consume, Open
  <2>3. Pending = signal_count /\ Pending' = [signal_count EXCEPT ![signal] = @ - 1]
    BY <1>5, <2>1 DEF Swap, Consume, Pending, Clearing
  <2>4. PICK m \in Machines, s \in Signals : m = machine /\ s = signal
    BY <2>1
  <2>5. Abstract!Serve(m, s)
    BY <2>1, <2>2, <2>3, <2>4 DEF Abstract!Serve
  <2> QED BY <2>5 DEF Abstract!Next
<1>6. CASE UNCHANGED vars
  BY <1>6, Unseen
<1>7. CASE Next
  BY <1>1, <1>2, <1>3, <1>4, <1>5, <1>7, Unseen DEF Next, Thread
<1> QED BY <1>6, <1>7

\* The counters of interrupt.hpp keep the promise of SignalCounts: each arrived signal
\* is served at most once, by an open machine that closes, or discarded with all others.
THEOREM CountersImplement == Spec => ServesEachSignalOnce
<1>1. Init => Abstract!Init
  <2> SUFFICES ASSUME Init PROVE Abstract!Init
    OBVIOUS
  <2> QED BY DEF Init, Abstract!Init, Clearing, None, Pending, Open
<1>2. IInv /\ [Next]_vars => [Abstract!Next]_<<Pending, Open>>
  BY StepRefines
<1>3. Spec => Abstract!Init /\ [][Abstract!Next]_<<Pending, Open>>
  BY <1>1, <1>2, Invariance, PTL DEF Spec
<1> QED BY <1>3 DEF ServesEachSignalOnce, Abstract!Spec

-----------------------------------------------------------------------------
(***************************************************************************)
(* The event counter is the total of the signals' counters.                *)
(***************************************************************************)
LEMMA Least ==
  ASSUME NEW S \in SUBSET Nat, S # {}
  PROVE  \E x \in S : \A y \in S : x <= y
<1>1. PICK x \in S : \A y \in S : ~(<<y, x>> \in OpToRel(<, Nat))
  BY WFMin, NatLessThanWellFounded, Zenon
<1>2. \A y \in S : ~(y < x)
  BY <1>1, Zenon DEF OpToRel
<1>3. \A y \in S : x <= y
  BY <1>2
<1> QED BY <1>3

UpTo(n, count, g) ==
  g \in [0..n -> Nat] /\ g[0] = 0 /\ \A s \in 1..n : g[s] = g[s - 1] + count[s]

LEMMA LastSignal == MAX_SIGNAL \in Nat /\ Signals = 1..MAX_SIGNAL
  BY BoundsAssumption DEF Signals

\* There is a function that has the totals up to each signal, and Total is its last value.
LEMMA RunningTotals ==
  ASSUME NEW count \in [Signals -> Nat]
  PROVE  \E g : UpTo(MAX_SIGNAL, count, g)
<1> DEFINE missing == {n \in 0..MAX_SIGNAL : ~\E g : UpTo(n, count, g)}
<1>0. missing \in SUBSET Nat /\ MAX_SIGNAL \in 0..MAX_SIGNAL
  BY LastSignal
<1>1. SUFFICES ASSUME missing # {} PROVE FALSE
  BY <1>0
<1>2. PICK n \in missing : \A m \in missing : n <= m
  <2> HIDE DEF missing
  <2> QED BY <1>0, <1>1, Least
<1>3. CASE n = 0
  <2> DEFINE g == [i \in 0..0 |-> 0]
  <2>1. UpTo(0, count, g)
    BY DEF UpTo
  <2> HIDE DEF g
  <2> QED BY <1>3, <2>1
<1>4. CASE n # 0
  <2>1. n \in 1..MAX_SIGNAL /\ n - 1 \in 0..MAX_SIGNAL /\ n - 1 \notin missing /\ n \in Nat /\ n - 1 \in Nat
    BY <1>2, <1>4, LastSignal
  <2>2. PICK g : UpTo(n - 1, count, g)
    BY <2>1
  <2> DEFINE h == [i \in 0..n |-> IF i = n THEN g[n - 1] + count[n] ELSE g[i]]
  <2>3. count[n] \in Nat /\ g \in [0..n-1 -> Nat] /\ g[0] = 0 /\ \A s \in 1..n-1 : g[s] = g[s - 1] + count[s]
    BY <2>1, <2>2, LastSignal DEF UpTo
  <2>4. h \in [0..n -> Nat] /\ h[0] = 0
    BY <2>1, <2>3
  <2>5. \A s \in 1..n : h[s] = h[s - 1] + count[s]
    <3>1. TAKE s \in 1..n
    <3>2. CASE s = n
      BY <2>1, <2>3, <3>2
    <3>3. CASE s # n
      <4>1. s \in 1..n-1 /\ s - 1 # n /\ s - 1 \in 0..n
        BY <2>1, <3>3
      <4> QED BY <2>3, <3>3, <4>1
    <3> QED BY <3>2, <3>3
  <2>6. UpTo(n, count, h)
    <3> HIDE DEF h
    <3> QED BY <2>4, <2>5 DEF UpTo
  <2> QED BY <1>2, <2>6
<1> QED BY <1>3, <1>4

LEMMA TotalIs ==
  ASSUME NEW count \in [Signals -> Nat], NEW g, UpTo(MAX_SIGNAL, count, g)
  PROVE  Total(count) = g[MAX_SIGNAL]
<1> DEFINE upTo[s \in 0..MAX_SIGNAL] == IF s = 0 THEN 0 ELSE upTo[s - 1] + count[s]
<1>1. g = [s \in 0..MAX_SIGNAL |-> IF s = 0 THEN 0 ELSE g[s - 1] + count[s]]
  <2>1. g \in [0..MAX_SIGNAL -> Nat] /\ g[0] = 0 /\ \A s \in 1..MAX_SIGNAL : g[s] = g[s - 1] + count[s]
    BY DEF UpTo
  <2>2. \A s \in 0..MAX_SIGNAL : s = 0 \/ s \in 1..MAX_SIGNAL
    BY LastSignal
  <2>3. \A s \in 0..MAX_SIGNAL : g[s] = IF s = 0 THEN 0 ELSE g[s - 1] + count[s]
    BY <2>1, <2>2
  <2> QED BY <2>1, <2>3
<1>2. upTo = [s \in 0..MAX_SIGNAL |-> IF s = 0 THEN 0 ELSE upTo[s - 1] + count[s]]
  BY <1>1, Zenon
<1>3. Total(count) = upTo[MAX_SIGNAL]
  BY Zenon DEF Total
<1> HIDE DEF upTo
<1> DEFINE differ == {s \in 0..MAX_SIGNAL : upTo[s] # g[s]}
<1>4. SUFFICES ASSUME differ # {} PROVE FALSE
  BY <1>3, LastSignal
<1>5. PICK n \in differ : \A m \in differ : n <= m
  <2>1. differ \in SUBSET Nat
    BY LastSignal
  <2> HIDE DEF differ
  <2> QED BY <1>4, <2>1, Least
<1>6. n \in 0..MAX_SIGNAL /\ upTo[n] = (IF n = 0 THEN 0 ELSE upTo[n - 1] + count[n])
      /\ g[n] = (IF n = 0 THEN 0 ELSE g[n - 1] + count[n])
  BY <1>1, <1>2
<1>7. n # 0 => n - 1 \in 0..MAX_SIGNAL /\ n - 1 \notin differ
  BY <1>5, <1>6, LastSignal
<1> QED BY <1>5, <1>6, <1>7

LEMMA TotalOfNone ==
  ASSUME NEW count \in [Signals -> Nat], \A s \in Signals : count[s] = 0
  PROVE  Total(count) = 0
<1> DEFINE g == [s \in 0..MAX_SIGNAL |-> 0]
<1>1. UpTo(MAX_SIGNAL, count, g)
  BY LastSignal DEF UpTo
<1>2. g[MAX_SIGNAL] = 0
  BY LastSignal
<1> HIDE DEF g
<1> QED BY <1>1, <1>2, TotalIs

\* One signal more makes the total one more.
LEMMA TotalOfPlus ==
  ASSUME NEW count \in [Signals -> Nat], NEW s \in Signals
  PROVE  Total(count) \in Nat /\ Total(Plus(count, s)) = Total(count) + 1
<1>1. PICK g : UpTo(MAX_SIGNAL, count, g)
  BY RunningTotals
<1>2. /\ MAX_SIGNAL \in Nat /\ s \in 1..MAX_SIGNAL /\ g \in [0..MAX_SIGNAL -> Nat] /\ g[0] = 0
      /\ \A t \in 1..MAX_SIGNAL : g[t] = g[t - 1] + count[t] /\ count[t] \in Nat
  BY <1>1, LastSignal DEF UpTo
<1> DEFINE h == [t \in 0..MAX_SIGNAL |-> IF t < s THEN g[t] ELSE g[t] + 1]
<1>3. /\ Plus(count, s) \in [Signals -> Nat] /\ Plus(count, s)[s] = count[s] + 1
      /\ \A t \in Signals \ {s} : Plus(count, s)[t] = count[t]
  BY Counting
<1>4. \A t \in 1..MAX_SIGNAL : h[t] = h[t - 1] + Plus(count, s)[t]
  <2>1. TAKE t \in 1..MAX_SIGNAL
  <2>2. t - 1 \in 0..MAX_SIGNAL /\ t \in Signals /\ g[t - 1] \in Nat
    BY <1>2, LastSignal
  <2>3. CASE t < s
    BY <1>2, <1>3, <2>2, <2>3
  <2>4. CASE t = s
    BY <1>2, <1>3, <2>2, <2>4
  <2>5. CASE t > s
    BY <1>2, <1>3, <2>2, <2>5
  <2> QED BY <1>2, <2>3, <2>4, <2>5
<1>5. UpTo(MAX_SIGNAL, Plus(count, s), h) /\ h[MAX_SIGNAL] = g[MAX_SIGNAL] + 1 /\ g[MAX_SIGNAL] \in Nat
  <2>1. h \in [0..MAX_SIGNAL -> Nat] /\ h[0] = 0 /\ h[MAX_SIGNAL] = g[MAX_SIGNAL] + 1 /\ g[MAX_SIGNAL] \in Nat
    BY <1>2
  <2> HIDE DEF h
  <2> QED BY <1>4, <2>1 DEF UpTo
<1> HIDE DEF h
<1> QED BY <1>1, <1>3, <1>5, TotalIs

EventSound == signal_event \in Nat /\ EventMatchesCounts

RestOfTypes ==
  blocked \in BOOLEAN /\ signal_handlers \in [Machines -> SUBSET Signals]

LEMMA EventInit == Init => EventSound /\ RestOfTypes
<1> SUFFICES ASSUME Init PROVE EventSound /\ RestOfTypes
  OBVIOUS
<1>1. signal_count \in [Signals -> Nat] /\ \A s \in Signals : signal_count[s] = 0
  BY DEF Init, None
<1>2. Total(signal_count) = 0
  BY <1>1, TotalOfNone
<1> QED BY <1>2 DEF Init, EventSound, EventMatchesCounts, RestOfTypes

LEMMA EventKept ==
  ASSUME IInv, EventSound, RestOfTypes, [Next]_vars
  PROVE  EventSound' /\ RestOfTypes'
<1> USE DEF IInv, kernelVars, counterVars, machineVars, controlVars, historyVars
<1>0. /\ signal_count \in [Signals -> Nat] /\ signal \in Signals /\ signal_event \in Nat
      /\ Total(signal_count) \in Nat
  BY TotalOfPlus DEF Types, EventSound
<1>1. CASE UNCHANGED <<signal_event, signal_count>> /\ UNCHANGED <<blocked, signal_handlers>>
           /\ (at' = at \/ {at, at'} \cap {"uncount", "clear", "clear_event"} = {})
  BY <1>1 DEF EventSound, EventMatchesCounts, RestOfTypes
<1>2. ASSUME NEW s \in Signals, Handler(s) PROVE EventSound' /\ RestOfTypes'
  <2>1. signal_count' = Plus(signal_count, s) /\ signal_event' = signal_event + 1 /\ at' = at /\ ~blocked
    BY <1>2 DEF Handler
  <2>2. at \notin {"clear", "clear_event"}
    BY <2>1 DEF ClearedSoFar, Clearing
  <2>3. Total(signal_count') = Total(signal_count) + 1
    BY <1>0, <2>1, TotalOfPlus
  <2> QED BY <1>0, <1>2, <2>1, <2>2, <2>3 DEF EventSound, EventMatchesCounts, RestOfTypes, Handler
<1>3. CASE Swap
  <2> DEFINE less == [signal_count EXCEPT ![signal] = expected - 1]
  <2>1. /\ at = "swap" /\ at' = "uncount" /\ signal_count' = less /\ signal_event' = signal_event
        /\ expected \in Nat /\ expected > 0 /\ signal_count[signal] = expected
    BY <1>3 DEF Swap, Consume, Types
  <2>2. less \in [Signals -> Nat] /\ Plus(less, signal) = signal_count
    <3>1. /\ less \in [Signals -> Nat] /\ less[signal] = expected - 1
          /\ \A t \in Signals \ {signal} : less[t] = signal_count[t]
      BY <1>0, <2>1
    <3> HIDE DEF less
    <3>2. Plus(less, signal) \in [Signals -> Nat]
          /\ \A t \in Signals : Plus(less, signal)[t] = signal_count[t]
      BY <1>0, <2>1, <3>1, Counting
    <3> QED BY <1>0, <3>1, <3>2
  <2> HIDE DEF less
  <2>3. Total(signal_count) = Total(less) + 1 /\ Total(less) \in Nat
    BY <1>0, <2>2, TotalOfPlus
  <2>4. signal_event = Total(signal_count)
    BY <2>1 DEF EventSound, EventMatchesCounts
  <2> QED BY <1>0, <1>3, <2>1, <2>3, <2>4 DEF EventSound, EventMatchesCounts, RestOfTypes, Swap, Consume
<1>4. CASE Uncount
  <2>1. at = "uncount" /\ at' = "idle" /\ signal_event' = signal_event - 1 /\ signal_count' = signal_count
    BY <1>4 DEF Uncount, Control
  <2> QED BY <1>0, <1>4, <2>1 DEF EventSound, EventMatchesCounts, RestOfTypes, Uncount, Control
<1>5. ASSUME NEW m \in Machines, Reset(m) PROVE EventSound' /\ RestOfTypes'
  BY <1>5 DEF Reset, EventSound, EventMatchesCounts, RestOfTypes
<1>6. CASE ClearCount
  BY <1>6 DEF ClearCount, EventSound, EventMatchesCounts, RestOfTypes
<1>7. CASE ClearEvent
  <2>1. Total(signal_count) = 0
    BY <1>0, <1>7, TotalOfNone DEF ClearEvent, ClearedSoFar
  <2> QED BY <1>7, <2>1 DEF ClearEvent, EventSound, EventMatchesCounts, RestOfTypes
<1>8. ASSUME NEW m \in Machines, NEW handled \in Registered(m), SignalReg(m, handled)
      PROVE EventSound' /\ RestOfTypes'
  <2>1. handled \subseteq Signals
    BY <1>8 DEF Registered, RestOfTypes
  <2> QED BY <1>8, <2>1 DEF SignalReg, EventSound, EventMatchesCounts, RestOfTypes
<1>9. CASE \/ \E s \in Signals : Send(s)
           \/ \E m \in Machines : Look(m)
           \/ \E m \in Machines, flag \in BOOLEAN : SetFlag(m, flag)
           \/ PassOver \/ Deliver \/ Load \/ Reload \/ UNCHANGED vars
  BY <1>1, <1>9 DEF Send, Look, SetFlag, PassOver, Deliver, Load, Reload, Control, vars
<1> QED BY <1>2, <1>3, <1>4, <1>5, <1>6, <1>7, <1>8, <1>9 DEF Next, Thread

LEMMA EventInvariance == Spec => [](IInv /\ EventSound /\ RestOfTypes)
<1>1. IInv /\ EventSound /\ RestOfTypes /\ [Next]_vars => (IInv /\ EventSound /\ RestOfTypes)'
  BY NextKeeps, EventKept
<1> QED BY <1>1, InitHolds, EventInit, PTL DEF Spec

\* The event counter is the number of signals that are counted, for any number of signals:
\* has_event() misses none, and consumme() cannot take the counter below zero.
THEOREM EventsAreCounted == Spec => []EventMatchesCounts
<1>1. EventSound => EventMatchesCounts
  BY DEF EventSound
<1> QED BY <1>1, EventInvariance, PTL

\* All variables keep their types: the counters never wrap, and a scan never passes the
\* last signal.
THEOREM SignalTypes == Spec => []TypeOK
<1>1. IInv /\ EventSound /\ RestOfTypes => TypeOK
  BY DEF IInv, Types, EventSound, RestOfTypes, TypeOK
<1> QED BY <1>1, EventInvariance, PTL
=============================================================================
