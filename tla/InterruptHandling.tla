-------------------------- MODULE InterruptHandling -------------------------
(***************************************************************************)
(* The counters of interrupt.hpp, one atomic operation at a time, with the *)
(* kernel that delivers signals to their handler and the machines whose    *)
(* loops read them.  The counters are static: all machines share them.     *)
(*                                                                         *)
(* The process has one thread.  The handler runs between any two steps of  *)
(* it, and to its end: its mask blocks every signal.  The kernel keeps one *)
(* waiting signal of each number, as POSIX has it for signals 1..31.       *)
(***************************************************************************)
EXTENDS Naturals

CONSTANTS Machines,
          MAX_SIGNAL,   \* 31 in the code
          MaxSent       \* bound: how often each signal is sent

ASSUME BoundsAssumption == MAX_SIGNAL \in Nat \ {0} /\ MaxSent \in Nat

Signals == 1..MAX_SIGNAL

VARIABLES waiting,         \* signals the kernel has not delivered yet
          blocked,         \* does the process block its signals?
          signal_event, signal_count,
          interrupt_flag, signal_handlers,   \* of each machine
          at, machine, signal, expected,     \* control of the thread
          sent, merged, consumed, cleared    \* history, for each signal

kernelVars == <<waiting, blocked>>
counterVars == <<signal_event, signal_count>>
machineVars == <<interrupt_flag, signal_handlers>>
controlVars == <<at, machine, signal, expected>>
historyVars == <<sent, merged, consumed, cleared>>
vars == <<kernelVars, counterVars, machineVars, controlVars, historyVars>>

None == [s \in Signals |-> 0]
Plus(count, s) == [count EXCEPT ![s] = @ + 1]

Total(count) ==
  LET upTo[s \in 0..MAX_SIGNAL] == IF s = 0 THEN 0 ELSE upTo[s - 1] + count[s]
  IN upTo[MAX_SIGNAL]

TypeOK ==
  /\ waiting \subseteq Signals /\ blocked \in BOOLEAN
  /\ signal_event \in Nat /\ signal_count \in [Signals -> Nat]
  /\ interrupt_flag \in [Machines -> BOOLEAN]
  /\ signal_handlers \in [Machines -> SUBSET Signals]
  /\ at \in {"idle",                    \* between instructions
             "scan",                    \* looking for a signal to deliver
             "load", "swap", "uncount", \* in consumme()
             "clear", "clear_event"}    \* in clear()
  /\ machine \in Machines /\ signal \in Signals /\ expected \in Nat
  /\ {sent, merged, consumed, cleared} \subseteq [Signals -> Nat]

Init ==
  /\ waiting = {} /\ blocked = FALSE
  /\ signal_event = 0 /\ signal_count = None
  /\ interrupt_flag = [m \in Machines |-> TRUE]
  /\ signal_handlers = [m \in Machines |-> {}]
  /\ at = "idle" /\ machine \in Machines /\ signal = 1 /\ expected = 0
  /\ sent = None /\ merged = None /\ consumed = None /\ cleared = None

-----------------------------------------------------------------------------
(***************************************************************************)
(* The kernel and the handler.                                             *)
(***************************************************************************)
Send(s) ==
  /\ sent[s] < MaxSent /\ sent' = Plus(sent, s)
  /\ \/ s \notin waiting /\ waiting' = waiting \cup {s} /\ UNCHANGED merged
     \/ s \in waiting /\ merged' = Plus(merged, s) /\ UNCHANGED waiting
  /\ UNCHANGED <<blocked, counterVars, machineVars, controlVars, consumed, cleared>>

Handler(s) ==
  /\ s \in waiting /\ ~blocked
  /\ waiting' = waiting \ {s}
  /\ signal_event' = signal_event + 1
  /\ signal_count' = Plus(signal_count, s)
  /\ UNCHANGED <<blocked, machineVars, controlVars, historyVars>>

-----------------------------------------------------------------------------
(***************************************************************************)
(* The start of a turn of execute(): if the machine is not masked and      *)
(* has_event(), look for the lowest signal that is counted and handled.    *)
(***************************************************************************)
Control(newAt) ==
  at' = newAt /\ UNCHANGED <<kernelVars, machine, expected, historyVars>>

Look(m) ==
  /\ at = "idle" /\ interrupt_flag[m] /\ signal_event > 0
  /\ at' = "scan" /\ machine' = m /\ signal' = 1
  /\ UNCHANGED <<kernelVars, counterVars, machineVars, expected, historyVars>>

\* Fault: delivers a signal that is handled, counted or not.
HandledIsDue == signal \in signal_handlers[machine]

\* get_count(sig) > 0 && signal_handlers[...] != 0
Due == signal_count[signal] > 0 /\ signal \in signal_handlers[machine]

\* Fault: the scan goes one past the last signal.
PassOverLast ==
  /\ at = "scan" /\ ~Due
  /\ signal' = signal + 1 /\ Control("scan")
  /\ UNCHANGED <<counterVars, machineVars>>

PassOver ==
  /\ at = "scan" /\ ~Due
  /\ \/ signal < MAX_SIGNAL /\ signal' = signal + 1 /\ Control("scan")
     \/ signal = MAX_SIGNAL /\ signal' = signal /\ Control("idle")
  /\ UNCHANGED <<counterVars, machineVars>>

\* Mask, push the return address, jump: the push may throw.
Deliver ==
  /\ at = "scan" /\ Due
  /\ interrupt_flag' = [interrupt_flag EXCEPT ![machine] = FALSE]
  /\ Control("load") \/ Control("idle")
  /\ UNCHANGED <<signal, counterVars, signal_handlers>>

(***************************************************************************)
(* consumme(): a compare-and-exchange loop on the signal's counter, then   *)
(* the event counter.                                                      *)
(***************************************************************************)
Load ==
  /\ at = "load" /\ at' = "swap" /\ expected' = signal_count[signal]
  /\ UNCHANGED <<kernelVars, counterVars, machineVars, machine, signal, historyVars>>

Consume(count) ==
  /\ signal_count' = [signal_count EXCEPT ![signal] = count]
  /\ consumed' = Plus(consumed, signal)
  /\ at' = "uncount"
  /\ UNCHANGED <<kernelVars, signal_event, machineVars, machine, signal, expected,
                 sent, merged, cleared>>

\* Fault: a plain store instead of a compare-and-exchange.
StoreExpected == at = "swap" /\ expected > 0 /\ Consume(expected - 1)

Swap == /\ at = "swap" /\ expected > 0 /\ signal_count[signal] = expected
        /\ Consume(expected - 1)

\* Fault: a failed exchange does not reload the counter.
TryAgain == at = "swap" /\ signal_count[signal] # expected /\ UNCHANGED vars

\* The exchange fails because a handler ran since the counter was loaded.  (It
\* may also fail for no reason; that changes nothing.)
Reload ==
  /\ at = "swap" /\ signal_count[signal] # expected
  /\ expected' = signal_count[signal]
  /\ UNCHANGED <<kernelVars, counterVars, machineVars, at, machine, signal, historyVars>>

Uncount ==
  /\ at = "uncount" /\ signal_event' = signal_event - 1 /\ Control("idle")
  /\ UNCHANGED <<signal, signal_count, machineVars>>

(***************************************************************************)
(* clear(), which reset() and the constructor of every machine call: block *)
(* the signals, zero the counters one by one, and unblock.                 *)
(***************************************************************************)
\* Fault: clears without blocking the signals.
ResetUnblocked(m) ==
  /\ at = "idle" /\ at' = "clear" /\ machine' = m /\ signal' = 1
  /\ UNCHANGED <<kernelVars, counterVars, machineVars, expected, historyVars>>

Reset(m) ==
  /\ at = "idle" /\ at' = "clear" /\ machine' = m /\ signal' = 1
  /\ blocked' = TRUE
  /\ UNCHANGED <<waiting, counterVars, machineVars, expected, historyVars>>

ClearCount ==
  /\ at = "clear"
  /\ signal_count' = [signal_count EXCEPT ![signal] = 0]
  /\ cleared' = [cleared EXCEPT ![signal] = @ + signal_count[signal]]
  /\ \/ signal < MAX_SIGNAL /\ signal' = signal + 1 /\ at' = at
     \/ signal = MAX_SIGNAL /\ signal' = signal /\ at' = "clear_event"
  /\ UNCHANGED <<kernelVars, signal_event, machineVars, machine, expected,
                 sent, merged, consumed>>

ClearEvent ==
  /\ at = "clear_event" /\ at' = "idle"
  /\ signal_event' = 0 /\ blocked' = FALSE
  /\ UNCHANGED <<waiting, signal_count, machineVars, machine, signal, expected, historyVars>>

(***************************************************************************)
(* The instructions that change a machine's interrupt state: STI, IRET and *)
(* CLI, and SIGNAL_REG with an address or with 0.                          *)
(***************************************************************************)
SetFlag(m, flag) ==
  /\ at = "idle" /\ interrupt_flag' = [interrupt_flag EXCEPT ![m] = flag]
  /\ UNCHANGED <<kernelVars, counterVars, signal_handlers, controlVars, historyVars>>

SignalReg(m, handled) ==
  /\ at = "idle" /\ signal_handlers' = [signal_handlers EXCEPT ![m] = handled]
  /\ UNCHANGED <<kernelVars, counterVars, interrupt_flag, controlVars, historyVars>>

Thread ==
  \/ PassOver \/ Deliver \/ Load \/ Swap \/ Reload \/ Uncount \/ ClearCount \/ ClearEvent

Registered(m) ==
  {signal_handlers[m] \cup {s} : s \in Signals} \cup {signal_handlers[m] \ {s} : s \in Signals}

Next ==
  \/ \E s \in Signals : Send(s) \/ Handler(s)
  \/ \E m \in Machines : Look(m) \/ Reset(m)
  \/ \E m \in Machines, flag \in BOOLEAN : SetFlag(m, flag)
  \/ \E m \in Machines : \E handled \in Registered(m) : SignalReg(m, handled)
  \/ Thread

Spec == Init /\ [][Next]_vars

\* The thread goes on when it is inside one of the operations.
FairSpec == Spec /\ WF_vars(Thread)

-----------------------------------------------------------------------------
\* The event counter that has_event() tests is the number of signals counted, also
\* when handlers run inside consumme() and clear(): it can neither hide a pending
\* signal nor go below zero (an unsigned counter would wrap).
EventMatchesCounts ==
  /\ at \notin {"uncount", "clear", "clear_event"} => signal_event = Total(signal_count)
  /\ at = "uncount" => signal_event = Total(signal_count) + 1

\* No signal that reached the handler is lost or served twice: it was consumed,
\* cleared by a reset, or is still counted; and the kernel has the rest.
EverySignalAccounted ==
  \A s \in Signals :
    sent[s] = merged[s] + (IF s \in waiting THEN 1 ELSE 0)
              + signal_count[s] + consumed[s] + cleared[s]

\* A machine that jumps to a handler consumes the signal it jumped for: nobody can
\* have taken it in between.
DeliveredIsThere == at \in {"load", "swap"} => signal_count[signal] > 0

\* consumme() ends, though handlers make its exchange fail.
ConsumeEnds == at = "load" ~> at = "idle"

\* The counters keep the promise of SignalCounts.  Everything pending is discarded
\* at once when clear() has blocked the signals, and a machine closes when it has
\* consumed the signal.
Clearing == at \in {"clear", "clear_event"}

Pending == IF Clearing THEN None ELSE signal_count
Open == [m \in Machines |-> interrupt_flag[m] \/ (at \in {"load", "swap"} /\ machine = m)]

Abstract == INSTANCE SignalCounts WITH pending <- Pending, open <- Open

ServesEachSignalOnce == Abstract!Spec
=============================================================================
