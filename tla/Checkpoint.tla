----------------------------- MODULE Checkpoint -----------------------------
(***************************************************************************)
(* checkpoint() and restore() of stack_vm.hpp, on the machine of StackVM.  *)
(* A snapshot holds the registers, the memory, the interrupt flag, the     *)
(* handlers and the run flag.  The instruction counters, the limit flag,   *)
(* and the signals noted but not delivered are not in it; nor is what      *)
(* belongs to the host, the evaluation context and next_code.              *)
(*                                                                         *)
(* What a snapshot is for is to run from it again.  So the module records  *)
(* what each execution that started in the state of the snapshot was given *)
(* besides it, and what came of it.                                        *)
(***************************************************************************)
EXTENDS StackVM

CONSTANT MaxRestores   \* bound: snapshots that are taken or put back

ASSUME RestoreAssumption == MaxRestores \in Nat

VARIABLES snapshot, restores,
          follows,      \* has the machine been as in the snapshot when the host last
                        \* had control, and is what it did since its own doing?
          given,        \* what the execution that is under way was given
          outcomes      \* the executions from the snapshot that have ended

historyVars == <<follows, given, outcomes>>
checkpointVars == <<vars, snapshot, restores, historyVars>>

Saved == [ip |-> ip, sp |-> sp, bp |-> bp, hp |-> hp, memory |-> memory,
          interrupt_flag |-> interrupt_flag, signal_handlers |-> signal_handlers,
          running |-> running]

\* A VMSnapshot nobody took: its vector of words is empty.
NoSnapshot == [memory |-> <<>>]
Usable(s) == DOMAIN s.memory = Addr

Nothing == [limit |-> 0, pending |-> [s \in Signals |-> 0]]

\* used: how much of the bound is used up.
CheckpointInit(MachineInit, used) ==
  /\ MachineInit
  /\ snapshot = NoSnapshot /\ restores = used
  /\ follows = FALSE /\ given = Nothing /\ outcomes = {}

-----------------------------------------------------------------------------
SnapshotTurn == phase = "idle" /\ restores < MaxRestores /\ restores' = restores + 1

TakeCheckpoint ==
  /\ SnapshotTurn
  /\ snapshot' = Saved
  /\ follows' = TRUE /\ given' = Nothing /\ outcomes' = {}
  /\ exception' = "none"
  /\ UNCHANGED <<memory, ip, sp, bp, hp, running, interruptVars, limitVars, hostVars, phase>>

\* Faults: what restore() may forget.
RestoreRegistersOnly(s) ==
  /\ ip' = s.ip /\ sp' = s.sp /\ bp' = s.bp /\ hp' = s.hp
  /\ running' = s.running
  /\ UNCHANGED <<memory, interrupt_flag, signal_handlers>>

RestoreNoHandlers(s) ==
  /\ ip' = s.ip /\ sp' = s.sp /\ bp' = s.bp /\ hp' = s.hp
  /\ memory' = s.memory /\ interrupt_flag' = s.interrupt_flag
  /\ running' = s.running
  /\ UNCHANGED signal_handlers

\* What restore() assigns.
RestoreFrom(s) ==
  /\ ip' = s.ip /\ sp' = s.sp /\ bp' = s.bp /\ hp' = s.hp
  /\ memory' = s.memory
  /\ interrupt_flag' = s.interrupt_flag /\ signal_handlers' = s.signal_handlers
  /\ running' = s.running

Restore ==
  /\ SnapshotTurn
  /\ \/ /\ Usable(snapshot) /\ RestoreFrom(snapshot)
        /\ follows' = TRUE /\ exception' = "none"
     \/ /\ ~Usable(snapshot) /\ exception' = "InvalidSnapshot"
        /\ UNCHANGED <<memory, ip, sp, bp, hp, running, interrupt_flag, signal_handlers,
                       follows>>
  /\ given' = Nothing
  /\ UNCHANGED <<signal_count, limitVars, hostVars, phase, snapshot, outcomes>>

-----------------------------------------------------------------------------
(***************************************************************************)
(* The machine's own steps, and the record of the executions.              *)
(***************************************************************************)
\* Instructions whose effect is not the machine's own: what they get from the
\* system or the compiler may be different the next time, and so may the word that
\* a shift gives by 64 bits or more, which is undefined in C++.
AsksOutside == /\ Fetching
               /\ \/ Op \in {"C_CALL", "EVAL", "COMPILE"}
                  \/ Op \in {"SHL", "SHR", "ASHR"} /\ Depth >= 2 /\ Top(0) >= WORD_BITS

\* What the host can see when an execution has ended.  The limit flag is set when
\* execute() returns; after a throw it is the one of an earlier call.
Outcome == [ip |-> ip, sp |-> sp, bp |-> bp, memory |-> memory, running |-> running,
            interrupt_flag |-> interrupt_flag, signal_handlers |-> signal_handlers,
            signal_count |-> signal_count, exception |-> exception,
            limited |-> exception = "none" /\ hit_instruction_limit]

Run ==
  /\ Execution
  /\ follows' = (follows /\ ~AsksOutside /\ phase' # "idle")
  /\ given' = IF follows' THEN given ELSE Nothing
  /\ outcomes' = IF follows /\ ~AsksOutside /\ phase' = "idle"
                 THEN outcomes \cup {[given |-> given, outcome |-> Outcome']}
                 ELSE outcomes
  /\ UNCHANGED <<snapshot, restores>>

\* Only execute() keeps to the snapshot; it is given a limit, and the signals that wait.
HostCall ==
  /\ Host
  /\ follows' = (follows /\ phase' = "loop")
  /\ given' = IF follows' THEN [limit |-> max_instructions', pending |-> signal_count]
              ELSE Nothing
  /\ UNCHANGED <<snapshot, restores, outcomes>>

SignalArrives ==
  /\ \E s \in Signals : Raise(s)
  /\ follows' = (follows /\ phase = "idle")
  /\ given' = IF follows' THEN given ELSE Nothing
  /\ UNCHANGED <<snapshot, restores, outcomes>>

CheckpointNext == Run \/ HostCall \/ SignalArrives \/ TakeCheckpoint \/ Restore

CheckpointSpec == CheckpointInit(Init, 0) /\ [][CheckpointNext]_checkpointVars

-----------------------------------------------------------------------------
\* Code once loaded changes in one way only: by going back to a snapshot, to what it
\* was then.  The session's next_code does not go back with it.
CodeChangesByRestore ==
  [][\/ \A a \in CodeAddr : memory'[a] # memory[a] => next_code <= a /\ a < next_code'
     \/ memory' = snapshot.memory]_checkpointVars

\* Executions that start from the same snapshot with the same limit and the same
\* signals waiting, and that no later signal interferes with, end alike: whatever ran
\* in between, restore() brings back all that execute() depends on, and what it does
\* not bring back (the counters, the limit flag) has no influence.  Since an execution
\* right after checkpoint() is one of them, taking a snapshot disturbs nothing either.
ReplaysFromSnapshot ==
  \A a, b \in outcomes : a.given = b.given => a.outcome = b.outcome
=============================================================================
