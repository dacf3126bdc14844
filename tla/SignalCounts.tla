---------------------------- MODULE SignalCounts ----------------------------
(***************************************************************************)
(* What delivering signals to machines promises: a signal that arrives is  *)
(* pending until it is served, or everything pending is discarded; a       *)
(* machine serves one pending signal at a time, while it is open, and is   *)
(* closed by it until it opens again.                                      *)
(***************************************************************************)
EXTENDS Naturals

CONSTANTS Machines, Signals

VARIABLES pending,  \* how many of each signal have arrived and are not served
          open      \* which machines accept signals

Init == pending = [s \in Signals |-> 0] /\ open = [m \in Machines |-> TRUE]

Arrive(s) ==
  pending' = [pending EXCEPT ![s] = @ + 1] /\ UNCHANGED open

Serve(m, s) ==
  /\ open[m] /\ pending[s] > 0
  /\ pending' = [pending EXCEPT ![s] = @ - 1]
  /\ open' = [open EXCEPT ![m] = FALSE]

Mask(m, accepts) ==
  open' = [open EXCEPT ![m] = accepts] /\ UNCHANGED pending

Discard ==
  pending' = [s \in Signals |-> 0] /\ UNCHANGED open

Next ==
  \/ \E s \in Signals : Arrive(s)
  \/ \E m \in Machines, s \in Signals : Serve(m, s)
  \/ \E m \in Machines, accepts \in BOOLEAN : Mask(m, accepts)
  \/ Discard

Spec == Init /\ [][Next]_<<pending, open>>
=============================================================================
