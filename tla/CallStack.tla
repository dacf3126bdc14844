------------------------------ MODULE CallStack ------------------------------
(***************************************************************************)
(* What contexts promise to a program that sends and returns: activations, *)
(* each of a method for a receiver, that end in the reverse order of their *)
(* begin.                                                                  *)
(***************************************************************************)
EXTENDS Sequences

CONSTANT Activations

VARIABLE stack

Init == stack = <<>>

Send(activation) == stack' = <<activation>> \o stack

Return == stack # <<>> /\ stack' = Tail(stack)

Next == (\E activation \in Activations : Send(activation)) \/ Return

Spec == Init /\ [][Next]_stack
=============================================================================
