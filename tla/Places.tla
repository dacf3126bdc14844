------------------------------- MODULE Places --------------------------------
(***************************************************************************)
(* Places of words in a text: the first and the last of some, and what     *)
(* stands at some of them, in the order of the text.                       *)
(***************************************************************************)
EXTENDS Naturals, Sequences

Lowest(S) == CHOOSE i \in S : \A j \in S : i <= j
Highest(S) == CHOOSE i \in S : \A j \in S : j <= i

\* The values of places up to n, in the order of the text
InOrder(values, n) ==
  LET upTo[i \in 0..n] ==
        IF i = 0 THEN <<>>
        ELSE upTo[i - 1] \o (IF i \in DOMAIN values THEN <<values[i]>> ELSE <<>>)
  IN upTo[n]
=============================================================================
