---------------------------- MODULE MCJobAuthority ----------------------------
(* Instances of JobAuthority for TLC. *)
EXTENDS JobAuthority

CONSTANTS timer, poll, fork, shell
\* A timer (one iteration) and a loop without end.
Limits == [j \in Loops |-> IF j = timer THEN 1 ELSE Unlimited]
=============================================================================
