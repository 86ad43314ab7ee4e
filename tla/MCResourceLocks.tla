--------------------------- MODULE MCResourceLocks ---------------------------
(* The instances of ResourceLocks for TLC.  Keys and tasks are model values    *)
(* that the configurations name; they are not declared symmetric, because a    *)
(* liveness property is checked on them.                                       *)
EXTENDS ResourceLocks
=============================================================================
