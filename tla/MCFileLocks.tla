----------------------------- MODULE MCFileLocks -----------------------------
(* Instances of FileLocks for TLC. *)
EXTENDS FileLocks

CONSTANTS s1, s2, coder, helper, coder2

\* Two sessions that run agents of different names (a project with a custom
\* writer agent), ...
DistinctNames == [s \in Sessions |-> IF s = s1 THEN {coder, helper} ELSE {coder2}]
\* ... or the bundled coder in every session.
SharedNames == [s \in Sessions |-> {coder, helper}]

\* The contents are interchangeable; the runs check safety only.
Symmetry == Permutations(Contents)
=============================================================================
