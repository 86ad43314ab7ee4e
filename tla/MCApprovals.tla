----------------------------- MODULE MCApprovals -----------------------------
(* Instances of Approvals for TLC. *)
EXTENDS Approvals

CONSTANTS p, x, w, dir, inner

\* All sessions in one project.
OneProject == [s \in Sessions |-> p]

\* A directory and a file in it.
PathCovers == [k \in Items |-> IF k = inner THEN {inner, dir} ELSE {k}]
\* A chain of a command and a wrapper, a directory, a file in it.
SomeRequests == {<<x, w>>, <<dir>>, <<inner>>}

Symmetry == Permutations(Sessions)
=============================================================================
