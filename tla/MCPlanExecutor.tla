---------------------------- MODULE MCPlanExecutor ----------------------------
(* Instances of PlanExecutor for TLC. *)
EXTENDS PlanExecutor

CONSTANTS p, q, a, b, c, d, e, j, k

\* Plan p has the diamond's half a, b <- c; plan q the chain d <- e.
StepPlan == [s \in Steps |-> IF s \in {d, e} THEN q ELSE p]
Order == [s \in Steps |-> CASE s = a -> 1 [] s = b -> 2 [] s = c -> 3 [] s = d -> 1 [] OTHER -> 2]
Needs == [s \in Steps |-> CASE s = c -> {a, b} \cap Steps [] s = e -> {d} \cap Steps [] OTHER -> {}]
\* Every plan in one repository, or each in its own.
OneRepo == [x \in Plans |-> j]
TwoRepos == [x \in Plans |-> IF x = p THEN j ELSE k]

\* Runs are interchangeable, as far as safety is concerned.
Symmetry == Permutations(Runs)
=============================================================================
