------------------------------ MODULE MCPlanStore ------------------------------
(* Plans, steps, commands and runs are interchangeable. *)
EXTENDS PlanStore, TLC

Symmetric ==
    Permutations(Plans) \cup Permutations(Steps) \cup Permutations(Runs)
=============================================================================
