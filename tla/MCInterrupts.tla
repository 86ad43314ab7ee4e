----------------------------- MODULE MCInterrupts -----------------------------
(* Session s2 runs a plan: its turn asks for an approval, a fork asks with *)
(* the question tool, which alone stamps the plan on the row.  A client may*)
(* be attached to s2 or to another session s1.                             *)
EXTENDS Interrupts

CONSTANTS approval, question, s1, s2

MCQuestions == {approval, question}
MCOwnerOf == [q \in MCQuestions |-> s2]
MCForeground == {approval}
MCOfPlan == {question}
=============================================================================
