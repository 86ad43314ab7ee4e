----------------------------- MODULE MCClientView -----------------------------
(* A small instance of ClientView for TLC. *)
EXTENDS ClientView

(* Applied is what apply_event leaves of a view when it is given the events*)
(* one by one, as drain_agent_events gives them.                           *)
ASSUME AppliedFolds ==
    \A busy \in BOOLEAN, queue, shown \in BoundedSeq(Messages, 2), es \in BoundedSeq(Events, 5) :
        LET v == [Blank EXCEPT !.busy = busy, !.queue = queue, !.shown = shown]
        IN Applied(v, es) = FoldLeft(After, v, es)
=============================================================================
