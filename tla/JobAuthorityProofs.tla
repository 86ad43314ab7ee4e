-------------------------- MODULE JobAuthorityProofs --------------------------
(***************************************************************************)
(* Machine-checked proofs about the asynchronous jobs, for any loops,      *)
(* forks, commands and limits, any capacity of the event channel and any   *)
(* number of cancellations.                                                *)
(*                                                                         *)
(* The next iteration of a registered loop is in one place (OneTick): it   *)
(* is handed from the timer to the channel, from there to the driver, and  *)
(* back to a new timer.  A registered loop must not meet a channel that is *)
(* gone (GoneEmpty), and a job that was never started has left nothing     *)
(* behind (Quiet): no entry, event, turn or report.  The counter is        *)
(* bounded by the jobs that have not reported (CountBounded): a job that   *)
(* reports twice can only make it smaller.                                 *)
(***************************************************************************)
EXTENDS JobAuthority, ContextWindow, FiniteSetTheorems, SequenceTheorems, WellFoundedInduction, TLAPS

Armed(j) == task[j] \in {"waiting", "sending"}

\* How many times the channel q holds the next iteration of j: not at all, once.
NoDue(q, j) == \A i \in DOMAIN q : q[i] # Due(j)
OneDue(q, j) == \E i \in DOMAIN q : \A k \in DOMAIN q : q[k] = Due(j) <=> k = i

\* q holds nothing of j.
Silent(q, j) == \A i \in DOMAIN q : q[i].job # j

OneTick(j) ==
    \/ Armed(j) /\ turn # j /\ NoDue(events, j)
    \/ ~ Armed(j) /\ turn = j /\ NoDue(events, j)
    \/ ~ Armed(j) /\ turn # j /\ OneDue(events, j)

TickOK(j) == j \in registry => OneTick(j)
TicksOK == \A j \in Loops : TickOK(j)

Quiet(j) ==
    task[j] = "new" =>
        j \notin registry /\ turn # j /\ told[j] = 0 /\ Silent(events, j)
QuietOK == \A j \in Jobs : Quiet(j)

GoneEmpty == turn = "gone" => registry = {}

\* The jobs that were started and have not reported.
Unreported == {j \in Jobs : task[j] # "new" /\ told[j] = 0}
CountBounded == IsFiniteSet(Unreported) /\ active <= Cardinality(Unreported)

IInv == TypeOK /\ QuietOK /\ TicksOK /\ GoneEmpty /\ CountBounded

-----------------------------------------------------------------------------
(***************************************************************************)
(* The channel.                                                            *)
(***************************************************************************)
LEMMA EventsApart ==
    /\ \A j \in Loops : Due(j) \in Events
    /\ \A j \in Jobs : Completed(j) \in Events
    /\ \A j, k : Due(j) = Due(k) => j = k
    /\ \A j, k : Due(j) # Completed(k)
    /\ \A j : Due(j).job = j /\ Completed(j).job = j
  BY DEF Events, Due, Completed

\* An event at the end of the channel.
LEMMA AppendDue ==
    ASSUME NEW q \in Seq(Events), NEW e \in Events, NEW j
    PROVE  /\ Append(q, e) \in Seq(Events) /\ Len(Append(q, e)) = Len(q) + 1
           /\ e # Due(j) /\ NoDue(q, j) => NoDue(Append(q, e), j)
           /\ e # Due(j) /\ OneDue(q, j) => OneDue(Append(q, e), j)
           /\ e = Due(j) /\ NoDue(q, j) => OneDue(Append(q, e), j)
           /\ e.job # j /\ Silent(q, j) => Silent(Append(q, e), j)
<1> DEFINE a == Append(q, e)
<1>1. /\ a \in Seq(Events) /\ Len(q) \in Nat /\ Len(a) = Len(q) + 1
      /\ DOMAIN q = 1 .. Len(q) /\ DOMAIN a = 1 .. (Len(q) + 1)
      /\ \A i \in 1 .. Len(q) : a[i] = q[i]
      /\ a[Len(q) + 1] = e
  OBVIOUS
<1> HIDE DEF a
<1>2. ASSUME e # Due(j), NoDue(q, j) PROVE NoDue(a, j)
  BY <1>1, <1>2 DEF NoDue
<1>3. ASSUME e # Due(j), OneDue(q, j) PROVE OneDue(a, j)
  <2>1. PICK i \in DOMAIN q : \A k \in DOMAIN q : q[k] = Due(j) <=> k = i
    BY <1>3 DEF OneDue
  <2>2. ASSUME NEW k \in DOMAIN a PROVE a[k] = Due(j) <=> k = i
    <3>1. CASE k \in DOMAIN q
      BY <1>1, <2>1, <3>1
    <3>2. CASE k = Len(q) + 1
      BY <1>1, <1>3, <2>1, <3>2
    <3> QED BY <1>1, <3>1, <3>2
  <2>3. i \in DOMAIN a
    BY <1>1, <2>1
  <2> QED BY <2>2, <2>3 DEF OneDue
<1>4. ASSUME e = Due(j), NoDue(q, j) PROVE OneDue(a, j)
  <2>1. \A k \in DOMAIN a : a[k] = Due(j) <=> k = Len(q) + 1
    BY <1>1, <1>4 DEF NoDue
  <2>2. Len(q) + 1 \in DOMAIN a
    BY <1>1
  <2> QED BY <2>1, <2>2 DEF OneDue
<1>5. ASSUME e.job # j, Silent(q, j) PROVE Silent(a, j)
  BY <1>1, <1>5 DEF Silent
<1> QED BY <1>1, <1>2, <1>3, <1>4, <1>5 DEF a

\* The event at its head is taken.
LEMMA TailDue ==
    ASSUME NEW q \in Seq(Events), q # <<>>, NEW j
    PROVE  /\ Head(q) \in Events /\ Tail(q) \in Seq(Events) /\ Len(Tail(q)) = Len(q) - 1
           /\ NoDue(q, j) => NoDue(Tail(q), j) /\ Head(q) # Due(j)
           /\ Head(q) # Due(j) /\ OneDue(q, j) => OneDue(Tail(q), j)
           /\ Head(q) = Due(j) /\ OneDue(q, j) => NoDue(Tail(q), j)
           /\ Silent(q, j) => Silent(Tail(q), j) /\ Head(q).job # j
<1> DEFINE t == Tail(q)
<1>1. /\ Head(q) \in Events /\ t \in Seq(Events) /\ Len(q) \in Nat \ {0} /\ Len(t) = Len(q) - 1
      /\ DOMAIN q = 1 .. Len(q) /\ DOMAIN t = 1 .. (Len(q) - 1)
      /\ \A i \in 1 .. (Len(q) - 1) : t[i] = q[i + 1]
      /\ Head(q) = q[1]
  BY HeadTailProperties, LenProperties, EmptySeq
<1> HIDE DEF t
<1>2. ASSUME NEW i \in DOMAIN t PROVE i + 1 \in DOMAIN q /\ t[i] = q[i + 1]
  BY <1>1, <1>2
<1>3. ASSUME NoDue(q, j) PROVE NoDue(t, j) /\ Head(q) # Due(j)
  <2>1. 1 \in DOMAIN q
    BY <1>1
  <2> QED BY <1>1, <1>2, <1>3, <2>1 DEF NoDue
<1>4. ASSUME OneDue(q, j)
      PROVE  /\ Head(q) # Due(j) => OneDue(t, j)
             /\ Head(q) = Due(j) => NoDue(t, j)
  <2>1. PICK i \in DOMAIN q : \A k \in DOMAIN q : q[k] = Due(j) <=> k = i
    BY <1>4 DEF OneDue
  <2>2. \A k \in DOMAIN t : t[k] = Due(j) <=> k + 1 = i
    BY <1>2, <2>1
  <2>3. Head(q) = Due(j) <=> i = 1
    <3>1. 1 \in DOMAIN q
      BY <1>1
    <3> QED BY <1>1, <2>1, <3>1
  <2>4. ASSUME i # 1 PROVE OneDue(t, j)
    <3>1. i - 1 \in DOMAIN t
      BY <1>1, <2>1, <2>4
    <3>2. \A k \in DOMAIN t : t[k] = Due(j) <=> k = i - 1
      BY <1>1, <2>1, <2>2
    <3> QED BY <3>1, <3>2 DEF OneDue
  <2>5. ASSUME i = 1 PROVE NoDue(t, j)
    BY <1>1, <2>2, <2>5 DEF NoDue
  <2> QED BY <2>3, <2>4, <2>5
<1>5. ASSUME Silent(q, j) PROVE Silent(t, j) /\ Head(q).job # j
  <2>1. 1 \in DOMAIN q
    BY <1>1
  <2> QED BY <1>1, <1>2, <1>5, <2>1 DEF Silent
<1> QED BY <1>1, <1>3, <1>4, <1>5 DEF t

\* An event is of a job, and what is due is an iteration of a loop.
LEMMA HeadFacts ==
    ASSUME TypeOK, events # <<>>
    PROVE  /\ Head(events) \in Events /\ Head(events).job \in Jobs
           /\ Head(events).kind = "due" =>
                  Head(events).job \in Loops /\ Head(events) = Due(Head(events).job)
<1>1. Head(events) \in Events
  BY TailDue DEF TypeOK
<1> QED BY <1>1 DEF Events, Due, Completed, Jobs

\* A completion that is tried: it reaches the end of the channel, or is lost.
LEMMA TryFacts ==
    ASSUME TypeOK, NEW j \in Jobs, TryComplete(j)
    PROVE  /\ events' \in Seq(Events) /\ Len(events') <= EventCap
           /\ lost' \subseteq Jobs
           /\ \A k : NoDue(events, k) => NoDue(events', k)
           /\ \A k : OneDue(events, k) => OneDue(events', k)
           /\ \A k : k # j /\ Silent(events, k) => Silent(events', k)
<1>a. events \in Seq(Events) /\ Len(events) <= EventCap /\ lost \subseteq Jobs /\ Len(events) \in Nat
  BY LenProperties DEF TypeOK
<1>b. Completed(j) \in Events /\ Completed(j).job = j /\ \A k : Completed(j) # Due(k)
  BY EventsApart
<1>1. CASE Room
  <2>1. events' = Append(events, Completed(j)) /\ lost' = lost
    BY <1>1 DEF TryComplete
  <2>2. Len(events) < EventCap
    BY <1>1 DEF Room
  <2> QED BY <1>a, <1>b, <2>1, <2>2, AppendDue, BoundsAssumption
<1>2. CASE ~ Room
  BY <1>a, <1>2 DEF TryComplete
<1> QED BY <1>1, <1>2

\* What a cancellation does to the registry, the timers and the channel.
LEMMA CancelFacts ==
    ASSUME TypeOK, NEW j \in Jobs, Cancel(j)
    PROVE  /\ registry' \subseteq registry /\ iteration' = iteration
           /\ task' \in [Jobs -> {"new", "waiting", "sending", "done"}]
           /\ \A k \in Jobs : k \in registry' => task'[k] = task[k]
           /\ \A k \in Jobs : task'[k] = "new" => task[k] = "new"
           /\ events' \in Seq(Events) /\ Len(events') <= EventCap
           /\ lost' \subseteq Jobs
           /\ \A k : NoDue(events, k) => NoDue(events', k)
           /\ \A k : OneDue(events, k) => OneDue(events', k)
           /\ \A k \in Jobs : /\ task'[k] = "new"
                              /\ Silent(events, k)
                              => Silent(events', k)
           /\ j \notin registry => task' = task
           /\ \A k \in Jobs \ {j} : task'[k] = task[k]
           /\ j \in registry => task'[j] = "done"
<1>a. /\ task \in [Jobs -> {"new", "waiting", "sending", "done"}]
      /\ events \in Seq(Events) /\ Len(events) <= EventCap /\ lost \subseteq Jobs
  BY DEF TypeOK
<1>1. CASE j \in registry
  <2>1. /\ registry' = registry \ {j} /\ task' = [task EXCEPT ![j] = "done"]
        /\ TryComplete(j) /\ iteration' = iteration
    BY <1>1 DEF Cancel
  <2>2. /\ events' \in Seq(Events) /\ Len(events') <= EventCap
        /\ lost' \subseteq Jobs
        /\ \A k : NoDue(events, k) => NoDue(events', k)
        /\ \A k : OneDue(events, k) => OneDue(events', k)
        /\ \A k : k # j /\ Silent(events, k) => Silent(events', k)
    BY <2>1, TryFacts
  <2>3. /\ task' \in [Jobs -> {"new", "waiting", "sending", "done"}]
        /\ \A k \in Jobs \ {j} : task'[k] = task[k]
        /\ task'[j] = "done"
    BY <1>a, <2>1
  <2> QED BY <1>1, <2>1, <2>2, <2>3
<1>2. CASE j \notin registry
  <2>1. UNCHANGED authority
    BY <1>2 DEF Cancel
  <2> QED BY <1>a, <1>2, <2>1 DEF authority
<1> QED BY <1>1, <1>2

\* What the end of an iteration does to them: the loop finishes, or its next tick
\* is armed.
LEMMA FinishedFacts ==
    ASSUME TypeOK, NEW j \in Loops, IterationFinished(j)
    PROVE  /\ registry' \subseteq registry
           /\ iteration' \in [Loops -> Nat]
           /\ task' \in [Jobs -> {"new", "waiting", "sending", "done"}]
           /\ j \in registry' => task'[j] = "waiting"
           /\ \A k \in Jobs \ {j} : task'[k] = task[k]
           /\ task'[j] = task[j] \/ task'[j] = "waiting"
           /\ events' \in Seq(Events) /\ Len(events') <= EventCap
           /\ lost' \subseteq Jobs
           /\ \A k : NoDue(events, k) => NoDue(events', k)
           /\ \A k : OneDue(events, k) => OneDue(events', k)
           /\ \A k : k # j /\ Silent(events, k) => Silent(events', k)
<1>a. /\ task \in [Jobs -> {"new", "waiting", "sending", "done"}]
      /\ events \in Seq(Events) /\ Len(events) <= EventCap /\ lost \subseteq Jobs
      /\ iteration \in [Loops -> Nat] /\ j \in Jobs
  BY DEF TypeOK, Jobs
<1>1. CASE j \in registry
  <2> DEFINE n == IF Limit[j] = Unlimited THEN 0 ELSE iteration[j] + 1
  <2>1. n \in Nat
    BY <1>a
  <2>2. /\ iteration' = [iteration EXCEPT ![j] = n]
        /\ \/ registry' = registry \ {j} /\ TryComplete(j) /\ task' = task
           \/ task' = [task EXCEPT ![j] = "waiting"] /\ UNCHANGED <<registry, events, lost>>
    BY <1>1 DEF IterationFinished
  <2> HIDE DEF n
  <2>3. iteration' \in [Loops -> Nat]
    BY <1>a, <2>1, <2>2
  <2>4. CASE registry' = registry \ {j} /\ TryComplete(j) /\ task' = task
    BY <1>a, <1>1, <2>3, <2>4, TryFacts
  <2>5. CASE task' = [task EXCEPT ![j] = "waiting"] /\ UNCHANGED <<registry, events, lost>>
    <3>1. /\ task' \in [Jobs -> {"new", "waiting", "sending", "done"}]
          /\ task'[j] = "waiting" /\ \A k \in Jobs \ {j} : task'[k] = task[k]
      BY <1>a, <2>5
    <3> QED BY <1>a, <1>1, <2>3, <2>5, <3>1
  <2> QED BY <2>2, <2>4, <2>5
<1>2. CASE j \notin registry
  <2>1. UNCHANGED authority
    BY <1>2 DEF IterationFinished
  <2> QED BY <1>a, <1>2, <2>1 DEF authority
<1> QED BY <1>1, <1>2

-----------------------------------------------------------------------------
(***************************************************************************)
(* The types.                                                              *)
(***************************************************************************)
LEMMA TypeStep ==
    ASSUME TypeOK, [Next]_vars
    PROVE  TypeOK'
<1>a. /\ Loops \subseteq Jobs
      /\ events \in Seq(Events) /\ Len(events) <= EventCap /\ Len(events) \in Nat
      /\ task \in [Jobs -> {"new", "waiting", "sending", "done"}]
      /\ EventCap \in Nat /\ 0 <= EventCap
      /\ MaxCancels \in Nat
  BY LenProperties, BoundsAssumption DEF TypeOK, Jobs
<1>b. <<>> \in Seq(Events) /\ Len(<<>>) = 0 /\ <<>> \in Seq(Jobs)
  BY EmptySeq
<1>c. ASSUME events # <<>>
      PROVE  /\ Head(events) \in Events /\ Head(events).job \in Jobs
             /\ Head(events).kind = "due" => Head(events).job \in Loops
             /\ Tail(events) \in Seq(Events) /\ Len(Tail(events)) <= EventCap
  <2>1. Tail(events) \in Seq(Events) /\ Len(Tail(events)) = Len(events) - 1
    BY <1>a, <1>c, TailDue
  <2> QED BY <1>a, <1>c, <2>1, HeadFacts
<1> USE DEF TypeOK, authority
<1>1. CASE Submit \/ Shutdown \/ WorkerExits \/ TakeMessage
  BY <1>1 DEF Submit, Shutdown, WorkerExits, TakeMessage
<1>2. CASE TakeDue
  BY <1>c, <1>2 DEF TakeDue
<1>3. CASE TakeCompleted
  <2>1. /\ events # <<>> /\ events' = Tail(events) /\ turn' = "result"
        /\ told' = [told EXCEPT ![Head(events).job] = told[Head(events).job] + 1]
        /\ active' = IF active = 0 THEN 0 ELSE active - 1
        /\ UNCHANGED <<registry, iteration, task, lost, cmds, cancels, worker>>
    BY <1>3 DEF TakeCompleted
  <2>2. told' \in [Jobs -> Nat]
    BY <1>c, <2>1
  <2>3. active' \in Nat
    BY <2>1
  <2> QED BY <1>c, <2>1, <2>2, <2>3
<1>4. CASE TakeCommand
  <2>1. Head(cmds) \in Jobs /\ Tail(cmds) \in Seq(Jobs)
    BY <1>4, HeadTailProperties DEF TakeCommand
  <2>2. /\ cmds' = Tail(cmds) /\ Cancel(Head(cmds))
        /\ UNCHANGED <<cancels, turn, worker, active, told>>
    BY <1>4 DEF TakeCommand
  <2> QED BY <2>1, <2>2, CancelFacts
<1>5. CASE EndTurn
  <2>1. turn' = "idle" /\ UNCHANGED <<cmds, cancels, worker, active, told>>
    BY <1>5 DEF EndTurn
  <2>2. CASE turn \in Loops
    <3>1. IterationFinished(turn)
      BY <1>5, <2>2 DEF EndTurn
    <3> QED BY <2>1, <2>2, <3>1, FinishedFacts
  <2>3. CASE turn \notin Loops
    BY <1>5, <2>1, <2>3 DEF EndTurn
  <2> QED BY <2>2, <2>3
<1>6. CASE TurnFails \/ InputCloses
  BY <1>a, <1>b, <1>6 DEF TurnFails, InputCloses, DriverEnds
<1>7. ASSUME NEW j \in Jobs, CancelJob(j) PROVE TypeOK'
  <2>1. Append(cmds, j) \in Seq(Jobs)
    OBVIOUS
  <2>2. cancels' \in 0 .. MaxCancels
    BY <1>a, <1>7 DEF CancelJob
  <2> QED BY <1>7, <2>1, <2>2 DEF CancelJob
<1>8. ASSUME NEW j \in Jobs, Start(j) PROVE TypeOK'
  BY <1>8 DEF Start
<1>9. ASSUME NEW j \in Jobs, ModelCancels(j) PROVE TypeOK'
  BY <1>9, CancelFacts DEF ModelCancels
<1>10. ASSUME NEW j \in Jobs, Fires(j) PROVE TypeOK'
  BY <1>10 DEF Fires
<1>11. ASSUME NEW j \in Jobs, Send(j) PROVE TypeOK'
  <2> DEFINE e == IF j \in Loops THEN Due(j) ELSE Completed(j)
  <2>1. e \in Events
    BY EventsApart
  <2>2. /\ task' = [task EXCEPT ![j] = "done"]
        /\ events' = IF turn = "gone" THEN events ELSE Append(events, e)
        /\ turn = "gone" \/ Len(events) < EventCap
        /\ UNCHANGED <<registry, iteration, lost, cmds, cancels, turn, worker, active, told>>
    BY <1>11 DEF Send, Room
  <2> HIDE DEF e
  <2>3. Append(events, e) \in Seq(Events) /\ Len(Append(events, e)) = Len(events) + 1
    BY <1>a, <2>1, AppendDue
  <2>4. events' \in Seq(Events) /\ Len(events') <= EventCap
    BY <1>a, <2>2, <2>3
  <2> QED BY <2>2, <2>4
<1>12. CASE UNCHANGED vars
  BY <1>12 DEF vars
<1> QED BY <1>1, <1>2, <1>3, <1>4, <1>5, <1>6, <1>7, <1>8, <1>9, <1>10, <1>11, <1>12
       DEF Next, TakeEvent

-----------------------------------------------------------------------------
(***************************************************************************)
(* Who is registered, and what a job that never started has left.          *)
(***************************************************************************)
LEMMA GoneStep ==
    ASSUME TypeOK, GoneEmpty, [Next]_vars
    PROVE  GoneEmpty'
<1> USE DEF GoneEmpty, InTurn
<1>1. CASE Submit \/ Shutdown \/ WorkerExits \/ TakeMessage \/ TakeCompleted
  BY <1>1 DEF Submit, Shutdown, WorkerExits, TakeMessage, TakeCompleted, authority
<1>2. CASE TakeDue
  <2>1. turn' \in Loops
    BY <1>2, HeadFacts DEF TakeDue
  <2> QED BY <2>1, JobsAssumption DEF Jobs
<1>3. CASE TakeCommand
  BY <1>3 DEF TakeCommand
<1>4. CASE EndTurn
  BY <1>4 DEF EndTurn
<1>5. CASE TurnFails \/ InputCloses
  BY <1>5 DEF TurnFails, InputCloses, DriverEnds
<1>6. ASSUME NEW j \in Jobs, CancelJob(j) \/ Start(j) \/ ModelCancels(j) \/ Fires(j) \/ Send(j)
      PROVE  GoneEmpty'
  BY <1>6 DEF CancelJob, Start, ModelCancels, Fires, Send, authority
<1>7. CASE UNCHANGED vars
  BY <1>7 DEF vars, authority
<1> QED BY <1>1, <1>2, <1>3, <1>4, <1>5, <1>6, <1>7 DEF Next, TakeEvent

\* Nothing was done for j.
LEMMA QuietKept ==
    ASSUME NEW j \in Jobs, Quiet(j),
           task'[j] = "new" =>
               /\ task[j] = "new" /\ told'[j] = told[j]
               /\ turn' = j => turn = j
               /\ j \in registry' => j \in registry
               /\ Silent(events, j) => Silent(events', j)
    PROVE  Quiet(j)'
  BY DEF Quiet

LEMMA QuietStep ==
    ASSUME TypeOK, QuietOK, [Next]_vars, NEW j \in Jobs
    PROVE  Quiet(j)'
<1>a. /\ Quiet(j) /\ Loops \subseteq Jobs /\ registry \subseteq Jobs
      /\ task \in [Jobs -> {"new", "waiting", "sending", "done"}]
      /\ told \in [Jobs -> Nat] /\ events \in Seq(Events)
      /\ j \notin {"idle", "user", "result", "gone"}
  BY JobsAssumption DEF QuietOK, TypeOK, Jobs
<1>b. ASSUME events # <<>>
      PROVE  /\ Silent(events, j) => Silent(Tail(events), j)
             /\ Silent(events, j) => Head(events).job # j
  BY <1>a, <1>b, TailDue
<1> USE DEF authority
<1>1. CASE Submit \/ Shutdown \/ WorkerExits \/ TakeMessage
  BY <1>a, <1>1, QuietKept DEF Submit, Shutdown, WorkerExits, TakeMessage
<1>2. CASE TakeDue
  <2>1. /\ events # <<>> /\ turn' = Head(events).job /\ events' = Tail(events)
        /\ registry' = registry /\ task' = task /\ told' = told
    BY <1>2 DEF TakeDue
  <2> QED BY <1>a, <1>b, <2>1 DEF Quiet
<1>3. CASE TakeCompleted
  <2>1. /\ events # <<>> /\ turn' = "result" /\ events' = Tail(events)
        /\ registry' = registry /\ task' = task
        /\ told' = [told EXCEPT ![Head(events).job] = told[Head(events).job] + 1]
    BY <1>3 DEF TakeCompleted
  <2>2. Head(events).job # j => told'[j] = told[j]
    BY <1>a, <2>1
  <2> QED BY <1>a, <1>b, <2>1, <2>2 DEF Quiet
<1>c. ASSUME NEW k \in Jobs, Cancel(k), turn' = turn, told' = told PROVE Quiet(j)'
  <2>1. /\ registry' \subseteq registry
        /\ task'[j] = "new" => task[j] = "new"
        /\ task'[j] = "new" /\ Silent(events, j) => Silent(events', j)
    BY <1>c, CancelFacts
  <2> QED BY <1>a, <1>c, <2>1, QuietKept
<1>4. CASE TakeCommand
  <2>1. Head(cmds) \in Jobs
    BY <1>4, HeadTailProperties DEF TakeCommand, TypeOK
  <2> QED BY <1>c, <1>4, <2>1 DEF TakeCommand
<1>5. CASE EndTurn
  <2>1. turn' = "idle" /\ told' = told
    BY <1>5 DEF EndTurn
  <2>2. CASE turn \in Loops
    <3>1. IterationFinished(turn)
      BY <1>5, <2>2 DEF EndTurn
    <3>2. /\ registry' \subseteq registry
          /\ \A k \in Jobs \ {turn} : task'[k] = task[k]
          /\ task'[turn] = task[turn] \/ task'[turn] = "waiting"
          /\ \A k : k # turn /\ Silent(events, k) => Silent(events', k)
      BY <2>2, <3>1, FinishedFacts
    <3>3. CASE turn = j
      BY <1>a, <3>2, <3>3 DEF Quiet
    <3>4. CASE turn # j
      BY <1>a, <2>1, <3>2, <3>4, QuietKept
    <3> QED BY <3>3, <3>4
  <2>3. CASE turn \notin Loops
    <3>1. UNCHANGED authority
      BY <1>5, <2>3 DEF EndTurn
    <3> QED BY <1>a, <2>1, <3>1, QuietKept
  <2> QED BY <2>2, <2>3
<1>6. CASE TurnFails \/ InputCloses
  <2>1. turn' = "gone" /\ registry' = {} /\ events' = <<>> /\ task' = task /\ told' = told
    BY <1>6 DEF TurnFails, InputCloses, DriverEnds
  <2>2. Silent(<<>>, j)
    BY DEF Silent
  <2> QED BY <1>a, <2>1, <2>2 DEF Quiet
<1>7. ASSUME NEW k \in Jobs, CancelJob(k) PROVE Quiet(j)'
  BY <1>a, <1>7, QuietKept DEF CancelJob
<1>8. ASSUME NEW k \in Jobs, Start(k) PROVE Quiet(j)'
  <2>1. /\ registry' = registry \cup {k} /\ task' = [task EXCEPT ![k] = "waiting"]
        /\ events' = events /\ turn' = turn /\ told' = told
    BY <1>8 DEF Start
  <2> QED BY <1>a, <2>1 DEF Quiet
<1>9. ASSUME NEW k \in Jobs, ModelCancels(k) PROVE Quiet(j)'
  BY <1>c, <1>9 DEF ModelCancels
<1>10. ASSUME NEW k \in Jobs, Fires(k) PROVE Quiet(j)'
  <2>1. /\ task' = [task EXCEPT ![k] = "sending"]
        /\ registry' = registry /\ events' = events /\ turn' = turn /\ told' = told
    BY <1>10 DEF Fires
  <2> QED BY <1>a, <2>1 DEF Quiet
<1>11. ASSUME NEW k \in Jobs, Send(k) PROVE Quiet(j)'
  <2> DEFINE e == IF k \in Loops THEN Due(k) ELSE Completed(k)
  <2>1. /\ task[k] = "sending" /\ task' = [task EXCEPT ![k] = "done"]
        /\ events' = IF turn = "gone" THEN events ELSE Append(events, e)
        /\ registry' = registry /\ turn' = turn /\ told' = told
    BY <1>11 DEF Send
  <2>2. e \in Events /\ e.job = k
    BY EventsApart
  <2> HIDE DEF e
  <2>3. e.job # j /\ Silent(events, j) => Silent(Append(events, e), j)
    BY <1>a, <2>2, AppendDue
  <2>4. CASE k = j
    BY <1>a, <2>1, <2>4 DEF Quiet
  <2>5. CASE k # j
    BY <1>a, <2>1, <2>2, <2>3, <2>5, QuietKept
  <2> QED BY <2>4, <2>5
<1>12. CASE UNCHANGED vars
  BY <1>a, <1>12, QuietKept DEF vars
<1> QED BY <1>1, <1>2, <1>3, <1>4, <1>5, <1>6, <1>7, <1>8, <1>9, <1>10, <1>11, <1>12
       DEF Next, TakeEvent

-----------------------------------------------------------------------------
(***************************************************************************)
(* Where the next iteration of a loop is.                                  *)
(***************************************************************************)

\* A loop that was never started has no iteration in the channel.
LEMMA QuietLoop ==
    ASSUME NEW j \in Loops, QuietOK, task[j] = "new"
    PROVE  j \notin registry /\ turn # j /\ NoDue(events, j)
<1>1. j \notin registry /\ turn # j /\ Silent(events, j)
  BY DEF QuietOK, Quiet, Jobs
<1>2. ASSUME Silent(events, j) PROVE NoDue(events, j)
  BY <1>2 DEF Silent, NoDue, Due
<1> QED BY <1>1, <1>2

\* Nothing that the tick of j depends on has changed.
LEMMA TickKept ==
    ASSUME NEW j \in Loops, TickOK(j),
           j \in registry' => j \in registry, task'[j] = task[j],
           turn' = j <=> turn = j,
           NoDue(events, j) => NoDue(events', j), OneDue(events, j) => OneDue(events', j)
    PROVE  TickOK(j)'
  BY DEF TickOK, OneTick, Armed

LEMMA TickStep ==
    ASSUME TypeOK, QuietOK, TicksOK, GoneEmpty, [Next]_vars, NEW j \in Loops
    PROVE  TickOK(j)'
<1>a. /\ TickOK(j) /\ j \in Jobs /\ registry \subseteq Jobs
      /\ task \in [Jobs -> {"new", "waiting", "sending", "done"}]
      /\ events \in Seq(Events)
      /\ j \notin {"idle", "user", "result", "gone"}
  BY JobsAssumption DEF TicksOK, TypeOK, Jobs
<1> USE DEF authority
<1>1. CASE Submit \/ Shutdown \/ WorkerExits \/ TakeMessage
  BY <1>a, <1>1, TickKept DEF Submit, Shutdown, WorkerExits, TakeMessage
<1>2. CASE TakeDue
  <2>1. /\ turn = "idle" /\ events # <<>> /\ Head(events).kind = "due"
        /\ turn' = Head(events).job /\ events' = Tail(events)
        /\ registry' = registry /\ task' = task
    BY <1>2 DEF TakeDue
  <2>2. Head(events) = Due(Head(events).job)
    BY <2>1, HeadFacts
  <2>3. CASE Head(events) = Due(j)
    <3>1. turn' = j /\ turn # j
      BY <1>a, <2>1, <2>3 DEF Due
    <3>2. ~ NoDue(events, j)
      BY <1>a, <2>1, <2>3, TailDue
    <3>3. OneDue(events, j) => NoDue(events', j)
      BY <1>a, <2>1, <2>3, TailDue
    <3> QED BY <1>a, <2>1, <3>1, <3>2, <3>3 DEF TickOK, OneTick, Armed
  <2>4. CASE Head(events) # Due(j)
    <3>1. turn' # j /\ turn # j
      BY <1>a, <2>1, <2>2, <2>4
    <3>2. /\ NoDue(events, j) => NoDue(events', j)
          /\ OneDue(events, j) => OneDue(events', j)
      BY <1>a, <2>1, <2>4, TailDue
    <3> QED BY <1>a, <2>1, <3>1, <3>2, TickKept
  <2> QED BY <2>3, <2>4
<1>3. CASE TakeCompleted
  <2>1. /\ turn = "idle" /\ events # <<>> /\ Head(events).kind = "completed"
        /\ turn' = "result" /\ events' = Tail(events)
        /\ registry' = registry /\ task' = task
    BY <1>3 DEF TakeCompleted
  <2>2. Head(events) # Due(j)
    BY <2>1 DEF Due
  <2>3. /\ NoDue(events, j) => NoDue(events', j)
        /\ OneDue(events, j) => OneDue(events', j)
    BY <1>a, <2>1, <2>2, TailDue
  <2> QED BY <1>a, <2>1, <2>3, TickKept
<1>b. ASSUME NEW k \in Jobs, Cancel(k), turn' = turn PROVE TickOK(j)'
  <2>1. /\ registry' \subseteq registry
        /\ j \in registry' => task'[j] = task[j]
        /\ NoDue(events, j) => NoDue(events', j)
        /\ OneDue(events, j) => OneDue(events', j)
    BY <1>a, <1>b, CancelFacts
  <2> QED BY <1>a, <1>b, <2>1 DEF TickOK, OneTick, Armed
<1>4. CASE TakeCommand
  <2>1. Head(cmds) \in Jobs
    BY <1>4, HeadTailProperties DEF TakeCommand, TypeOK
  <2> QED BY <1>b, <1>4, <2>1 DEF TakeCommand
<1>5. CASE EndTurn
  <2>1. turn' = "idle"
    BY <1>5 DEF EndTurn
  <2>2. CASE turn \in Loops
    <3>1. /\ registry' \subseteq registry
          /\ turn \in registry' => task'[turn] = "waiting"
          /\ \A k \in Jobs \ {turn} : task'[k] = task[k]
          /\ task'[turn] = task[turn] \/ task'[turn] = "waiting"
          /\ NoDue(events, j) => NoDue(events', j)
          /\ OneDue(events, j) => OneDue(events', j)
      BY <1>5, <2>2, FinishedFacts DEF EndTurn
    <3>2. CASE turn = j
      <4>1. j \in registry => NoDue(events, j)
        BY <1>a, <3>2 DEF TickOK, OneTick
      <4> QED BY <1>a, <2>1, <3>1, <3>2, <4>1 DEF TickOK, OneTick, Armed
    <3>3. CASE turn # j
      BY <1>a, <2>1, <3>1, <3>3, TickKept
    <3> QED BY <3>2, <3>3
  <2>3. CASE turn \notin Loops
    <3>1. UNCHANGED authority
      BY <1>5, <2>3 DEF EndTurn
    <3> QED BY <1>a, <2>1, <2>3, <3>1, TickKept
  <2> QED BY <2>2, <2>3
<1>6. CASE TurnFails \/ InputCloses
  <2>1. /\ turn' = "gone" /\ registry' = {} /\ events' = <<>> /\ task' = task
    BY <1>6 DEF TurnFails, InputCloses, DriverEnds
  <2> QED BY <2>1 DEF TickOK
<1>7. ASSUME NEW k \in Jobs, CancelJob(k) PROVE TickOK(j)'
  BY <1>a, <1>7, TickKept DEF CancelJob
<1>8. ASSUME NEW k \in Jobs, Start(k) PROVE TickOK(j)'
  <2>1. /\ task[k] = "new" /\ registry' = registry \cup {k}
        /\ task' = [task EXCEPT ![k] = "waiting"]
        /\ events' = events /\ turn' = turn
    BY <1>8 DEF Start
  <2>2. CASE k = j
    <3>1. turn # j /\ NoDue(events, j)
      BY <2>1, <2>2, QuietLoop
    <3> QED BY <1>a, <2>1, <2>2, <3>1 DEF TickOK, OneTick, Armed
  <2>3. CASE k # j
    BY <1>a, <2>1, <2>3, TickKept
  <2> QED BY <2>2, <2>3
<1>9. ASSUME NEW k \in Jobs, ModelCancels(k) PROVE TickOK(j)'
  BY <1>b, <1>9 DEF ModelCancels
<1>10. ASSUME NEW k \in Jobs, Fires(k) PROVE TickOK(j)'
  <2>1. /\ task[k] = "waiting" /\ task' = [task EXCEPT ![k] = "sending"]
        /\ registry' = registry /\ events' = events /\ turn' = turn
    BY <1>10 DEF Fires
  <2> QED BY <1>a, <2>1 DEF TickOK, OneTick, Armed
<1>11. ASSUME NEW k \in Jobs, Send(k) PROVE TickOK(j)'
  <2> DEFINE e == IF k \in Loops THEN Due(k) ELSE Completed(k)
  <2>1. /\ task[k] = "sending" /\ task' = [task EXCEPT ![k] = "done"]
        /\ events' = IF turn = "gone" THEN events ELSE Append(events, e)
        /\ registry' = registry /\ turn' = turn
    BY <1>11 DEF Send
  <2>2. e \in Events /\ (k # j => e # Due(j)) /\ (k = j => e = Due(j))
    BY EventsApart
  <2> HIDE DEF e
  <2>3. /\ e # Due(j) /\ NoDue(events, j) => NoDue(Append(events, e), j)
        /\ e # Due(j) /\ OneDue(events, j) => OneDue(Append(events, e), j)
        /\ e = Due(j) /\ NoDue(events, j) => OneDue(Append(events, e), j)
    BY <1>a, <2>2, AppendDue
  <2>4. CASE k # j
    <3>1. /\ NoDue(events, j) => NoDue(events', j)
          /\ OneDue(events, j) => OneDue(events', j)
      BY <2>1, <2>2, <2>3, <2>4
    <3> QED BY <1>a, <2>1, <2>4, <3>1, TickKept
  <2>5. CASE k = j
    <3>1. task'[j] = "done" /\ task[j] = "sending"
      BY <1>a, <2>1, <2>5
    <3>2. CASE j \in registry
      <4>1. turn # "gone" /\ turn # j /\ NoDue(events, j)
        BY <1>a, <3>1, <3>2 DEF GoneEmpty, TickOK, OneTick, Armed
      <4>2. OneDue(events', j)
        BY <2>1, <2>2, <2>3, <2>5, <4>1
      <4> QED BY <2>1, <3>1, <4>1, <4>2 DEF TickOK, OneTick, Armed
    <3>3. CASE j \notin registry
      BY <2>1, <3>3 DEF TickOK
    <3> QED BY <3>2, <3>3
  <2> QED BY <2>4, <2>5
<1>12. CASE UNCHANGED vars
  BY <1>a, <1>12, TickKept DEF vars
<1> QED BY <1>1, <1>2, <1>3, <1>4, <1>5, <1>6, <1>7, <1>8, <1>9, <1>10, <1>11, <1>12
       DEF Next, TakeEvent

-----------------------------------------------------------------------------
(***************************************************************************)
(* The counter of live jobs.                                               *)
(***************************************************************************)

\* A step that starts and reports nothing.
LEMMA CountKept ==
    ASSUME CountBounded, active' = active, told' = told,
           \A j \in Jobs : task'[j] = "new" <=> task[j] = "new"
    PROVE  CountBounded'
<1>1. Unreported' = Unreported
  BY DEF Unreported
<1> QED BY <1>1 DEF CountBounded

LEMMA CountStep ==
    ASSUME TypeOK, QuietOK, CountBounded, [Next]_vars
    PROVE  CountBounded'
<1>a. /\ Loops \subseteq Jobs /\ registry \subseteq Jobs
      /\ task \in [Jobs -> {"new", "waiting", "sending", "done"}]
      /\ told \in [Jobs -> Nat] /\ active \in Nat
      /\ IsFiniteSet(Unreported) /\ active <= Cardinality(Unreported)
      /\ Cardinality(Unreported) \in Nat
      /\ \A j \in Jobs : task[j] = "new" => j \notin registry /\ turn # j /\ told[j] = 0
  BY FS_CardinalityType DEF TypeOK, Jobs, CountBounded, QuietOK, Quiet
<1>b. ASSUME NEW k \in Jobs, Cancel(k) PROVE \A j \in Jobs : task'[j] = "new" <=> task[j] = "new"
  BY <1>a, <1>b, CancelFacts
<1> USE DEF authority
<1>1. CASE Submit \/ Shutdown \/ WorkerExits \/ TakeMessage \/ TakeDue
  BY <1>1, CountKept DEF Submit, Shutdown, WorkerExits, TakeMessage, TakeDue
<1>2. CASE TakeCompleted
  <2> DEFINE h == Head(events).job
  <2>1. /\ told' = [told EXCEPT ![h] = told[h] + 1]
        /\ active' = IF active = 0 THEN 0 ELSE active - 1
        /\ task' = task
    BY <1>2 DEF TakeCompleted
  <2>2. h \in Jobs
    <3>1. Head(events) \in Events
      BY <1>2, TailDue DEF TakeCompleted, TypeOK
    <3> QED BY <1>a, <3>1 DEF Events, Due, Completed
  <2> HIDE DEF h
  <2>3. Unreported' = Unreported \ {h}
    <3>1. told'[h] # 0 /\ \A j \in Jobs \ {h} : told'[j] = told[j]
      BY <1>a, <2>1, <2>2
    <3> QED BY <2>1, <2>2, <3>1 DEF Unreported
  <2>4. /\ IsFiniteSet(Unreported \ {h})
        /\ Cardinality(Unreported \ {h}) \in Nat
        /\ Cardinality(Unreported \ {h}) >= Cardinality(Unreported) - 1
    <3>1. CASE h \in Unreported
      <4>1. /\ IsFiniteSet(Unreported \ {h})
            /\ Cardinality(Unreported \ {h}) = Cardinality(Unreported) - 1
        BY <1>a, <3>1, FS_RemoveElement
      <4> QED BY <1>a, <4>1, FS_CardinalityType
    <3>2. CASE h \notin Unreported
      <4>1. Unreported \ {h} = Unreported
        BY <3>2
      <4> QED BY <1>a, <4>1
    <3> QED BY <3>1, <3>2
  <2> QED BY <1>a, <2>1, <2>3, <2>4 DEF CountBounded
<1>3. CASE TakeCommand
  <2>1. Head(cmds) \in Jobs
    BY <1>3, HeadTailProperties DEF TakeCommand, TypeOK
  <2>2. \A j \in Jobs : task'[j] = "new" <=> task[j] = "new"
    BY <1>b, <1>3, <2>1 DEF TakeCommand
  <2> QED BY <1>3, <2>2, CountKept DEF TakeCommand
<1>4. CASE EndTurn
  <2>1. \A j \in Jobs : task'[j] = "new" <=> task[j] = "new"
    <3>1. CASE turn \in Loops
      <4>1. IterationFinished(turn)
        BY <1>4, <3>1 DEF EndTurn
      <4> QED BY <1>a, <3>1, <4>1, FinishedFacts
    <3>2. CASE turn \notin Loops
      BY <1>4, <3>2 DEF EndTurn
    <3> QED BY <3>1, <3>2
  <2> QED BY <1>4, <2>1, CountKept DEF EndTurn
<1>5. CASE TurnFails \/ InputCloses
  BY <1>5, CountKept DEF TurnFails, InputCloses, DriverEnds
<1>6. ASSUME NEW k \in Jobs, CancelJob(k) PROVE CountBounded'
  BY <1>6, CountKept DEF CancelJob
<1>7. ASSUME NEW k \in Jobs, Start(k) PROVE CountBounded'
  <2>1. /\ task[k] = "new" /\ task' = [task EXCEPT ![k] = "waiting"]
        /\ active' = active + 1 /\ told' = told
    BY <1>7 DEF Start
  <2>2. Unreported' = Unreported \cup {k} /\ k \notin Unreported
    BY <1>a, <2>1 DEF Unreported
  <2>3. /\ IsFiniteSet(Unreported \cup {k})
        /\ Cardinality(Unreported \cup {k}) = Cardinality(Unreported) + 1
    BY <1>a, <2>2, FS_AddElement
  <2> QED BY <1>a, <2>1, <2>2, <2>3 DEF CountBounded
<1>8. ASSUME NEW k \in Jobs, ModelCancels(k) PROVE CountBounded'
  <2>1. k \in registry /\ Cancel(k) /\ active' = active /\ told' = told
    BY <1>8 DEF ModelCancels
  <2>2. \A j \in Jobs : task'[j] = "new" <=> task[j] = "new"
    BY <1>b, <2>1
  <2> QED BY <2>1, <2>2, CountKept
<1>9. ASSUME NEW k \in Jobs, Fires(k) \/ Send(k) PROVE CountBounded'
  <2>1. /\ task[k] # "new" /\ active' = active /\ told' = told
        /\ \E at \in {"sending", "done"} : task' = [task EXCEPT ![k] = at]
    BY <1>9 DEF Fires, Send
  <2> QED BY <1>a, <2>1, CountKept
<1>10. CASE UNCHANGED vars
  BY <1>10, CountKept DEF vars
<1> QED BY <1>1, <1>2, <1>3, <1>4, <1>5, <1>6, <1>7, <1>8, <1>9, <1>10 DEF Next, TakeEvent

-----------------------------------------------------------------------------
(***************************************************************************)
(* The invariant.                                                          *)
(***************************************************************************)
LEMMA InitIInv == Init => IInv
<1> SUFFICES ASSUME Init PROVE IInv
  OBVIOUS
<1>1. <<>> \in Seq(Events) /\ Len(<<>>) = 0 /\ <<>> \in Seq(Jobs)
  BY EmptySeq
<1>2. TypeOK
  BY <1>1, BoundsAssumption DEF Init, TypeOK
<1>3. QuietOK
  <2>1. ASSUME NEW j \in Jobs PROVE Silent(<<>>, j)
    BY DEF Silent
  <2> QED BY <2>1, JobsAssumption DEF Init, QuietOK, Quiet
<1>4. TicksOK /\ GoneEmpty
  BY DEF Init, TicksOK, TickOK, GoneEmpty
<1>5. CountBounded
  <2>1. Unreported = {}
    BY DEF Init, Unreported
  <2> QED BY <2>1, FS_EmptySet DEF Init, CountBounded
<1> QED BY <1>2, <1>3, <1>4, <1>5 DEF IInv

LEMMA NextIInv == IInv /\ [Next]_vars => IInv'
<1> SUFFICES ASSUME IInv, [Next]_vars PROVE IInv'
  OBVIOUS
<1>a. TypeOK /\ QuietOK /\ TicksOK /\ GoneEmpty /\ CountBounded
  BY DEF IInv
<1>1. TypeOK'
  BY <1>a, TypeStep
<1>2. QuietOK'
  BY <1>a, QuietStep DEF QuietOK
<1>3. TicksOK'
  BY <1>a, TickStep DEF TicksOK
<1>4. GoneEmpty' /\ CountBounded'
  BY <1>a, GoneStep, CountStep
<1> QED BY <1>1, <1>2, <1>3, <1>4 DEF IInv

\* The inductive invariant of the jobs.
THEOREM Invariance == Spec => []IInv
<1> QED BY InitIInv, NextIInv, PTL DEF Spec

\* Every variable keeps its type: the channel never holds more than its capacity.
THEOREM TypeCorrect == Spec => []TypeOK
<1>1. IInv => TypeOK
  BY DEF IInv
<1> QED BY <1>1, Invariance, PTL

\* The place of the next iteration, if it has one, counted as the property counts it.
LEMMA TickCounted ==
    ASSUME TypeOK, NEW j \in Loops, OneTick(j)
    PROVE  Cardinality(Ticks(j)) = 1
<1>a. /\ events \in Seq(Events)
      /\ DOMAIN events = 1 .. Len(events)
  BY DEF TypeOK
<1>1. CASE Armed(j) /\ turn # j /\ NoDue(events, j)
  <2>1. Ticks(j) = {"armed"}
    BY <1>1 DEF Ticks, Armed, NoDue
  <2> QED BY <2>1, FS_Singleton
<1>2. CASE ~ Armed(j) /\ turn = j /\ NoDue(events, j)
  <2>1. Ticks(j) = {"running"}
    BY <1>2 DEF Ticks, Armed, NoDue
  <2> QED BY <2>1, FS_Singleton
<1>3. CASE ~ Armed(j) /\ turn # j /\ OneDue(events, j)
  <2>1. PICK i \in DOMAIN events : \A k \in DOMAIN events : events[k] = Due(j) <=> k = i
    BY <1>3 DEF OneDue
  <2>2. Ticks(j) = {i}
    BY <1>3, <2>1 DEF Ticks, Armed
  <2> QED BY <2>2, FS_Singleton
<1> QED BY <1>1, <1>2, <1>3 DEF OneTick

\* A live loop neither stalls nor runs twice (authority.rs): its next iteration is
\* in the timer, in the channel or in the driver, and in one of them only.
THEOREM TicksOnce == Spec => []OneTickPerLoop
<1>1. ASSUME IInv PROVE OneTickPerLoop
  BY <1>1, TickCounted DEF IInv, TicksOK, TickOK, OneTickPerLoop
<1>2. IInv => OneTickPerLoop
  BY <1>1
<1> QED BY <1>2, Invariance, PTL

\* When every job that was started has reported, the worker's count of live jobs
\* (session_worker.rs) is zero, however often one of them reported.
THEOREM CountClears == Spec => []StatusClears
<1>1. ASSUME IInv, \A j \in Jobs : task[j] = "new" \/ told[j] > 0 PROVE active = 0
  <2>1. told \in [Jobs -> Nat] /\ active \in Nat /\ active <= Cardinality(Unreported)
    BY <1>1 DEF IInv, TypeOK, CountBounded
  <2>2. Unreported = {}
    BY <1>1, <2>1 DEF Unreported
  <2> QED BY <2>1, <2>2, FS_EmptySet
<1>2. IInv => StatusClears
  BY <1>1 DEF StatusClears
<1> QED BY <1>2, Invariance, PTL
-----------------------------------------------------------------------------
(***************************************************************************)
(* The other work of a session beside its jobs: its histories, for any     *)
(* identities, batches, seeds, cache lifetimes, depths and bounds.         *)
(*                                                                         *)
(* That an elided body has a newer one needs the last entry of a history   *)
(* set apart while calls run: it is taken out again when it becomes the    *)
(* next prompt.  That a cold request is pruned needs the watermark followed*)
(* through all that makes a history shorter.  The clocks are ordered: the  *)
(* session sent last no later than any of its frames.                      *)
(***************************************************************************)
\* An entry has a body that can be elided only if it is the result of a snapshot call.
Entries ==
    {e \in [kind : {"user", "turn", "report", "summary", "nothing", "result"},
            key : Keys \cup {"none"}, body : Bodies \cup {"text"}] :
        e.body # "text" => e.kind = "result" /\ e.key \in Keys}
Calls == [key : Keys, failed : BOOLEAN]
Heirs == [phase : {"none", "row", "attached", "told"}, seeds : SUBSET Keys,
          context : SUBSET Keys, shown : SUBSET Keys, lost : BOOLEAN]

WindowTyped ==
    /\ caching \in BOOLEAN /\ compacting \in BOOLEAN
    /\ hist \in Seq(Seq(Entries)) /\ Len(hist) \in 1..MaxDepth
    /\ mark \in [1..MaxDepth -> Int]
    /\ pc \in {"idle", "ready", "asked", "calls", "away", "done"}
    /\ prompt \in Entries
    /\ todo \in Seq(Keys) /\ last \in {"none", "explore", "task"}
    /\ copy \in [1..MaxDepth -> {"none", "running", "brief", "pruned"}]
    /\ idle \in 0..TTL /\ spent \in [1..MaxDepth -> 0..TTL] /\ age \in [1..MaxDepth -> 0..TTL]
    /\ ledger \in Seq(Calls)
    /\ heir \in Heirs

\* Every marker of h has a newer body.
Pointed(h) ==
    \A i \in DOMAIN h : h[i].body = "marker" =>
        \E j \in DOMAIN h : /\ j > i /\ h[j].kind = "result" /\ h[j].key = h[i].key
                            /\ h[j].body # "marker"

\* The identities of the full bodies of h are among S.
Recorded(h, S) == \A i \in DOMAIN h : h[i].body = "full" => h[i].key \in S

Bottom == Len(hist)
Succeeded == Seeds(ledger)

\* While calls run, the last entry may yet become the prompt.
HistoriesOK ==
    /\ \A d \in 1..Bottom : Pointed(hist[d]) /\ Recorded(hist[d], Succeeded)
    /\ prompt.body # "marker"
    /\ prompt.body = "full" => prompt.key \in Succeeded
    /\ pc = "calls" => /\ hist[Bottom] # <<>>
                       /\ Pointed(Front(hist[Bottom]))
                       /\ Last(hist[Bottom]).body # "marker"
                       /\ last = "task" => Bottom < MaxDepth

ClocksOK ==
    /\ \A d \in 1..MaxDepth : idle <= age[d]
    /\ \A d \in 1..Bottom : d < Bottom \/ pc = "away" => spent[d] <= age[d]

HeirOK ==
    ~ heir.lost =>
        /\ heir.phase = "row" => heir.shown \subseteq heir.seeds
        /\ heir.phase \in {"attached", "told"} => heir.shown \subseteq heir.context

WindowInv == WindowTyped /\ HistoriesOK /\ ClocksOK /\ HeirOK

\* There is nothing to elide in the first m entries of h.
Lean(h, m) ==
    \A i, n \in DOMAIN h :
        /\ i < n /\ n <= m
        /\ h[i].kind = "result" /\ h[n].kind = "result" /\ h[i].key = h[n].key
        /\ h[n].key \in Keys
        /\ \A j \in DOMAIN h : j <= m /\ h[j].kind = "result" /\ h[j].key = h[n].key => j <= n
        => h[i].body = "marker" \/ h[n].body = "marker"

\* The watermark of depth d is in the history and the history below it is lean, or the
\* frame is about to be looked at and has nothing to elide.
MarkOK(d) ==
    \/ /\ mark[d] <= Len(hist[d]) /\ Lean(hist[d], mark[d])
       /\ d = Bottom /\ pc = "calls" => mark[d] < Len(hist[d])
    \/ d = Bottom /\ pc = "ready" /\ Lean(hist[d], Len(hist[d]))

WatermarkInv == \A d \in 1..Bottom : MarkOK(d)

\* What a subagent seeds it seeds once.
SeedsDistinct == \A s \in SeedLists : \A i, j \in DOMAIN s : s[i] = s[j] => i = j

LEMMA EntriesMade ==
    /\ \A e \in {User, Turn, Report, Summary, Nothing} :
          e \in Entries /\ e.body = "text" /\ e.kind # "result"
    /\ \A k \in Keys, b \in Bodies :
          /\ Result(k, b) \in Entries /\ Result(k, b).body = b
          /\ Result(k, b).key = k /\ Result(k, b).kind = "result"
BY DEF Entries, User, Turn, Report, Summary, Nothing, Entry, Result,
       Bodies

LEMMA HistorySeq ==
    ASSUME NEW h \in Seq(Entries)
    PROVE  /\ Len(h) \in Nat /\ DOMAIN h = 1..Len(h)
           /\ \A i \in 1..Len(h) :
                 /\ h[i] \in Entries /\ h[i].body \in Bodies \cup {"text"}
                 /\ h[i].body # "text" => h[i].kind = "result" /\ h[i].key \in Keys
<1>1. Len(h) \in Nat /\ DOMAIN h = 1..Len(h) /\ \A i \in 1..Len(h) : h[i] \in Entries
  BY LenProperties
<1> QED BY <1>1 DEF Entries

Below == {p \in Nat \X Nat : p[1] < p[2]}

\* A set of positions has a last one.
LEMMA MaxOf ==
    ASSUME NEW n \in Nat, NEW S \in SUBSET (1..n), S # {}
    PROVE  Max(S) \in S /\ \A m \in S : m <= Max(S)
<1> DEFINE T == {n - x : x \in S}
<1>1. T \in SUBSET Nat /\ T # {}
  <2>1. \A x \in S : n - x \in Nat
    OBVIOUS
  <2>2. PICK x \in S : TRUE
    OBVIOUS
  <2>3. n - x \in T
    OBVIOUS
  <2> QED BY <2>1, <2>3
<1>2. IsWellFoundedOn(Below, Nat)
  BY NatLessThanWellFounded DEF OpToRel, Below
<1>3. PICK t \in T : \A u \in T : ~ (<<u, t>> \in Below)
  BY <1>1, <1>2, WFMin
<1>4. PICK x \in S : t = n - x
  OBVIOUS
<1>5. ASSUME NEW m \in S PROVE x >= m
  <2>1. n - m \in T /\ ~ (<<n - m, t>> \in Below)
    BY <1>3
  <2>2. n - m \in Nat /\ t \in Nat
    BY <1>1
  <2>3. ~ (n - m < t)
    BY <2>1, <2>2 DEF Below
  <2> QED BY <1>4, <2>3
<1>6. \E y \in S : \A m \in S : y >= m
  BY <1>5
<1>7. Max(S) \in S /\ \A m \in S : Max(S) >= m
  BY <1>6 DEF Max
<1> QED BY <1>7

\* n is the newest entry of its identity in h, and its body elides that of i.
Elides(h, n, i) ==
    /\ i \in DOMAIN h /\ n \in DOMAIN h /\ i < n
    /\ h[i].kind = "result" /\ h[n].kind = "result" /\ h[i].key = h[n].key /\ h[n].key \in Keys
    /\ \A j \in DOMAIN h : h[j].kind = "result" /\ h[j].key = h[n].key => j <= n
    /\ h[i].body # "marker" /\ h[n].body # "marker"

LEMMA SupersededIs ==
    ASSUME NEW h \in Seq(Entries), NEW i
    PROVE  i \in Superseded(h) <=> \E n \in DOMAIN h : Elides(h, n, i)
<1>a. Len(h) \in Nat /\ DOMAIN h = 1..Len(h)
  BY HistorySeq
<1>b. ASSUME NEW k PROVE Found(h, k) \in SUBSET (1..Len(h))
  BY <1>a DEF Found
<1>1. ASSUME i \in Superseded(h) PROVE \E n \in DOMAIN h : Elides(h, n, i)
  <2>1. PICK k \in Keys : /\ i \in Found(h, k) /\ i # Max(Found(h, k))
                          /\ h[Max(Found(h, k))].body # "marker" /\ h[i].body # "marker"
    BY <1>1 DEF Superseded
  <2> DEFINE n == Max(Found(h, k))
  <2>2. n \in Found(h, k) /\ \A m \in Found(h, k) : m <= n
    BY <1>a, <1>b, <2>1, MaxOf
  <2>3. i < n
    BY <1>a, <1>b, <2>1, <2>2
  <2> HIDE DEF n
  <2>4. Elides(h, n, i)
    BY <2>1, <2>2, <2>3 DEF Elides, Found, n
  <2> QED BY <2>2, <2>4 DEF Found
<1>2. ASSUME NEW n \in DOMAIN h, Elides(h, n, i) PROVE i \in Superseded(h)
  <2> DEFINE k == h[n].key
             F == Found(h, k)
  <2>1. k \in Keys /\ i \in F /\ n \in F /\ \A m \in F : m <= n
    BY <1>2 DEF Elides, Found
  <2>2. Max(F) \in F /\ \A m \in F : m <= Max(F)
    BY <1>a, <1>b, <2>1, MaxOf
  <2>3. Max(F) = n
    BY <1>a, <1>b, <2>1, <2>2
  <2>4. i # n /\ h[n].body # "marker" /\ h[i].body # "marker"
    BY <1>a, <1>2 DEF Elides
  <2> QED BY <2>1, <2>3, <2>4 DEF Superseded
<1> QED BY <1>1, <1>2

LEMMA LeanIs ==
    ASSUME NEW h \in Seq(Entries)
    PROVE  Superseded(h) = {} <=> Lean(h, Len(h))
<1>a. Len(h) \in Nat /\ DOMAIN h = 1..Len(h)
  BY HistorySeq
<1>1. ASSUME Superseded(h) = {} PROVE Lean(h, Len(h))
  <2>1. \A i, n \in DOMAIN h : ~ Elides(h, n, i)
    BY <1>1, SupersededIs
  <2> QED BY <1>a, <2>1 DEF Lean, Elides
<1>2. ASSUME Lean(h, Len(h)), NEW i \in Superseded(h) PROVE FALSE
  <2>1. PICK n \in DOMAIN h : Elides(h, n, i)
    BY SupersededIs
  <2> QED BY <1>a, <1>2, <2>1 DEF Lean, Elides
<1> QED BY <1>1, <1>2

\* A history that grows by entries that are no markers.
LEMMA Grown ==
    ASSUME NEW h \in Seq(Entries), NEW g \in Seq(Entries), Len(h) <= Len(g),
           \A i \in 1..Len(h) : g[i] = h[i],
           \A i \in (Len(h) + 1)..Len(g) : g[i].body # "marker"
    PROVE  /\ Pointed(h) => Pointed(g)
           /\ \A m \in Int : m <= Len(h) /\ Lean(h, m) => Lean(g, m)
<1>a. Len(h) \in Nat /\ DOMAIN h = 1..Len(h) /\ Len(g) \in Nat /\ DOMAIN g = 1..Len(g)
  BY HistorySeq
<1>1. ASSUME Pointed(h), NEW i \in DOMAIN g, g[i].body = "marker"
      PROVE  \E j \in DOMAIN g : /\ j > i /\ g[j].kind = "result" /\ g[j].key = g[i].key
                                 /\ g[j].body # "marker"
  <2>1. i \in 1..Len(h)
    BY <1>a, <1>1
  <2>2. PICK j \in DOMAIN h : /\ j > i /\ h[j].kind = "result" /\ h[j].key = h[i].key
                              /\ h[j].body # "marker"
    BY <1>a, <1>1, <2>1 DEF Pointed
  <2> QED BY <1>a, <2>1, <2>2
<1>2. ASSUME NEW m \in Int, m <= Len(h), Lean(h, m) PROVE Lean(g, m)
  <2> SUFFICES ASSUME NEW i \in DOMAIN g, NEW n \in DOMAIN g, i < n, n <= m,
                      g[i].kind = "result", g[n].kind = "result", g[i].key = g[n].key,
                      g[n].key \in Keys,
                      \A j \in DOMAIN g : j <= m /\ g[j].kind = "result" /\ g[j].key = g[n].key => j <= n
               PROVE  g[i].body = "marker" \/ g[n].body = "marker"
    BY DEF Lean
  <2>1. i \in 1..Len(h) /\ n \in 1..Len(h) /\ g[i] = h[i] /\ g[n] = h[n]
    BY <1>a, <1>2
  <2>2. \A j \in DOMAIN h : j <= m /\ h[j].kind = "result" /\ h[j].key = h[n].key => j <= n
    BY <1>a, <2>1
  <2> QED BY <1>a, <1>2, <2>1, <2>2 DEF Lean
<1> QED BY <1>1, <1>2 DEF Pointed

\* A history without its last entry.
LEMMA Shortened ==
    ASSUME NEW h \in Seq(Entries), h # <<>>
    PROVE  /\ Front(h) \in Seq(Entries) /\ Len(Front(h)) = Len(h) - 1 /\ Len(h) > 0
           /\ \A i \in 1..(Len(h) - 1) : Front(h)[i] = h[i]
           /\ Last(h) \in Entries /\ Last(h) = h[Len(h)]
           /\ \A m \in Int : m < Len(h) /\ Lean(h, m) => Lean(Front(h), m)
           /\ \A S : Recorded(h, S) => Recorded(Front(h), S)
<1> DEFINE g == Front(h)
<1>a. Len(h) \in Nat /\ Len(h) > 0 /\ DOMAIN h = 1..Len(h) /\ \A i \in 1..Len(h) : h[i] \in Entries
  BY HistorySeq, EmptySeq
<1>1. g \in Seq(Entries) /\ Len(g) = Len(h) - 1 /\ \A i \in 1..(Len(h) - 1) : g[i] = h[i]
  <2>1. g = SubSeq(h, 1, Len(h) - 1)
    BY DEF Front
  <2>2. \A i \in 1..(Len(h) - 1) : h[i] \in Entries
    BY <1>a
  <2>3. Len(h) - 1 \in Int /\ (IF 1 <= Len(h) - 1 THEN (Len(h) - 1) - 1 + 1 ELSE 0) = Len(h) - 1
        /\ (Len(h) - 1) - 1 + 1 = Len(h) - 1 /\ \A i \in 1..(Len(h) - 1) : 1 + i - 1 = i
    BY <1>a
  <2>4. /\ SubSeq(h, 1, Len(h) - 1) \in Seq(Entries)
        /\ Len(SubSeq(h, 1, Len(h) - 1)) = IF 1 <= Len(h) - 1 THEN (Len(h) - 1) - 1 + 1 ELSE 0
        /\ \A i \in 1..((Len(h) - 1) - 1 + 1) : SubSeq(h, 1, Len(h) - 1)[i] = h[1 + i - 1]
    BY <2>2, <2>3, SubSeqProperties
  <2> QED BY <2>1, <2>3, <2>4
<1>2. Last(h) \in Entries /\ Last(h) = h[Len(h)]
  BY <1>a DEF Last
<1> HIDE DEF g
<1>b. DOMAIN g = 1..(Len(h) - 1)
  BY <1>1, HistorySeq
<1>3. ASSUME NEW m \in Int, m < Len(h), Lean(h, m) PROVE Lean(g, m)
  <2> SUFFICES ASSUME NEW i \in DOMAIN g, NEW n \in DOMAIN g, i < n, n <= m,
                      g[i].kind = "result", g[n].kind = "result", g[i].key = g[n].key,
                      g[n].key \in Keys,
                      \A j \in DOMAIN g : j <= m /\ g[j].kind = "result" /\ g[j].key = g[n].key => j <= n
               PROVE  g[i].body = "marker" \/ g[n].body = "marker"
    BY DEF Lean
  <2>1. i \in DOMAIN h /\ n \in DOMAIN h /\ g[i] = h[i] /\ g[n] = h[n]
    BY <1>a, <1>b, <1>1
  <2>2. \A j \in DOMAIN h : j <= m /\ h[j].kind = "result" /\ h[j].key = h[n].key => j <= n
    BY <1>a, <1>b, <1>1, <1>3, <2>1
  <2> QED BY <1>3, <2>1, <2>2 DEF Lean
<1>4. \A S : Recorded(h, S) => Recorded(g, S)
  BY <1>a, <1>b, <1>1 DEF Recorded
<1> QED BY <1>a, <1>1, <1>2, <1>3, <1>4 DEF g

\* A prune leaves the shape, the newest bodies and nothing to elide.
LEMMA PruneKeeps ==
    ASSUME NEW h \in Seq(Entries)
    PROVE  /\ Pruned(h) \in Seq(Entries) /\ Len(Pruned(h)) = Len(h)
           /\ Pointed(h) => Pointed(Pruned(h))
           /\ \A S : Recorded(h, S) => Recorded(Pruned(h), S)
           /\ \A m \in Int : Lean(h, m) => Lean(Pruned(h), m)
           /\ Lean(Pruned(h), Len(h))
<1> DEFINE g == Pruned(h)
<1>a. /\ Len(h) \in Nat /\ DOMAIN h = 1..Len(h)
      /\ \A i \in 1..Len(h) : h[i] \in Entries
  BY HistorySeq
<1>b. g = [i \in DOMAIN h |-> IF i \in Superseded(h) THEN [h[i] EXCEPT !.body = "marker"] ELSE h[i]]
  BY DEF Pruned
<1> HIDE DEF g
\* An entry keeps its identity, and its body or loses it.
<1>1. ASSUME NEW i \in 1..Len(h)
      PROVE  /\ g[i] \in Entries /\ g[i].kind = h[i].kind /\ g[i].key = h[i].key
             /\ g[i].body = IF i \in Superseded(h) THEN "marker" ELSE h[i].body
  <2>1. h[i] \in Entries
    BY <1>a
  <2>2. CASE i \in Superseded(h)
    <3>1. h[i].kind = "result" /\ h[i].key \in Keys
      BY <2>2, SupersededIs DEF Elides
    <3>2. g[i] = [h[i] EXCEPT !.body = "marker"]
      BY <1>a, <1>b, <2>2
    <3> QED BY <2>1, <2>2, <3>1, <3>2 DEF Entries, Bodies
  <2>3. CASE i \notin Superseded(h)
    BY <1>a, <1>b, <2>1, <2>3
  <2> QED BY <2>2, <2>3
<1>2. g \in Seq(Entries) /\ Len(g) = Len(h) /\ DOMAIN g = 1..Len(h)
  <2>1. DOMAIN g = 1..Len(h)
    BY <1>a, <1>b
  <2>2. g = [i \in 1..Len(h) |-> g[i]]
    BY <1>a, <1>b
  <2>3. g \in [1..Len(h) -> Entries]
    BY <1>1, <2>1, <2>2
  <2>4. g \in Seq(Entries)
    BY <1>a, <2>3, SeqDef
  <2> QED BY <1>a, <2>1, <2>4, HistorySeq
\* The newest of an identity is not elided.
<1>3. ASSUME NEW n \in 1..Len(h),
             \A j \in DOMAIN h : h[j].kind = "result" /\ h[j].key = h[n].key => j <= n
      PROVE  g[n].body = h[n].body
  <2>1. n \notin Superseded(h)
    <3>1. ASSUME NEW q \in DOMAIN h, Elides(h, q, n) PROVE FALSE
      BY <1>a, <1>3, <3>1 DEF Elides
    <3> QED BY <3>1, SupersededIs
  <2> QED BY <1>1, <2>1
<1>4. ASSUME Pointed(h) PROVE Pointed(g)
  <2> SUFFICES ASSUME NEW i \in 1..Len(h), g[i].body = "marker"
               PROVE  \E j \in 1..Len(h) : /\ j > i /\ g[j].kind = "result" /\ g[j].key = g[i].key
                                           /\ g[j].body # "marker"
    BY <1>2 DEF Pointed
  <2>1. PICK q \in 1..Len(h) : /\ q > i /\ h[q].kind = "result" /\ h[q].key = h[i].key
                               /\ h[q].body # "marker"
    <3>1. CASE h[i].body = "marker"
      BY <1>a, <1>4, <3>1 DEF Pointed
    <3>2. CASE i \in Superseded(h)
      BY <1>a, <3>2, SupersededIs DEF Elides
    <3> QED BY <1>1, <3>1, <3>2
  <2> DEFINE F == Found(h, h[i].key)
             n == Max(F)
  <2>2. F \in SUBSET (1..Len(h)) /\ q \in F
    BY <1>a, <2>1 DEF Found
  <2>3. n \in F /\ \A m \in F : m <= n
    BY <1>a, <2>2, MaxOf
  <2> HIDE DEF n
  <2>4. /\ n \in 1..Len(h) /\ h[n].kind = "result" /\ h[n].key = h[i].key
        /\ \A j \in DOMAIN h : h[j].kind = "result" /\ h[j].key = h[n].key => j <= n
    BY <1>a, <2>3 DEF Found
  <2>5. n >= q /\ n > i
    BY <1>a, <2>1, <2>2, <2>3
  <2>6. h[n].body # "marker"
    <3>1. ASSUME h[n].body = "marker" PROVE FALSE
      <4>1. PICK j \in DOMAIN h : j > n /\ h[j].kind = "result" /\ h[j].key = h[n].key
        BY <1>a, <1>4, <2>4, <3>1 DEF Pointed
      <4> QED BY <1>a, <2>4, <4>1
    <3> QED BY <3>1
  <2>7. g[n].body # "marker" /\ g[n].kind = "result" /\ g[n].key = g[i].key
    BY <1>1, <1>3, <2>4, <2>6
  <2> QED BY <2>4, <2>5, <2>7
<1>5. ASSUME NEW S, Recorded(h, S) PROVE Recorded(g, S)
  BY <1>a, <1>1, <1>2, <1>5 DEF Recorded
<1>6. ASSUME NEW m \in Int, Lean(h, m) PROVE Lean(g, m)
  <2> SUFFICES ASSUME NEW i \in 1..Len(h), NEW n \in 1..Len(h), i < n, n <= m,
                      g[i].kind = "result", g[n].kind = "result", g[i].key = g[n].key,
                      g[n].key \in Keys,
                      \A j \in 1..Len(h) : j <= m /\ g[j].kind = "result" /\ g[j].key = g[n].key => j <= n
               PROVE  g[i].body = "marker" \/ g[n].body = "marker"
    BY <1>2 DEF Lean
  <2>1. h[i].body = "marker" \/ h[n].body = "marker"
    BY <1>a, <1>1, <1>6 DEF Lean
  <2> QED BY <1>1, <2>1
<1>7. Lean(g, Len(h))
  <2> SUFFICES ASSUME NEW i \in 1..Len(h), NEW n \in 1..Len(h), i < n,
                      g[i].kind = "result", g[n].kind = "result", g[i].key = g[n].key,
                      g[n].key \in Keys,
                      \A j \in 1..Len(h) : j <= Len(h) /\ g[j].kind = "result" /\ g[j].key = g[n].key => j <= n,
                      g[i].body # "marker", g[n].body # "marker"
               PROVE  FALSE
    BY <1>2 DEF Lean
  <2>1. /\ h[i].kind = "result" /\ h[n].kind = "result" /\ h[i].key = h[n].key /\ h[n].key \in Keys
        /\ \A j \in DOMAIN h : h[j].kind = "result" /\ h[j].key = h[n].key => j <= n
    BY <1>a, <1>1
  <2>2. h[i].body # "marker" /\ h[n].body # "marker" /\ i \notin Superseded(h)
    BY <1>1
  <2>3. Elides(h, n, i)
    BY <1>a, <2>1, <2>2 DEF Elides
  <2> QED BY <1>a, <2>2, <2>3, SupersededIs
<1> QED BY <1>2, <1>4, <1>5, <1>6, <1>7 DEF g

\* What finish_delegation_shrink puts in place of a paused history.
LEMMA ResumedKept ==
    ASSUME NEW d \in 1..MaxDepth, hist[d] \in Seq(Entries)
    PROVE  LET r == Resumed(d) IN
           /\ r \in Seq(Entries)
           /\ Pointed(hist[d]) => Pointed(r)
           /\ \A S : Recorded(hist[d], S) => Recorded(r, S)
           /\ \/ r = <<Summary>> /\ Lean(r, Len(r)) /\ Len(r) = 1
              \/ /\ Len(r) = Len(hist[d])
                 /\ \A m \in Int : Lean(hist[d], m) => Lean(r, m)
           /\ ~ Cold(spent[d]) => r = hist[d]
<1> DEFINE r == Resumed(d)
<1>1. CASE Cold(spent[d]) /\ copy[d] = "brief"
  <2>1. r = <<Summary>>
    BY <1>1 DEF Resumed
  <2>2. r \in Seq(Entries) /\ Len(r) = 1 /\ r[1] = Summary /\ DOMAIN r = {1}
    BY <2>1, EntriesMade
  <2>3. Summary.body = "text" /\ Summary.kind # "result"
    BY EntriesMade
  <2>4. Pointed(r) /\ (\A S : Recorded(r, S)) /\ Lean(r, Len(r))
    BY <2>2, <2>3 DEF Pointed, Recorded, Lean
  <2> QED BY <1>1, <2>1, <2>2, <2>4
<1>2. CASE Cold(spent[d]) /\ copy[d] = "pruned"
  <2>1. r = Pruned(hist[d])
    BY <1>2 DEF Resumed
  <2> QED BY <1>2, <2>1, PruneKeeps
<1>3. CASE ~ (Cold(spent[d]) /\ copy[d] \in {"brief", "pruned"})
  <2>1. r = hist[d]
    BY <1>3 DEF Resumed
  <2> QED BY <2>1
<1> QED BY <1>1, <1>2, <1>3

\* g is h and the results of the seeds, with n turns between them.
SeededBy(g, h, seeds, n) ==
    /\ Len(h) <= Len(g)
    /\ \A i \in 1..Len(h) : g[i] = h[i]
    /\ \A i \in (Len(h) + 1)..Len(g) :
          /\ g[i].body # "marker"
          /\ g[i].body = "full" => g[i].kind = "result"
          /\ g[i].kind = "result" => /\ i - Len(h) - n \in DOMAIN seeds
                                     /\ g[i].key = seeds[i - Len(h) - n]

LEMMA Joined ==
    \A s, t \in Seq(Entries) :
        /\ s \o t \in Seq(Entries) /\ Len(s \o t) = Len(s) + Len(t)
        /\ \A i \in 1..(Len(s) + Len(t)) : (s \o t)[i] = IF i <= Len(s) THEN s[i] ELSE t[i - Len(s)]
BY ConcatProperties

LEMMA ResultsAppended ==
    ASSUME NEW h \in Seq(Entries), NEW rs \in Seq(Entries), NEW seeds \in Seq(Keys),
           Len(rs) = Len(seeds),
           \A i \in DOMAIN seeds : rs[i].body \in {"full", "error"} /\ rs[i].key = seeds[i]
    PROVE  h \o rs \in Seq(Entries) /\ SeededBy(h \o rs, h, seeds, 0)
<1>a. Len(h) \in Nat /\ Len(seeds) \in Nat /\ DOMAIN seeds = 1..Len(seeds)
  BY LenProperties
<1>1. PICK g : g = h \o rs
  OBVIOUS
<1>2. /\ g \in Seq(Entries) /\ Len(g) = Len(h) + Len(seeds)
      /\ \A i \in 1..(Len(h) + Len(seeds)) : g[i] = IF i <= Len(h) THEN h[i] ELSE rs[i - Len(h)]
  <2>1. /\ h \o rs \in Seq(Entries) /\ Len(h \o rs) = Len(h) + Len(rs)
        /\ \A i \in 1..(Len(h) + Len(rs)) : (h \o rs)[i] = IF i <= Len(h) THEN h[i] ELSE rs[i - Len(h)]
    BY Joined
  <2> QED BY <1>1, <2>1
<1>3. ASSUME NEW i \in (Len(h) + 1)..Len(g)
      PROVE  /\ i - Len(h) \in DOMAIN seeds /\ i - Len(h) - 0 = i - Len(h)
             /\ g[i] = rs[i - Len(h)] /\ i \in 1..Len(g)
  BY <1>a, <1>2
<1>4. ASSUME NEW i \in (Len(h) + 1)..Len(g)
      PROVE  /\ g[i].body # "marker" /\ g[i].key = seeds[i - Len(h) - 0]
             /\ g[i].body = "full" => g[i].kind = "result"
  <2>1. g[i].body \in {"full", "error"} /\ g[i].key = seeds[i - Len(h)]
    BY <1>3
  <2>2. g[i].body # "text" => g[i].kind = "result"
    BY <1>2, <1>3, HistorySeq
  <2> QED BY <1>3, <2>1, <2>2
<1>5. (\A i \in 1..Len(h) : g[i] = h[i]) /\ Len(h) <= Len(g)
  BY <1>a, <1>2
<1>6. SeededBy(g, h, seeds, 0)
  BY <1>3, <1>4, <1>5 DEF SeededBy
<1> QED BY <1>1, <1>2, <1>6

\* The results of the seeds come after what is there, with a turn before them at most.
LEMMA SeededKept ==
    ASSUME NEW h \in Seq(Entries), NEW seeds \in Seq(Keys), NEW body \in {"full", "error"}
    PROVE  /\ Seeded(h, seeds, body) \in Seq(Entries)
           /\ \E n \in {0, 1} : SeededBy(Seeded(h, seeds, body), h, seeds, n)
<1>a. Len(h) \in Nat /\ Len(seeds) \in Nat /\ DOMAIN seeds = 1..Len(seeds)
      /\ \A i \in 1..Len(seeds) : seeds[i] \in Keys
  BY LenProperties
<1>b. PICK rs : rs = [i \in DOMAIN seeds |-> Result(seeds[i], body)]
  OBVIOUS
<1>c. /\ \A i \in DOMAIN seeds : rs[i] \in Entries /\ rs[i].body \in {"full", "error"} /\ rs[i].key = seeds[i]
      /\ DOMAIN rs = 1..Len(seeds)
  BY <1>a, <1>b, EntriesMade DEF Bodies
<1>d. rs \in Seq(Entries) /\ Len(rs) = Len(seeds)
  <2>1. rs \in [1..Len(seeds) -> Entries]
    BY <1>a, <1>b, <1>c
  <2>2. rs \in Seq(Entries)
    BY <1>a, <2>1, SeqDef
  <2> QED BY <1>a, <1>c, <2>2, LenProperties
<1>1. CASE seeds = <<>>
  <2>1. Seeded(h, seeds, body) = h
    BY <1>1 DEF Seeded
  <2>2. SeededBy(h, h, seeds, 0)
    BY <1>a DEF SeededBy
  <2> QED BY <2>1, <2>2
<1>2. CASE seeds # <<>> /\ Last(h) = Turn
  <2>1. Seeded(h, seeds, body) = h \o rs
    BY <1>2, <1>b DEF Seeded
  <2> QED BY <1>c, <1>d, <2>1, ResultsAppended
<1>3. CASE seeds # <<>> /\ Last(h) # Turn
  <2>0. Turn \in Entries /\ Turn.body = "text" /\ Turn.kind # "result"
    BY EntriesMade
  <2>1. PICK t : t = Append(h, Turn)
    OBVIOUS
  <2>2. /\ t \in Seq(Entries) /\ Len(t) = Len(h) + 1 /\ \A i \in 1..Len(h) : t[i] = h[i]
        /\ t[Len(h) + 1] = Turn
    BY <2>0, <2>1, AppendProperties
  <2>3. PICK g : g = t \o rs
    OBVIOUS
  <2>4. Seeded(h, seeds, body) = g
    BY <1>3, <1>b, <2>1, <2>3 DEF Seeded
  <2>5. g \in Seq(Entries) /\ SeededBy(g, t, seeds, 0)
    BY <1>c, <1>d, <2>2, <2>3, ResultsAppended
  <2>6. Len(g) \in Nat /\ Len(g) >= Len(h) + 1 /\ g[Len(h) + 1] = Turn
        /\ \A i \in 1..Len(h) : g[i] = h[i]
    BY <1>a, <2>2, <2>5, HistorySeq DEF SeededBy
  <2>7. ASSUME NEW i \in (Len(h) + 1)..Len(g), i # Len(h) + 1
        PROVE  i \in (Len(t) + 1)..Len(g) /\ i - Len(t) - 0 = i - Len(h) - 1
    BY <1>a, <2>2, <2>6, <2>7
  <2>8. ASSUME NEW i \in (Len(h) + 1)..Len(g)
        PROVE  /\ g[i].body # "marker"
               /\ g[i].body = "full" => g[i].kind = "result"
               /\ g[i].kind = "result" => /\ i - Len(h) - 1 \in DOMAIN seeds
                                          /\ g[i].key = seeds[i - Len(h) - 1]
    <3>1. CASE i = Len(h) + 1
      BY <2>0, <2>6, <3>1
    <3>2. CASE i # Len(h) + 1
      BY <2>5, <2>7, <3>2 DEF SeededBy
    <3> QED BY <3>1, <3>2
  <2>9. Len(h) <= Len(g)
    BY <1>a, <2>6
  <2>10. SeededBy(g, h, seeds, 1)
    BY <2>6, <2>8, <2>9 DEF SeededBy
  <2> QED BY <2>4, <2>5, <2>10
<1> QED BY <1>1, <1>2, <1>3

\* Of a brief and what one subagent seeds nothing is elided, if it seeds all once.
LEMMA BriefIsLean ==
    ASSUME NEW seeds \in Seq(Keys), NEW body \in {"full", "error"},
           \A i, j \in DOMAIN seeds : seeds[i] = seeds[j] => i = j,
           NEW h \in Seq(Entries), Len(h) = 1, h[1] = Summary
    PROVE  Lean(Seeded(h, seeds, body), Len(Seeded(h, seeds, body)))
<1> DEFINE g == Seeded(h, seeds, body)
<1>1. Len(h) = 1 /\ h[1] = Summary /\ Summary.kind # "result"
  BY EntriesMade
<1>a. \A f \in Seq(Entries) :
         /\ Seeded(f, seeds, body) \in Seq(Entries)
         /\ \E n \in {0, 1} : SeededBy(Seeded(f, seeds, body), f, seeds, n)
  BY SeededKept
<1>2. PICK n \in {0, 1} : SeededBy(g, h, seeds, n)
  BY <1>a DEF g
<1>3. g \in Seq(Entries) /\ g[1] = h[1]
  BY <1>1, <1>2, <1>a DEF SeededBy, g
<1> HIDE DEF g
<1>4. Len(g) \in Nat /\ DOMAIN g = 1..Len(g)
  BY <1>3, HistorySeq
<1>5. ASSUME NEW i \in DOMAIN g, NEW m \in DOMAIN g, i < m, g[i].kind = "result",
             g[m].kind = "result", g[i].key = g[m].key
      PROVE  FALSE
  <2>1. i # 1 /\ m # 1
    BY <1>1, <1>3, <1>5
  <2>2. i \in (Len(h) + 1)..Len(g) /\ m \in (Len(h) + 1)..Len(g)
    BY <1>1, <1>4, <2>1
  <2>3. i - Len(h) - n = m - Len(h) - n
    <3> DEFINE x == i - Len(h) - n
               y == m - Len(h) - n
    <3>1. \A k \in (Len(h) + 1)..Len(g) : g[k].kind = "result" =>
             /\ k - Len(h) - n \in DOMAIN seeds
             /\ g[k].key = seeds[k - Len(h) - n]
      BY <1>2 DEF SeededBy
    <3>2. x \in DOMAIN seeds /\ y \in DOMAIN seeds /\ seeds[x] = seeds[y]
      BY <1>5, <2>2, <3>1
    <3> HIDE DEF x, y
    <3>3. x = y
      BY <3>2
    <3> QED BY <3>3 DEF x, y
  <2>4. i \in Int /\ m \in Int /\ n \in Int /\ Len(h) \in Int
    BY <1>1, <1>4
  <2>5. i = m
    BY <2>3, <2>4
  <2> QED BY <1>5, <2>4, <2>5
<1> QED BY <1>5 DEF Lean, g

LEMMA BottomTyped ==
    ASSUME WindowTyped
    PROVE  /\ Bottom \in 1..MaxDepth /\ Bottom \in Nat /\ MaxDepth \in Nat /\ TTL \in Nat
           /\ \A d \in 1..Bottom : d \in 1..MaxDepth /\ hist[d] \in Seq(Entries)
<1>1. hist \in Seq(Seq(Entries)) /\ Bottom \in 1..MaxDepth
  BY DEF WindowTyped, Bottom
<1>2. Bottom \in Nat /\ \A d \in 1..Bottom : hist[d] \in Seq(Entries)
  BY <1>1, LenProperties DEF Bottom
<1>3. MaxDepth \in Nat /\ TTL \in Nat
  BY KeysAssumption, WindowBoundsAssumption
<1> QED BY <1>1, <1>2, <1>3

\* One frame gets another history.
LEMMA FrameChanged ==
    ASSUME WindowTyped, NEW d \in 1..Len(hist), NEW g \in Seq(Entries),
           hist' = [hist EXCEPT ![d] = g]
    PROVE  /\ hist' \in Seq(Seq(Entries)) /\ Bottom' = Bottom /\ Len(hist') = Len(hist)
           /\ hist'[d] = g /\ \A e \in 1..Len(hist) : e # d => hist'[e] = hist[e]
BY ExceptSeq DEF WindowTyped, Bottom

LEMMA CallLogged ==
    ASSUME WindowTyped, NEW c \in Calls, ledger' = Append(ledger, c)
    PROVE  /\ ledger' \in Seq(Calls) /\ Succeeded \subseteq Succeeded'
           /\ ~ c.failed => c.key \in Succeeded'
<1>1. ledger \in Seq(Calls)
  BY DEF WindowTyped
<1>2. /\ ledger' \in Seq(Calls) /\ Len(ledger') = Len(ledger) + 1 /\ Len(ledger) \in Nat
      /\ \A i \in 1..Len(ledger) : ledger'[i] = ledger[i]
      /\ ledger'[Len(ledger) + 1] = c
      /\ DOMAIN ledger = 1..Len(ledger) /\ DOMAIN ledger' = 1..Len(ledger')
  BY <1>1, AppendProperties, LenProperties
<1>3. ASSUME NEW i \in DOMAIN ledger PROVE i \in DOMAIN ledger' /\ ledger'[i] = ledger[i]
  BY <1>2
<1>4. Len(ledger) + 1 \in DOMAIN ledger'
  BY <1>2
<1> QED BY <1>2, <1>3, <1>4 DEF Succeeded, Seeds

LEMMA CallsLogged ==
    ASSUME WindowTyped, NEW cs \in Seq(Calls), ledger' = ledger \o cs
    PROVE  /\ ledger' \in Seq(Calls) /\ Succeeded \subseteq Succeeded'
           /\ \A i \in DOMAIN cs : ~ cs[i].failed => cs[i].key \in Succeeded'
<1>1. ledger \in Seq(Calls)
  BY DEF WindowTyped
<1>2. /\ ledger' \in Seq(Calls) /\ Len(ledger') = Len(ledger) + Len(cs)
      /\ \A i \in 1..(Len(ledger) + Len(cs)) :
            ledger'[i] = IF i <= Len(ledger) THEN ledger[i] ELSE cs[i - Len(ledger)]
  BY <1>1, ConcatProperties
<1>3. /\ DOMAIN ledger = 1..Len(ledger) /\ DOMAIN ledger' = 1..Len(ledger') /\ DOMAIN cs = 1..Len(cs)
      /\ Len(ledger) \in Nat /\ Len(cs) \in Nat
  BY <1>1, <1>2, LenProperties
<1>4. ASSUME NEW i \in DOMAIN ledger PROVE i \in DOMAIN ledger' /\ ledger'[i] = ledger[i]
  BY <1>2, <1>3
<1>5. ASSUME NEW i \in DOMAIN cs
      PROVE  Len(ledger) + i \in DOMAIN ledger' /\ ledger'[Len(ledger) + i] = cs[i]
  BY <1>2, <1>3
<1> QED BY <1>2, <1>4, <1>5 DEF Succeeded, Seeds

LEMMA RecordedMore ==
    ASSUME NEW S, NEW T, S \subseteq T
    PROVE  \A h : Recorded(h, S) => Recorded(h, T)
BY DEF Recorded

\* What a frame that does not change keeps.
LEMMA FramesKept ==
    ASSUME HistoriesOK, Succeeded \subseteq Succeeded', NEW d \in 1..Bottom
    PROVE  Pointed(hist[d]) /\ Recorded(hist[d], Succeeded')
BY RecordedMore DEF HistoriesOK

\* Steps that leave the histories alone.
LEMMA HistoriesStay ==
    ASSUME HistoriesOK, hist' = hist, Succeeded \subseteq Succeeded',
           prompt' = prompt \/ prompt' \in {User, Nothing},
           pc' = "calls" => pc = "calls" /\ last' = last
    PROVE  HistoriesOK'
<1>1. Bottom' = Bottom
  BY DEF Bottom
<1>2. \A d \in 1..Bottom' : Pointed(hist'[d]) /\ Recorded(hist'[d], Succeeded')
  BY <1>1, FramesKept
<1>3. prompt'.body # "marker" /\ (prompt'.body = "full" => prompt'.key \in Succeeded')
  <2>1. User.body = "text" /\ Nothing.body = "text"
    BY EntriesMade
  <2> QED BY <2>1 DEF HistoriesOK
<1>4. pc' = "calls" => /\ hist'[Bottom'] # <<>>
                       /\ Pointed(Front(hist'[Bottom']))
                       /\ Last(hist'[Bottom']).body # "marker"
                       /\ last' = "task" => Bottom' < MaxDepth
  BY <1>1 DEF HistoriesOK
<1> QED BY <1>2, <1>3, <1>4 DEF HistoriesOK

\* Steps after which no call runs.
LEMMA HistoriesChange ==
    ASSUME \A d \in 1..Bottom' : Pointed(hist'[d]) /\ Recorded(hist'[d], Succeeded'),
           prompt'.body # "marker", prompt'.body = "full" => prompt'.key \in Succeeded',
           pc' # "calls"
    PROVE  HistoriesOK'
BY DEF HistoriesOK

LEMMA ClocksStay ==
    ASSUME WindowTyped, ClocksOK, UNCHANGED <<idle, spent, age>>,
           Bottom' \in 1..Bottom, pc' = "away" => pc = "away" /\ Bottom' = Bottom
    PROVE  ClocksOK'
BY BottomTyped DEF ClocksOK

LEMMA HeirStays ==
    ASSUME HeirOK, heir' = heir
    PROVE  HeirOK'
BY DEF HeirOK

LEMMA ClocksTyped ==
    ASSUME WindowTyped
    PROVE  /\ idle \in 0..TTL /\ TTL \in Nat
           /\ spent \in [1..MaxDepth -> 0..TTL] /\ age \in [1..MaxDepth -> 0..TTL]
           /\ copy \in [1..MaxDepth -> {"none", "running", "brief", "pruned"}]
           /\ \A d \in 1..MaxDepth : 0 <= age[d] /\ age[d] <= TTL
<1>1. /\ idle \in 0..TTL /\ TTL \in Nat
      /\ spent \in [1..MaxDepth -> 0..TTL] /\ age \in [1..MaxDepth -> 0..TTL]
      /\ copy \in [1..MaxDepth -> {"none", "running", "brief", "pruned"}]
  BY BottomTyped DEF WindowTyped
<1>2. \A d \in 1..MaxDepth : age[d] \in 0..TTL
  BY <1>1
<1> QED BY <1>1, <1>2

LEMMA LaterGrows ==
    ASSUME NEW t \in 0..TTL
    PROVE  Later(t) \in 0..TTL /\ \A s \in 0..TTL : s <= t => Later(s) <= Later(t)
BY KeysAssumption, WindowBoundsAssumption DEF Later

LEMMA ClocksTicked ==
    ASSUME WindowInv, Tick
    PROVE  WindowInv'
<1>a. WindowTyped /\ HistoriesOK /\ ClocksOK /\ HeirOK
  BY DEF WindowInv
<1>1. /\ idle' = Later(idle)
      /\ spent' = [d \in 1..MaxDepth |-> Later(spent[d])]
      /\ age' = [d \in 1..MaxDepth |-> Later(age[d])]
      /\ UNCHANGED <<caching, compacting, hist, mark, pc, prompt, todo, last, copy, breaking, ledger,
                     queue, messages, heir, requests, away>>
  BY DEF Tick, config, turnVars, world, counts
<1>2. /\ idle \in 0..TTL /\ \A d \in 1..MaxDepth : spent[d] \in 0..TTL /\ age[d] \in 0..TTL
  BY <1>a DEF WindowTyped
<1>3. WindowTyped'
  <2>1. idle' \in 0..TTL /\ spent' \in [1..MaxDepth -> 0..TTL] /\ age' \in [1..MaxDepth -> 0..TTL]
    BY <1>1, <1>2, LaterGrows
  <2> QED BY <1>a, <1>1, <2>1 DEF WindowTyped
<1>4. HistoriesOK'
  BY <1>a, <1>1, HistoriesStay DEF Succeeded
<1>5. ClocksOK'
  <2>1. \A d \in 1..MaxDepth : idle <= age[d]
    BY <1>a DEF ClocksOK
  <2>2. \A d \in 1..MaxDepth : idle' <= age'[d]
    BY <1>1, <1>2, <2>1, LaterGrows
  <2>3. Bottom' = Bottom /\ \A d \in 1..Bottom : d \in 1..MaxDepth
    BY <1>a, <1>1, BottomTyped DEF Bottom
  <2>4. \A d \in 1..Bottom : d < Bottom \/ pc = "away" => spent[d] <= age[d]
    BY <1>a DEF ClocksOK
  <2>5. \A d \in 1..Bottom : d < Bottom \/ pc = "away" => spent'[d] <= age'[d]
    BY <1>1, <1>2, <2>3, <2>4, LaterGrows
  <2> QED BY <1>1, <2>2, <2>3, <2>5 DEF ClocksOK
<1> QED BY <1>a, <1>1, <1>3, <1>4, <1>5, HeirStays DEF WindowInv

\* Steps of the driver and the world that leave the histories and the clocks alone.
LEMMA QuietTurnKept ==
    ASSUME WindowInv,
           \/ SubmitMessage \/ TakeInput \/ Cancelled \/ Finish
           \/ (\E d \in 1..MaxDepth : Draft(d)) \/ UNCHANGED windowVars
    PROVE  WindowInv' /\ UNCHANGED <<hist, mark, ledger, heir>>
<1>a. WindowTyped /\ HistoriesOK /\ ClocksOK /\ HeirOK
  BY DEF WindowInv
<1>1. /\ UNCHANGED <<caching, compacting, hist, mark, todo, last, idle, spent, age, ledger, heir>>
      /\ prompt' = prompt \/ prompt' \in {User, Nothing}
      /\ pc' = pc \/ pc' \in {"idle", "ready"}
      /\ \/ copy' = copy
         \/ \E d \in 1..MaxDepth, c \in {"brief", "pruned"} : copy' = [copy EXCEPT ![d] = c]
  BY DEF SubmitMessage, TakeInput, Cancelled, Finish, Draft, windowVars, config,
         turnVars, clocks, world, counts
<1>2. prompt' \in Entries
  BY <1>a, <1>1, EntriesMade DEF WindowTyped
<1>3. copy' \in [1..MaxDepth -> {"none", "running", "brief", "pruned"}]
  BY <1>a, <1>1 DEF WindowTyped
<1>4. pc' \in {"idle", "ready", "asked", "calls", "away", "done"}
  BY <1>a, <1>1 DEF WindowTyped
<1>5. WindowTyped'
  BY <1>a, <1>1, <1>2, <1>3, <1>4 DEF WindowTyped
<1>6. HistoriesOK'
  BY <1>a, <1>1, HistoriesStay DEF Succeeded
<1>7. ClocksOK'
  <2>1. Bottom' = Bottom /\ Bottom \in 1..Bottom
    BY <1>a, <1>1, BottomTyped DEF Bottom
  <2> QED BY <1>a, <1>1, <2>1, ClocksStay
<1> QED BY <1>a, <1>1, <1>5, <1>6, <1>7, HeirStays DEF WindowInv

LEMMA ChildWorksKept ==
    ASSUME WindowInv, ChildWorks
    PROVE  WindowInv' /\ UNCHANGED <<hist, mark, pc>>
<1>a. WindowTyped /\ HistoriesOK /\ ClocksOK /\ HeirOK
  BY DEF WindowInv
<1>1. /\ UNCHANGED <<caching, compacting, hist, mark, pc, prompt, todo, last, copy, spent, age, heir>>
      /\ idle' = 0
      /\ \/ ledger' = ledger
         \/ \E c \in Calls : ledger' = Append(ledger, c)
  BY DEF ChildWorks, config, turnVars, Calls
<1>2. ledger' \in Seq(Calls) /\ Succeeded \subseteq Succeeded'
  <2>1. CASE ledger' = ledger
    BY <1>a, <2>1 DEF WindowTyped, Succeeded
  <2>2. ASSUME NEW c \in Calls, ledger' = Append(ledger, c)
        PROVE  ledger' \in Seq(Calls) /\ Succeeded \subseteq Succeeded'
    BY <1>a, <2>2, CallLogged
  <2> QED BY <1>1, <2>1, <2>2
<1>3. 0 \in 0..TTL
  BY KeysAssumption, WindowBoundsAssumption
<1>4. WindowTyped'
  BY <1>a, <1>1, <1>2, <1>3 DEF WindowTyped
<1>5. HistoriesOK'
  BY <1>a, <1>1, <1>2, HistoriesStay
<1>6. ClocksOK'
  <2>1. Bottom' = Bottom
    BY <1>1 DEF Bottom
  <2>2. \A d \in 1..MaxDepth : 0 <= age[d]
    BY <1>a, ClocksTyped
  <2> QED BY <1>a, <1>1, <2>1, <2>2 DEF ClocksOK
<1> QED BY <1>a, <1>1, <1>4, <1>5, <1>6, HeirStays DEF WindowInv

LEMMA DelegateKept ==
    ASSUME WindowInv, Delegate
    PROVE  WindowInv' /\ UNCHANGED <<hist, mark>> /\ pc = "calls" /\ pc' = "away"
<1>a. WindowTyped /\ HistoriesOK /\ ClocksOK /\ HeirOK
  BY DEF WindowInv
<1>1. /\ UNCHANGED <<caching, compacting, hist, mark, prompt, todo, last, idle, age, ledger, heir>>
      /\ pc = "calls" /\ pc' = "away"
      /\ copy' = [copy EXCEPT ![Len(hist)] = "running"]
      /\ spent' = [spent EXCEPT ![Len(hist)] = 0]
  BY DEF Delegate, Paused, config, world
<1>2. Bottom \in 1..MaxDepth /\ Bottom \in Nat /\ TTL \in Nat /\ Bottom' = Bottom /\ Bottom = Len(hist)
  BY <1>a, <1>1, BottomTyped DEF Bottom
<1>3. WindowTyped'
  <2>1. copy' \in [1..MaxDepth -> {"none", "running", "brief", "pruned"}]
    BY <1>a, <1>1, <1>2, ClocksTyped
  <2>2. spent' \in [1..MaxDepth -> 0..TTL]
    BY <1>a, <1>1, <1>2, ClocksTyped
  <2> QED BY <1>a, <1>1, <2>1, <2>2 DEF WindowTyped
<1>4. HistoriesOK'
  BY <1>a, <1>1, HistoriesStay DEF Succeeded
<1>5. ClocksOK'
  <2>1. \A d \in 1..MaxDepth : idle <= age[d] /\ 0 <= age[d]
    BY <1>a, ClocksTyped DEF ClocksOK
  <2>2. \A d \in 1..Bottom : spent'[d] <= age[d]
    <3>1. ASSUME NEW d \in 1..Bottom PROVE spent'[d] = (IF d = Bottom THEN 0 ELSE spent[d]) /\ d \in 1..MaxDepth
      <4>1. d \in 1..MaxDepth
        BY <1>a, BottomTyped
      <4>2. spent \in [1..MaxDepth -> 0..TTL] /\ spent' = [spent EXCEPT ![Bottom] = 0]
        BY <1>a, <1>1, <1>2, ClocksTyped
      <4> QED BY <4>1, <4>2
    <3>2. \A d \in 1..Bottom : d # Bottom => d < Bottom
      BY <1>2
    <3> QED BY <1>a, <2>1, <3>1, <3>2 DEF ClocksOK
  <2> QED BY <1>1, <1>2, <2>1, <2>2 DEF ClocksOK
<1> QED BY <1>a, <1>1, <1>3, <1>4, <1>5, HeirStays DEF WindowInv

LEMMA SpawnKept ==
    ASSUME WindowInv, Spawn
    PROVE  /\ WindowInv' /\ UNCHANGED mark /\ pc = "calls" /\ pc' = "ready"
           /\ Bottom' = Bottom + 1 /\ hist'[Bottom + 1] = <<>>
           /\ \A d \in 1..Bottom : hist'[d] = hist[d]
<1>a. WindowTyped /\ HistoriesOK /\ ClocksOK /\ HeirOK
  BY DEF WindowInv
<1>1. /\ UNCHANGED <<caching, compacting, mark, todo, last, idle, ledger, heir>>
      /\ pc = "calls" /\ pc' = "ready" /\ last = "task"
      /\ copy' = [copy EXCEPT ![Len(hist)] = "running"]
      /\ spent' = [spent EXCEPT ![Len(hist)] = 0]
      /\ hist' = Append(hist, <<>>) /\ prompt' = User
      /\ age' = [age EXCEPT ![Len(hist) + 1] = TTL]
  BY DEF Spawn, Paused, config, world
<1>2. /\ Bottom \in 1..MaxDepth /\ Bottom \in Nat /\ TTL \in Nat /\ Bottom = Len(hist)
      /\ MaxDepth \in Nat /\ Bottom < MaxDepth
  BY <1>a, <1>1, BottomTyped DEF Bottom, HistoriesOK
<1>3. /\ hist' \in Seq(Seq(Entries)) /\ Bottom' = Bottom + 1 /\ hist'[Bottom + 1] = <<>>
      /\ \A d \in 1..Bottom : hist'[d] = hist[d]
  <2>1. <<>> \in Seq(Entries) /\ hist \in Seq(Seq(Entries))
    BY <1>a DEF WindowTyped
  <2> QED BY <1>1, <1>2, <2>1, AppendProperties DEF Bottom
<1>4. /\ copy' \in [1..MaxDepth -> {"none", "running", "brief", "pruned"}]
      /\ spent' \in [1..MaxDepth -> 0..TTL] /\ age' \in [1..MaxDepth -> 0..TTL]
      /\ Bottom' \in 1..MaxDepth /\ TTL \in 0..TTL
  <2>1. TTL \in 0..TTL /\ 0 \in 0..TTL /\ Bottom' \in 1..MaxDepth /\ Bottom + 1 \in 1..MaxDepth
    BY <1>2, <1>3
  <2>2. copy' \in [1..MaxDepth -> {"none", "running", "brief", "pruned"}]
    BY <1>a, <1>1, ClocksTyped
  <2>3. spent' \in [1..MaxDepth -> 0..TTL]
    BY <1>a, <1>1, <2>1, ClocksTyped
  <2>4. age' \in [1..MaxDepth -> 0..TTL]
    BY <1>a, <1>1, <2>1, ClocksTyped
  <2> QED BY <2>1, <2>2, <2>3, <2>4
<1>5. WindowTyped'
  BY <1>a, <1>1, <1>3, <1>4, EntriesMade DEF WindowTyped, Bottom
<1>6. HistoriesOK'
  <2>1. Pointed(<<>>) /\ Recorded(<<>>, Succeeded)
    BY DEF Pointed, Recorded
  <2>2. \A d \in 1..Bottom' : d \in 1..Bottom \/ d = Bottom + 1
    BY <1>2, <1>3
  <2>3. Succeeded' = Succeeded
    BY <1>1 DEF Succeeded
  <2>4. \A d \in 1..Bottom' : Pointed(hist'[d]) /\ Recorded(hist'[d], Succeeded')
    BY <1>a, <1>3, <2>1, <2>2, <2>3 DEF HistoriesOK
  <2>5. prompt'.body = "text"
    BY <1>1, EntriesMade
  <2> QED BY <1>1, <2>4, <2>5, HistoriesChange
<1>7. ClocksOK'
  <2>1. \A d \in 1..MaxDepth : idle <= age[d] /\ 0 <= age[d] /\ idle <= TTL
    BY <1>a, ClocksTyped DEF ClocksOK
  <2>2. \A d \in 1..MaxDepth : age'[d] = IF d = Bottom + 1 THEN TTL ELSE age[d]
    BY <1>a, <1>1, <1>2, ClocksTyped
  <2>3. \A d \in 1..MaxDepth : idle <= age'[d]
    BY <2>1, <2>2
  <2>4. ASSUME NEW d \in 1..Bottom PROVE spent'[d] <= age'[d]
    <3>1. spent'[d] = (IF d = Bottom THEN 0 ELSE spent[d]) /\ d \in 1..MaxDepth /\ age'[d] = age[d]
      BY <1>a, <1>1, <1>2, <2>2, ClocksTyped
    <3>2. d # Bottom => d < Bottom
      BY <1>2
    <3> QED BY <1>a, <2>1, <3>1, <3>2 DEF ClocksOK
  <2>5. \A d \in 1..Bottom' : d < Bottom' \/ pc' = "away" => d \in 1..Bottom
    BY <1>1, <1>2, <1>3
  <2> QED BY <1>1, <2>3, <2>4, <2>5 DEF ClocksOK
<1> QED BY <1>a, <1>1, <1>3, <1>5, <1>6, <1>7, HeirStays DEF WindowInv

\* The top frame gets history g, and no call runs afterwards, or some do.
LEMMA TopKept ==
    ASSUME WindowInv, NEW d \in 1..Bottom, d = Bottom, NEW g \in Seq(Entries),
           hist' = [hist EXCEPT ![d] = g], Succeeded \subseteq Succeeded',
           Pointed(g), Recorded(g, Succeeded'),
           prompt'.body # "marker", prompt'.body = "full" => prompt'.key \in Succeeded',
           pc' = "calls" => /\ g # <<>> /\ Pointed(Front(g)) /\ Last(g).body # "marker"
                            /\ last' = "task" => Bottom < MaxDepth
    PROVE  HistoriesOK' /\ hist' \in Seq(Seq(Entries)) /\ Bottom' = Bottom
<1>a. WindowTyped /\ HistoriesOK /\ Bottom = Len(hist)
  BY DEF WindowInv, Bottom
<1>1. /\ hist' \in Seq(Seq(Entries)) /\ Bottom' = Bottom /\ hist'[d] = g
      /\ \A e \in 1..Bottom : e # d => hist'[e] = hist[e]
  BY <1>a, FrameChanged
<1>2. \A e \in 1..Bottom : Pointed(hist'[e]) /\ Recorded(hist'[e], Succeeded')
  BY <1>a, <1>1, FramesKept
<1> QED BY <1>1, <1>2 DEF HistoriesOK

\* What maybe_auto_prune does.
LEMMA AutoPruneDoes ==
    ASSUME WindowTyped, NEW full \in BOOLEAN, AutoPrune(full),
           NEW d \in 1..Bottom, d = Bottom
    PROVE  \/ mark[d] = Len(hist[d]) /\ UNCHANGED <<hist, mark, breaking>>
           \/ /\ mark' = [mark EXCEPT ![d] = Len(hist[d])] /\ hist' = hist
              /\ Superseded(hist[d]) = {} /\ breaking' = breaking
           \/ /\ mark' = [mark EXCEPT ![d] = Len(hist[d])]
              /\ hist' = [hist EXCEPT ![d] = Pruned(hist[d])]
              /\ breaking' = ~ Cold(idle)
           \/ /\ Superseded(hist[d]) # {} /\ ~ Cold(idle)
              /\ UNCHANGED <<hist, mark, breaking>>
<1>1. Top = hist[d] /\ Len(hist) = d
  BY DEF Top, Bottom
<1>2. CASE mark[d] = Len(hist[d])
  BY <1>1, <1>2 DEF AutoPrune
<1> DEFINE due == Superseded(hist[d]) # {} /\ (Cold(idle) \/ full)
<1>3. CASE mark[d] # Len(hist[d])
  <2>1. /\ hist' = IF due THEN [hist EXCEPT ![d] = Pruned(@)] ELSE hist
        /\ mark' = IF due \/ Superseded(hist[d]) = {} THEN [mark EXCEPT ![d] = Len(hist[d])] ELSE mark
        /\ breaking' = IF due THEN ~ Cold(idle) ELSE breaking
    BY <1>1, <1>3 DEF AutoPrune
  <2>2. [hist EXCEPT ![d] = Pruned(@)] = [hist EXCEPT ![d] = Pruned(hist[d])]
    OBVIOUS
  <2>3. CASE due
    BY <2>1, <2>2, <2>3
  <2>4. CASE ~ due
    BY <2>1, <2>4
  <2> QED BY <2>3, <2>4
<1> QED BY <1>2, <1>3

LEMMA RequestKept ==
    ASSUME WindowInv, Request
    PROVE  WindowInv'
<1>a. WindowTyped /\ HistoriesOK /\ ClocksOK /\ HeirOK
  BY DEF WindowInv
<1>b. PICK d \in 1..Bottom : d = Bottom
  BY <1>a, BottomTyped
<1>c. /\ Bottom \in 1..MaxDepth /\ Bottom \in Nat /\ Bottom = Len(hist) /\ hist[d] \in Seq(Entries)
      /\ d \in 1..MaxDepth /\ Len(hist[d]) \in Int
  BY <1>a, <1>b, BottomTyped, HistorySeq DEF Bottom
<1>1. /\ UNCHANGED <<caching, compacting, todo, last, copy, spent, ledger, heir>>
      /\ idle' = 0 /\ pc = "ready"
      /\ \/ pc' = "asked" /\ age' = [age EXCEPT ![d] = 0] /\ prompt' = prompt
         \/ pc' = "idle" /\ prompt' = Nothing /\ age' = age
  BY <1>b, <1>c DEF Request, config, world
<1>2. PICK full \in BOOLEAN : AutoPrune(full)
  BY DEF Request
<1>3. /\ hist' = hist \/ hist' = [hist EXCEPT ![d] = Pruned(hist[d])]
      /\ mark' = mark \/ mark' = [mark EXCEPT ![d] = Len(hist[d])]
  BY <1>a, <1>b, <1>2, AutoPruneDoes
<1>4. Succeeded' = Succeeded
  BY <1>1 DEF Succeeded
<1>5. /\ prompt'.body # "marker" /\ (prompt'.body = "full" => prompt'.key \in Succeeded)
      /\ prompt' \in Entries
  <2>1. Nothing.body = "text" /\ Nothing \in Entries
    BY EntriesMade
  <2> QED BY <1>a, <1>1, <2>1 DEF HistoriesOK, WindowTyped
<1>6. HistoriesOK' /\ hist' \in Seq(Seq(Entries)) /\ Bottom' = Bottom
  <2>1. CASE hist' = hist
    <3>1. Bottom' = Bottom
      BY <2>1 DEF Bottom
    <3>2. hist' \in Seq(Seq(Entries))
      BY <1>a, <2>1 DEF WindowTyped
    <3>3. \A e \in 1..Bottom' : Pointed(hist'[e]) /\ Recorded(hist'[e], Succeeded')
      BY <1>a, <1>4, <2>1, <3>1 DEF HistoriesOK
    <3>4. HistoriesOK'
      BY <1>1, <1>4, <1>5, <3>3, HistoriesChange
    <3> QED BY <3>1, <3>2, <3>4
  <2>2. CASE hist' = [hist EXCEPT ![d] = Pruned(hist[d])]
    <3>1. Pointed(hist[d]) /\ Recorded(hist[d], Succeeded)
      BY <1>a, <1>b DEF HistoriesOK
    <3>2. /\ Pruned(hist[d]) \in Seq(Entries) /\ Pointed(Pruned(hist[d]))
          /\ Recorded(Pruned(hist[d]), Succeeded)
      BY <1>c, <3>1, PruneKeeps
    <3> QED BY <1>b, <1>1, <1>4, <1>5, <2>2, <3>2, TopKept
  <2> QED BY <1>3, <2>1, <2>2
<1>7. ClocksOK'
  <2>1. \A e \in 1..MaxDepth : 0 <= age[e] /\ idle <= age[e]
    BY <1>a, ClocksTyped DEF ClocksOK
  <2>2. \A e \in 1..MaxDepth : age'[e] = age[e] \/ age'[e] = 0
    BY <1>a, <1>1, ClocksTyped
  <2>3. \A e \in 1..Bottom : e # d => e < Bottom /\ age'[e] = age[e]
    <3>1. \A e \in 1..Bottom : e # d => e < Bottom
      BY <1>b, <1>c
    <3>2. age' = [age EXCEPT ![d] = 0] \/ age' = age
      BY <1>1
    <3>3. \A e \in 1..MaxDepth : e # d => age'[e] = age[e]
      BY <1>a, <3>2, ClocksTyped
    <3>4. \A e \in 1..Bottom : e \in 1..MaxDepth
      BY <1>a, BottomTyped
    <3> QED BY <3>1, <3>3, <3>4
  <2>4. \A e \in 1..Bottom : e < Bottom => spent[e] <= age[e]
    BY <1>a DEF ClocksOK
  <2>5. 0 <= 0 /\ ~ (d < Bottom)
    BY <1>b, <1>c
  <2> QED BY <1>1, <1>6, <2>1, <2>2, <2>3, <2>4, <2>5 DEF ClocksOK
<1>8. WindowTyped'
  <2>1. mark' \in [1..MaxDepth -> Int]
    BY <1>a, <1>c, <1>3 DEF WindowTyped
  <2>2. age' \in [1..MaxDepth -> 0..TTL] /\ idle' \in 0..TTL
    BY <1>a, <1>1, ClocksTyped
  <2>3. Len(hist') \in 1..MaxDepth
    BY <1>6, <1>c DEF Bottom
  <2> QED BY <1>a, <1>1, <1>5, <1>6, <2>1, <2>2, <2>3 DEF WindowTyped
<1> QED BY <1>a, <1>1, <1>6, <1>7, <1>8, HeirStays DEF WindowInv

\* h and two entries that are no results.
LEMMA TwoAppended ==
    ASSUME NEW h \in Seq(Entries), NEW p \in Entries, NEW q \in Entries
    PROVE  /\ h \o <<p, q>> \in Seq(Entries) /\ Len(h \o <<p, q>>) = Len(h) + 2
           /\ \A i \in 1..Len(h) : (h \o <<p, q>>)[i] = h[i]
           /\ (h \o <<p, q>>)[Len(h) + 1] = p /\ (h \o <<p, q>>)[Len(h) + 2] = q
<1>1. <<p, q>> \in Seq(Entries) /\ Len(<<p, q>>) = 2 /\ <<p, q>>[1] = p /\ <<p, q>>[2] = q
  OBVIOUS
<1>2. Len(h) \in Nat
  BY HistorySeq
<1>3. /\ h \o <<p, q>> \in Seq(Entries) /\ Len(h \o <<p, q>>) = Len(h) + Len(<<p, q>>)
      /\ \A i \in 1..(Len(h) + Len(<<p, q>>)) :
            (h \o <<p, q>>)[i] = IF i <= Len(h) THEN h[i] ELSE <<p, q>>[i - Len(h)]
  BY <1>1, Joined
<1> QED BY <1>1, <1>2, <1>3

LEMMA OneAppended ==
    ASSUME NEW h \in Seq(Entries), NEW p \in Entries
    PROVE  /\ h \o <<p>> \in Seq(Entries) /\ Len(h \o <<p>>) = Len(h) + 1
           /\ \A i \in 1..Len(h) : (h \o <<p>>)[i] = h[i]
           /\ (h \o <<p>>)[Len(h) + 1] = p
<1>1. <<p>> \in Seq(Entries) /\ Len(<<p>>) = 1 /\ <<p>>[1] = p
  OBVIOUS
<1>2. Len(h) \in Nat
  BY HistorySeq
<1>3. /\ h \o <<p>> \in Seq(Entries) /\ Len(h \o <<p>>) = Len(h) + Len(<<p>>)
      /\ \A i \in 1..(Len(h) + Len(<<p>>)) :
            (h \o <<p>>)[i] = IF i <= Len(h) THEN h[i] ELSE <<p>>[i - Len(h)]
  BY <1>1, Joined
<1> QED BY <1>1, <1>2, <1>3

LEMMA RespondKept ==
    ASSUME WindowInv, Respond
    PROVE  /\ WindowInv' /\ UNCHANGED mark /\ pc = "asked" /\ pc' \in {"done", "calls"}
           /\ Bottom' = Bottom /\ \A e \in 1..Bottom : e # Bottom => hist'[e] = hist[e]
           /\ hist'[Bottom] \in Seq(Entries) /\ Len(hist'[Bottom]) = Len(hist[Bottom]) + 2
           /\ \A i \in 1..Len(hist[Bottom]) : hist'[Bottom][i] = hist[Bottom][i]
           /\ \A i \in (Len(hist[Bottom]) + 1)..Len(hist'[Bottom]) :
                 hist'[Bottom][i].body # "marker"
<1>a. WindowTyped /\ HistoriesOK /\ ClocksOK /\ HeirOK
  BY DEF WindowInv
<1>b. PICK d \in 1..Bottom : d = Bottom
  BY <1>a, BottomTyped
<1>c. /\ Bottom \in 1..MaxDepth /\ Bottom \in Nat /\ Bottom = Len(hist) /\ hist[d] \in Seq(Entries)
      /\ d \in 1..MaxDepth /\ Len(hist[d]) \in Nat /\ prompt \in Entries
  BY <1>a, <1>b, BottomTyped, HistorySeq DEF Bottom, WindowTyped
<1>d. PICK g : g = hist[d] \o <<prompt, Turn>>
  OBVIOUS
<1>1. /\ UNCHANGED <<caching, compacting, mark, copy, idle, spent, age, ledger, heir>>
      /\ pc = "asked" /\ pc' \in {"done", "calls"} /\ prompt' = Nothing
      /\ todo' \in Batches /\ last' \in {"none", "explore", "task"}
      /\ last' = "task" => Len(hist) < MaxDepth
      /\ hist' = [hist EXCEPT ![d] = g]
  BY <1>b, <1>c, <1>d DEF Respond, Pushed, config, clocks
<1>2. /\ Turn \in Entries /\ Turn.body = "text"
      /\ Nothing \in Entries /\ Nothing.body = "text"
  BY EntriesMade
<1>3. /\ g \in Seq(Entries) /\ Len(g) = Len(hist[d]) + 2
      /\ \A i \in 1..Len(hist[d]) : g[i] = hist[d][i]
      /\ g[Len(hist[d]) + 1] = prompt /\ g[Len(hist[d]) + 2] = Turn
  BY <1>c, <1>d, <1>2, TwoAppended
<1>4. prompt.body # "marker" /\ (prompt.body = "full" => prompt.key \in Succeeded)
      /\ Pointed(hist[d]) /\ Recorded(hist[d], Succeeded)
  BY <1>a, <1>b DEF HistoriesOK
<1>5. Succeeded' = Succeeded
  BY <1>1 DEF Succeeded
<1>6. ASSUME NEW i \in (Len(hist[d]) + 1)..Len(g)
      PROVE  g[i].body # "marker" /\ (g[i].body = "full" => g[i].key \in Succeeded)
  <2>1. i = Len(hist[d]) + 1 \/ i = Len(hist[d]) + 2
    BY <1>c, <1>3
  <2> QED BY <1>2, <1>3, <1>4, <2>1
<1>7. Pointed(g)
  <2>1. Len(hist[d]) <= Len(g)
    BY <1>c, <1>3
  <2> QED BY <1>c, <1>3, <1>4, <1>6, <2>1, Grown
<1>8. Recorded(g, Succeeded)
  <2>1. \A i \in DOMAIN g : i \in 1..Len(hist[d]) \/ i \in (Len(hist[d]) + 1)..Len(g)
    BY <1>c, <1>3, HistorySeq
  <2>2. DOMAIN hist[d] = 1..Len(hist[d])
    BY <1>c, HistorySeq
  <2> QED BY <1>3, <1>4, <1>6, <2>1, <2>2 DEF Recorded
<1>9. g # <<>> /\ Pointed(Front(g)) /\ Last(g).body # "marker"
  <2>1. g # <<>>
    BY <1>c, <1>3
  <2>2. /\ Front(g) \in Seq(Entries) /\ Len(Front(g)) = Len(g) - 1
        /\ \A i \in 1..(Len(g) - 1) : Front(g)[i] = g[i]
        /\ Last(g) = g[Len(g)]
    BY <1>3, <2>1, Shortened
  <2>3. Last(g) = Turn
    BY <1>3, <2>2
  <2>4. /\ Len(hist[d]) <= Len(Front(g))
        /\ \A i \in 1..Len(hist[d]) : Front(g)[i] = hist[d][i]
        /\ \A i \in (Len(hist[d]) + 1)..Len(Front(g)) :
              i \in (Len(hist[d]) + 1)..Len(g) /\ Front(g)[i] = g[i]
    BY <1>c, <1>3, <2>2
  <2>5. Pointed(Front(g))
    BY <1>c, <1>4, <1>6, <2>2, <2>4, Grown
  <2> QED BY <1>2, <2>1, <2>3, <2>5
<1>10. HistoriesOK' /\ hist' \in Seq(Seq(Entries)) /\ Bottom' = Bottom
  <2>1. pc' = "calls" => /\ g # <<>> /\ Pointed(Front(g)) /\ Last(g).body # "marker"
                         /\ last' = "task" => Bottom < MaxDepth
    BY <1>c, <1>1, <1>9
  <2>2. prompt'.body # "marker" /\ (prompt'.body = "full" => prompt'.key \in Succeeded')
    BY <1>1, <1>2
  <2> QED BY <1>b, <1>1, <1>3, <1>5, <1>7, <1>8, <2>1, <2>2, TopKept
<1>11. ClocksOK'
  <2>1. Bottom' \in 1..Bottom
    BY <1>b, <1>10
  <2> QED BY <1>a, <1>1, <2>1, ClocksStay
<1>12. WindowTyped'
  <2>1. todo' \in Seq(Keys)
    BY <1>1, KeysAssumption, WindowBoundsAssumption
  <2>2. Len(hist') \in 1..MaxDepth
    BY <1>c, <1>10 DEF Bottom
  <2>3. pc' \in {"idle", "ready", "asked", "calls", "away", "done"}
    BY <1>1
  <2> QED BY <1>a, <1>1, <1>2, <1>10, <2>1, <2>2, <2>3 DEF WindowTyped
<1>13. hist'[d] = g /\ \A e \in 1..Bottom : e # d => hist'[e] = hist[e]
  BY <1>a, <1>b, <1>c, <1>1, <1>3, FrameChanged
<1>14. WindowInv'
  BY <1>a, <1>1, <1>10, <1>11, <1>12, HeirStays DEF WindowInv
<1> QED BY <1>b, <1>1, <1>3, <1>6, <1>10, <1>13, <1>14

LEMMA ReadKept ==
    ASSUME WindowInv, Read
    PROVE  /\ WindowInv' /\ UNCHANGED <<mark, pc>> /\ pc = "calls"
           /\ Bottom' = Bottom /\ \A e \in 1..Bottom : e # Bottom => hist'[e] = hist[e]
           /\ hist'[Bottom] \in Seq(Entries) /\ Len(hist'[Bottom]) = Len(hist[Bottom]) + 1
           /\ \A i \in 1..Len(hist[Bottom]) : hist'[Bottom][i] = hist[Bottom][i]
           /\ \A i \in (Len(hist[Bottom]) + 1)..Len(hist'[Bottom]) :
                 hist'[Bottom][i].body # "marker"
<1>a. WindowTyped /\ HistoriesOK /\ ClocksOK /\ HeirOK
  BY DEF WindowInv
<1>b. PICK d \in 1..Bottom : d = Bottom
  BY <1>a, BottomTyped
<1>c. /\ Bottom \in 1..MaxDepth /\ Bottom \in Nat /\ Bottom = Len(hist) /\ hist[d] \in Seq(Entries)
      /\ d \in 1..MaxDepth /\ Len(hist[d]) \in Nat /\ todo \in Seq(Keys)
  BY <1>a, <1>b, BottomTyped, HistorySeq DEF Bottom, WindowTyped
<1>d. PICK failed \in BOOLEAN :
        /\ hist' = Pushed(<<Result(Head(todo), IF failed THEN "error" ELSE "full")>>)
        /\ ledger' = Append(ledger, [key |-> Head(todo), failed |-> failed])
  BY DEF Read
<1>e. PICK r : r = Result(Head(todo), IF failed THEN "error" ELSE "full")
  OBVIOUS
<1>f. PICK c : c = [key |-> Head(todo), failed |-> failed]
  OBVIOUS
<1>g. PICK g : g = hist[d] \o <<r>>
  OBVIOUS
<1>1. /\ UNCHANGED <<caching, compacting, mark, pc, prompt, last, copy, idle, spent, age, heir>>
      /\ pc = "calls" /\ todo # <<>> /\ todo' = Tail(todo)
      /\ hist' = [hist EXCEPT ![d] = g] /\ ledger' = Append(ledger, c)
  BY <1>b, <1>c, <1>d, <1>e, <1>f, <1>g DEF Read, Pushed, config, clocks
<1>2. Head(todo) \in Keys /\ Tail(todo) \in Seq(Keys)
  BY <1>c, <1>1, HeadTailProperties
<1>3. /\ c \in Calls /\ c.key = Head(todo) /\ c.failed = failed
      /\ r \in Entries /\ r.key = Head(todo) /\ r.body = IF failed THEN "error" ELSE "full"
  BY <1>e, <1>f, <1>2, EntriesMade DEF Calls, Bodies
<1>4. /\ ledger' \in Seq(Calls) /\ Succeeded \subseteq Succeeded'
      /\ ~ failed => Head(todo) \in Succeeded'
  BY <1>a, <1>1, <1>3, CallLogged
<1>5. /\ g \in Seq(Entries) /\ Len(g) = Len(hist[d]) + 1
      /\ \A i \in 1..Len(hist[d]) : g[i] = hist[d][i]
      /\ g[Len(hist[d]) + 1] = r
  BY <1>c, <1>g, <1>3, OneAppended
<1>6. /\ prompt.body # "marker" /\ (prompt.body = "full" => prompt.key \in Succeeded)
      /\ Pointed(hist[d]) /\ Recorded(hist[d], Succeeded)
      /\ last = "task" => Bottom < MaxDepth
  BY <1>a, <1>b, <1>1 DEF HistoriesOK
<1>7. ASSUME NEW i \in (Len(hist[d]) + 1)..Len(g)
      PROVE  g[i].body # "marker" /\ (g[i].body = "full" => g[i].key \in Succeeded')
  <2>1. i = Len(hist[d]) + 1
    BY <1>c, <1>5
  <2> QED BY <1>3, <1>4, <1>5, <2>1
<1>8. Pointed(g)
  <2>1. Len(hist[d]) <= Len(g)
    BY <1>c, <1>5
  <2> QED BY <1>c, <1>5, <1>6, <1>7, <2>1, Grown
<1>9. Recorded(g, Succeeded')
  <2>1. \A i \in DOMAIN g : i \in 1..Len(hist[d]) \/ i \in (Len(hist[d]) + 1)..Len(g)
    BY <1>c, <1>5, HistorySeq
  <2>2. DOMAIN hist[d] = 1..Len(hist[d])
    BY <1>c, HistorySeq
  <2> QED BY <1>4, <1>5, <1>6, <1>7, <2>1, <2>2 DEF Recorded
<1>10. g # <<>> /\ Pointed(Front(g)) /\ Last(g).body # "marker"
  <2>1. g # <<>>
    BY <1>c, <1>5
  <2>2. /\ Front(g) \in Seq(Entries) /\ Len(Front(g)) = Len(g) - 1
        /\ \A i \in 1..(Len(g) - 1) : Front(g)[i] = g[i]
        /\ Last(g) = g[Len(g)]
    BY <1>5, <2>1, Shortened
  <2>3. Last(g) = r
    BY <1>5, <2>2
  <2>4. /\ Len(hist[d]) <= Len(Front(g))
        /\ \A i \in 1..Len(hist[d]) : Front(g)[i] = hist[d][i]
        /\ \A i \in (Len(hist[d]) + 1)..Len(Front(g)) : FALSE
    BY <1>c, <1>5, <2>2
  <2>5. Pointed(Front(g))
    BY <1>c, <1>6, <2>2, <2>4, Grown
  <2> QED BY <1>3, <2>1, <2>3, <2>5
<1>11. HistoriesOK' /\ hist' \in Seq(Seq(Entries)) /\ Bottom' = Bottom
  <2>1. prompt'.body # "marker" /\ (prompt'.body = "full" => prompt'.key \in Succeeded')
    BY <1>1, <1>4, <1>6
  <2> QED BY <1>b, <1>1, <1>4, <1>5, <1>6, <1>8, <1>9, <1>10, <2>1, TopKept
<1>12. ClocksOK'
  <2>1. Bottom' \in 1..Bottom
    BY <1>b, <1>11
  <2> QED BY <1>a, <1>1, <2>1, ClocksStay
<1>13. WindowTyped'
  <2>1. Len(hist') \in 1..MaxDepth
    BY <1>c, <1>11 DEF Bottom
  <2> QED BY <1>a, <1>1, <1>2, <1>4, <1>11, <2>1 DEF WindowTyped
<1>14. hist'[d] = g /\ \A e \in 1..Bottom : e # d => hist'[e] = hist[e]
  BY <1>a, <1>b, <1>c, <1>1, <1>5, FrameChanged
<1>15. WindowInv'
  BY <1>a, <1>1, <1>11, <1>12, <1>13, HeirStays DEF WindowInv
<1> QED BY <1>b, <1>1, <1>5, <1>7, <1>11, <1>14, <1>15

LEMMA ContinueKept ==
    ASSUME WindowInv, Continue
    PROVE  /\ WindowInv' /\ UNCHANGED mark /\ pc = "calls" /\ pc' = "ready"
           /\ Bottom' = Bottom /\ \A e \in 1..Bottom : e # Bottom => hist'[e] = hist[e]
           /\ \/ hist'[Bottom] = Front(hist[Bottom]) /\ hist[Bottom] # <<>>
              \/ hist'[Bottom] = hist[Bottom]
<1>a. WindowTyped /\ HistoriesOK /\ ClocksOK /\ HeirOK
  BY DEF WindowInv
<1>b. PICK d \in 1..Bottom : d = Bottom
  BY <1>a, BottomTyped
<1>c. /\ Bottom \in 1..MaxDepth /\ Bottom \in Nat /\ Bottom = Len(hist) /\ hist[d] \in Seq(Entries)
      /\ d \in 1..MaxDepth /\ Len(hist[d]) \in Nat
  BY <1>a, <1>b, BottomTyped, HistorySeq DEF Bottom
<1>1. /\ UNCHANGED <<caching, compacting, mark, todo, last, copy, idle, spent, age, ledger, heir>>
      /\ pc = "calls" /\ pc' = "ready"
      /\ \/ hist' = [hist EXCEPT ![d] = Front(hist[d])] /\ prompt' = Last(hist[d])
         \/ hist' = hist /\ prompt' = User
  BY <1>b, <1>c DEF Continue, Top, config, clocks
<1>2. /\ hist[d] # <<>> /\ Pointed(Front(hist[d])) /\ Last(hist[d]).body # "marker"
      /\ Pointed(hist[d]) /\ Recorded(hist[d], Succeeded)
  BY <1>a, <1>b, <1>1 DEF HistoriesOK
<1>3. /\ Front(hist[d]) \in Seq(Entries) /\ Len(hist[d]) > 0
      /\ Last(hist[d]) \in Entries /\ Last(hist[d]) = hist[d][Len(hist[d])]
      /\ Recorded(Front(hist[d]), Succeeded)
  BY <1>c, <1>2, Shortened
<1>4. Last(hist[d]).body = "full" => Last(hist[d]).key \in Succeeded
  <2>1. Len(hist[d]) \in DOMAIN hist[d]
    BY <1>c, <1>3, HistorySeq
  <2> QED BY <1>2, <1>3, <2>1 DEF Recorded
<1>5. Succeeded' = Succeeded
  BY <1>1 DEF Succeeded
<1>6. User \in Entries /\ User.body = "text"
  BY EntriesMade
<1>7. /\ prompt' \in Entries /\ prompt'.body # "marker"
      /\ prompt'.body = "full" => prompt'.key \in Succeeded'
  BY <1>1, <1>2, <1>3, <1>4, <1>5, <1>6
<1>8. /\ HistoriesOK' /\ hist' \in Seq(Seq(Entries)) /\ Bottom' = Bottom
      /\ \A e \in 1..Bottom : e # d => hist'[e] = hist[e]
      /\ hist'[d] \in {Front(hist[d]), hist[d]}
  <2>1. CASE hist' = [hist EXCEPT ![d] = Front(hist[d])]
    <3>1. /\ HistoriesOK' /\ hist' \in Seq(Seq(Entries)) /\ Bottom' = Bottom
      BY <1>b, <1>1, <1>2, <1>3, <1>5, <1>7, <2>1, TopKept
    <3>2. hist'[d] = Front(hist[d]) /\ \A e \in 1..Bottom : e # d => hist'[e] = hist[e]
      BY <1>a, <1>b, <1>c, <1>3, <2>1, FrameChanged
    <3> QED BY <3>1, <3>2
  <2>2. CASE hist' = hist
    <3>1. Bottom' = Bottom /\ hist' \in Seq(Seq(Entries))
      BY <1>a, <2>2 DEF Bottom, WindowTyped
    <3>2. \A e \in 1..Bottom' : Pointed(hist'[e]) /\ Recorded(hist'[e], Succeeded')
      BY <1>a, <1>5, <2>2, <3>1 DEF HistoriesOK
    <3>3. HistoriesOK'
      BY <1>1, <1>7, <3>2, HistoriesChange
    <3> QED BY <2>2, <3>1, <3>3
  <2> QED BY <1>1, <2>1, <2>2
<1>9. ClocksOK'
  <2>1. Bottom' \in 1..Bottom
    BY <1>b, <1>8
  <2> QED BY <1>a, <1>1, <2>1, ClocksStay
<1>10. WindowTyped'
  <2>1. Len(hist') \in 1..MaxDepth
    BY <1>c, <1>8 DEF Bottom
  <2> QED BY <1>a, <1>1, <1>7, <1>8, <2>1 DEF WindowTyped
<1>11. WindowInv'
  BY <1>a, <1>1, <1>8, <1>9, <1>10, HeirStays DEF WindowInv
<1> QED BY <1>b, <1>1, <1>2, <1>8, <1>11

\* Seeds whose calls are recorded, put behind a history.
LEMMA SeededHolds ==
    ASSUME NEW h \in Seq(Entries), NEW seeds \in Seq(Keys), NEW body \in {"full", "error"}, NEW S,
           \A i \in DOMAIN seeds : seeds[i] \in S
    PROVE  LET g == Seeded(h, seeds, body) IN
           /\ g \in Seq(Entries) /\ Len(h) <= Len(g)
           /\ \A i \in 1..Len(h) : g[i] = h[i]
           /\ \A i \in (Len(h) + 1)..Len(g) : g[i].body # "marker"
           /\ Pointed(h) => Pointed(g)
           /\ Recorded(h, S) => Recorded(g, S)
           /\ \A m \in Int : m <= Len(h) /\ Lean(h, m) => Lean(g, m)
<1>d. PICK g : g = Seeded(h, seeds, body)
  OBVIOUS
<1>1. PICK n \in {0, 1} : SeededBy(g, h, seeds, n)
  BY <1>d, SeededKept
<1>2. /\ g \in Seq(Entries) /\ Len(h) <= Len(g)
      /\ \A i \in 1..Len(h) : g[i] = h[i]
      /\ \A i \in (Len(h) + 1)..Len(g) : g[i].body # "marker"
  BY <1>d, <1>1, SeededKept DEF SeededBy
<1>3. (Pointed(h) => Pointed(g)) /\ \A m \in Int : m <= Len(h) /\ Lean(h, m) => Lean(g, m)
  BY <1>2, Grown
<1>4. ASSUME Recorded(h, S), NEW i \in DOMAIN g, g[i].body = "full"
      PROVE  g[i].key \in S
  <2>1. Len(h) \in Nat /\ Len(g) \in Nat /\ DOMAIN h = 1..Len(h) /\ DOMAIN g = 1..Len(g)
    BY <1>2, HistorySeq
  <2>2. CASE i <= Len(h)
    <3>1. i \in 1..Len(h)
      BY <2>1, <2>2
    <3> QED BY <1>2, <1>4, <2>1, <3>1 DEF Recorded
  <2>3. CASE ~ (i <= Len(h))
    <3>1. i \in (Len(h) + 1)..Len(g)
      BY <2>1, <2>3
    <3>2. i - Len(h) - n \in DOMAIN seeds /\ g[i].key = seeds[i - Len(h) - n]
      BY <1>1, <1>4, <3>1 DEF SeededBy
    <3> QED BY <3>2
  <2> QED BY <2>2, <2>3
<1>5. Recorded(h, S) => Recorded(g, S)
  BY <1>4 DEF Recorded
<1> QED BY <1>d, <1>2, <1>3, <1>5

LEMMA DelegateReturnsKept ==
    ASSUME WindowInv, DelegateReturns
    PROVE  /\ WindowInv' /\ UNCHANGED mark /\ pc = "away" /\ pc' = "ready"
           /\ Bottom' = Bottom /\ \A e \in 1..Bottom : e # Bottom => hist'[e] = hist[e]
           /\ \E seeds \in SeedLists, body \in {"full", "error"} :
                hist'[Bottom] = Seeded(Resumed(Bottom), seeds, body)
<1>a. WindowTyped /\ HistoriesOK /\ ClocksOK /\ HeirOK
  BY DEF WindowInv
<1>b. PICK d \in 1..Bottom : d = Bottom
  BY <1>a, BottomTyped
<1>c. /\ Bottom \in 1..MaxDepth /\ Bottom \in Nat /\ Bottom = Len(hist) /\ hist[d] \in Seq(Entries)
      /\ d \in 1..MaxDepth /\ SeedLists \subseteq Seq(Keys)
  BY <1>a, <1>b, BottomTyped, KeysAssumption, WindowBoundsAssumption DEF Bottom
<1>d. PICK seeds \in SeedLists, body \in {"full", "error"} :
        /\ hist' = [hist EXCEPT ![d] = Seeded(Resumed(d), seeds, body)]
        /\ ledger' = ledger \o [i \in DOMAIN seeds |-> [key |-> seeds[i], failed |-> FALSE]]
  BY <1>b, <1>c DEF DelegateReturns
<1>e. PICK r : r = Resumed(d)
  OBVIOUS
<1>f. PICK g : g = Seeded(r, seeds, body)
  OBVIOUS
<1>g. PICK cs : cs = [i \in DOMAIN seeds |-> [key |-> seeds[i], failed |-> FALSE]]
  OBVIOUS
<1>1. /\ UNCHANGED <<caching, compacting, mark, todo, last, idle, spent, age, heir>>
      /\ pc = "away" /\ pc' = "ready" /\ prompt' = Report
      /\ copy' = [copy EXCEPT ![d] = "none"]
      /\ hist' = [hist EXCEPT ![d] = g] /\ ledger' = ledger \o cs
  BY <1>b, <1>c, <1>d, <1>e, <1>f, <1>g DEF DelegateReturns, config, clocks
<1>2. seeds \in Seq(Keys) /\ \A i \in DOMAIN seeds : seeds[i] \in Keys
  <2>1. seeds \in Seq(Keys)
    BY <1>c
  <2> QED BY <2>1, LenProperties
<1>3. cs \in Seq(Calls) /\ \A i \in DOMAIN seeds : i \in DOMAIN cs /\ ~ cs[i].failed /\ cs[i].key = seeds[i]
  <2>1. DOMAIN seeds = 1..Len(seeds) /\ Len(seeds) \in Nat
    BY <1>2, LenProperties
  <2>2. cs \in [1..Len(seeds) -> Calls]
    BY <1>2, <1>g, <2>1 DEF Calls
  <2>3. cs \in Seq(Calls)
    BY <2>1, <2>2
  <2> QED BY <1>g, <2>3
<1>4. /\ ledger' \in Seq(Calls) /\ Succeeded \subseteq Succeeded'
      /\ \A i \in DOMAIN seeds : seeds[i] \in Succeeded'
  <2>1. /\ ledger' \in Seq(Calls) /\ Succeeded \subseteq Succeeded'
        /\ \A i \in DOMAIN cs : ~ cs[i].failed => cs[i].key \in Succeeded'
    BY <1>a, <1>1, <1>3, CallsLogged
  <2> QED BY <1>3, <2>1
<1>5. Pointed(hist[d]) /\ Recorded(hist[d], Succeeded')
  BY <1>a, <1>b, <1>4, FramesKept
<1>6. r \in Seq(Entries) /\ Pointed(r) /\ Recorded(r, Succeeded')
  BY <1>c, <1>e, <1>5, ResumedKept
<1>7. g \in Seq(Entries) /\ Pointed(g) /\ Recorded(g, Succeeded')
  BY <1>2, <1>4, <1>6, <1>f, SeededHolds
<1>8. Report \in Entries /\ Report.body = "text"
  BY EntriesMade
<1>9. HistoriesOK' /\ hist' \in Seq(Seq(Entries)) /\ Bottom' = Bottom
  <2>1. /\ prompt'.body # "marker" /\ (prompt'.body = "full" => prompt'.key \in Succeeded')
    BY <1>1, <1>8
  <2> QED BY <1>b, <1>1, <1>4, <1>7, <2>1, TopKept
<1>10. hist'[d] = g /\ \A e \in 1..Bottom : e # d => hist'[e] = hist[e]
  BY <1>a, <1>b, <1>c, <1>1, <1>7, FrameChanged
<1>11. ClocksOK'
  <2>1. Bottom' \in 1..Bottom
    BY <1>b, <1>9
  <2> QED BY <1>a, <1>1, <2>1, ClocksStay
<1>12. WindowTyped'
  <2>1. Len(hist') \in 1..MaxDepth
    BY <1>c, <1>9 DEF Bottom
  <2>2. copy' \in [1..MaxDepth -> {"none", "running", "brief", "pruned"}]
    BY <1>a, <1>c, <1>1, ClocksTyped
  <2> QED BY <1>a, <1>1, <1>4, <1>8, <1>9, <2>1, <2>2 DEF WindowTyped
<1>13. WindowInv'
  BY <1>a, <1>1, <1>9, <1>11, <1>12, HeirStays DEF WindowInv
<1> QED BY <1>b, <1>1, <1>9, <1>10, <1>13, <1>e, <1>f

LEMMA PopChildKept ==
    ASSUME WindowInv, PopChild
    PROVE  /\ WindowInv' /\ UNCHANGED mark /\ pc = "done" /\ pc' = "ready"
           /\ Bottom' = Bottom - 1 /\ Bottom' \in 1..Bottom
           /\ \A e \in 1..Bottom' : e # Bottom' => hist'[e] = hist[e]
           /\ hist'[Bottom'] = Resumed(Bottom')
<1>a. WindowTyped /\ HistoriesOK /\ ClocksOK /\ HeirOK
  BY DEF WindowInv
<1>b. PICK d : d = Len(hist) - 1
  OBVIOUS
<1>1. /\ UNCHANGED <<caching, compacting, mark, todo, last, idle, spent, age, ledger, heir>>
      /\ pc = "done" /\ d > 0 /\ pc' = "ready" /\ prompt' = Report
      /\ copy' = [copy EXCEPT ![d] = "none"]
      /\ hist' = [Front(hist) EXCEPT ![d] = Resumed(d)]
  BY <1>b DEF PopChild, config, clocks, world
<1>c. /\ Bottom \in 1..MaxDepth /\ Bottom \in Nat /\ Bottom = Len(hist) /\ MaxDepth \in Nat
      /\ hist \in Seq(Seq(Entries))
  BY <1>a, BottomTyped DEF Bottom, WindowTyped
<1>2. d \in 1..MaxDepth /\ d \in 1..Bottom /\ d < Bottom /\ d \in Nat /\ Bottom - 1 = d /\ d \in 1..d
  BY <1>b, <1>c, <1>1
<1>3. hist[d] \in Seq(Entries)
  BY <1>a, <1>2, BottomTyped
<1>e. PICK r : r = Resumed(d)
  OBVIOUS
<1>4. r \in Seq(Entries) /\ Pointed(r) /\ Recorded(r, Succeeded)
  <2>1. Pointed(hist[d]) /\ Recorded(hist[d], Succeeded)
    BY <1>a, <1>2 DEF HistoriesOK
  <2> QED BY <1>2, <1>3, <1>e, <2>1, ResumedKept
<1>5. /\ hist' \in Seq(Seq(Entries)) /\ Len(hist') = d /\ hist'[d] = r
      /\ \A e \in 1..d : e # d => hist'[e] = hist[e]
  <2>1. PICK f : f = Front(hist)
    OBVIOUS
  <2>2. f = [e \in 1..d |-> hist[e]]
    <3>1. f = SubSeq(hist, 1, Len(hist) - 1)
      BY <2>1 DEF Front
    <3>2. \A e \in 1..d : e \in 1..Len(hist)
      BY <1>c, <1>2
    <3> QED BY <1>b, <1>c, <1>2, <3>1, <3>2, SubSeqProperties
  <2>3. hist' = [f EXCEPT ![d] = r]
    BY <1>1, <1>e, <2>1
  <2>4. hist' = [e \in 1..d |-> IF e = d THEN r ELSE hist[e]]
    BY <2>2, <2>3
  <2>5. \A e \in 1..d : hist[e] \in Seq(Entries)
    BY <1>a, <1>2, <1>c, BottomTyped
  <2>6. hist' \in [1..d -> Seq(Entries)]
    BY <1>4, <2>4, <2>5
  <2>7. hist' \in Seq(Seq(Entries)) /\ Len(hist') = d
    BY <1>2, <2>4, <2>6
  <2> QED BY <1>2, <2>4, <2>7
<1>6. Bottom' = d
  BY <1>5 DEF Bottom
<1>7. Succeeded' = Succeeded
  BY <1>1 DEF Succeeded
<1>8. Report \in Entries /\ Report.body = "text"
  BY EntriesMade
<1>9. HistoriesOK'
  <2>1. \A e \in 1..Bottom' : Pointed(hist'[e]) /\ Recorded(hist'[e], Succeeded')
    <3>1. \A e \in 1..d : e \in 1..Bottom
      BY <1>c, <1>2
    <3> QED BY <1>a, <1>4, <1>5, <1>6, <1>7, <3>1 DEF HistoriesOK
  <2> QED BY <1>1, <1>8, <2>1, HistoriesChange
<1>10. ClocksOK'
  BY <1>a, <1>1, <1>2, <1>6, ClocksStay
<1>11. WindowTyped'
  <2>1. copy' \in [1..MaxDepth -> {"none", "running", "brief", "pruned"}]
    BY <1>a, <1>2, <1>1, ClocksTyped
  <2>2. Len(hist') \in 1..MaxDepth
    BY <1>2, <1>5
  <2> QED BY <1>a, <1>1, <1>5, <1>8, <2>1, <2>2 DEF WindowTyped
<1>12. WindowInv'
  BY <1>a, <1>1, <1>9, <1>10, <1>11, HeirStays DEF WindowInv
<1> QED BY <1>1, <1>2, <1>5, <1>6, <1>12, <1>e

LEMMA DoPruneKept ==
    ASSUME WindowInv, DoPrune, pc # "calls",
           UNCHANGED <<config, turnVars, copy, clocks, ledger>>
    PROVE  /\ WindowTyped /\ hist' \in Seq(Seq(Entries)) /\ Bottom' = Bottom
           /\ mark' \in [1..MaxDepth -> Int]
           /\ HistoriesOK' /\ ClocksOK'
           /\ mark' = [mark EXCEPT ![Bottom] = Len(hist[Bottom])]
           /\ hist'[Bottom] = Pruned(hist[Bottom])
           /\ \A e \in 1..Bottom : e # Bottom => hist'[e] = hist[e]
<1>a. WindowTyped /\ HistoriesOK /\ ClocksOK /\ HeirOK
  BY DEF WindowInv
<1>b. PICK d \in 1..Bottom : d = Bottom
  BY <1>a, BottomTyped
<1>c. /\ Bottom \in 1..MaxDepth /\ Bottom \in Nat /\ Bottom = Len(hist) /\ hist[d] \in Seq(Entries)
      /\ d \in 1..MaxDepth /\ Len(hist[d]) \in Int
  BY <1>a, <1>b, BottomTyped, HistorySeq DEF Bottom
<1>d. PICK g : g = Pruned(hist[d])
  OBVIOUS
<1>1. /\ UNCHANGED <<pc, prompt, last, idle, spent, age, ledger>>
      /\ mark' = [mark EXCEPT ![d] = Len(hist[d])]
      /\ hist' = [hist EXCEPT ![d] = g]
  BY <1>b, <1>c, <1>d DEF DoPrune, Top, turnVars, clocks
<1>2. Pointed(hist[d]) /\ Recorded(hist[d], Succeeded)
  BY <1>a, <1>b DEF HistoriesOK
<1>3. g \in Seq(Entries) /\ Pointed(g) /\ Recorded(g, Succeeded)
  BY <1>c, <1>d, <1>2, PruneKeeps
<1>4. Succeeded' = Succeeded
  BY <1>1 DEF Succeeded
<1>5. HistoriesOK' /\ hist' \in Seq(Seq(Entries)) /\ Bottom' = Bottom
  <2>1. /\ prompt'.body # "marker" /\ (prompt'.body = "full" => prompt'.key \in Succeeded')
        /\ pc' # "calls"
    BY <1>a, <1>1, <1>4 DEF HistoriesOK
  <2> QED BY <1>b, <1>1, <1>3, <1>4, <2>1, TopKept
<1>6. hist'[d] = g /\ \A e \in 1..Bottom : e # d => hist'[e] = hist[e]
  BY <1>a, <1>b, <1>c, <1>1, <1>3, FrameChanged
<1>7. ClocksOK'
  <2>1. Bottom' \in 1..Bottom
    BY <1>b, <1>5
  <2> QED BY <1>a, <1>1, <1>5, <2>1, ClocksStay
<1>8. mark' \in [1..MaxDepth -> Int]
  BY <1>a, <1>c, <1>1 DEF WindowTyped
<1> QED BY <1>a, <1>b, <1>d, <1>1, <1>5, <1>6, <1>7, <1>8

LEMMA PruneKept ==
    ASSUME WindowInv, Prune
    PROVE  WindowInv'
<1>1. /\ WindowTyped /\ hist' \in Seq(Seq(Entries)) /\ Bottom' = Bottom
      /\ mark' \in [1..MaxDepth -> Int] /\ HistoriesOK' /\ ClocksOK'
  BY DoPruneKept DEF Prune
<1>2. UNCHANGED <<caching, compacting, pc, prompt, todo, last, copy, idle, spent, age, ledger, heir>>
  BY DEF Prune, config, turnVars, clocks
<1>3. HeirOK'
  BY <1>2, HeirStays DEF WindowInv
<1>4. WindowTyped'
  <2>1. Len(hist') \in 1..MaxDepth
    BY <1>1 DEF Bottom, WindowTyped
  <2> QED BY <1>1, <1>2, <2>1 DEF WindowTyped
<1> QED BY <1>1, <1>3, <1>4 DEF WindowInv

\* What a session has shown of its full bodies its ledger has.
LEMMA ShownRecorded ==
    ASSUME WindowTyped, HistoriesOK
    PROVE  UNION {Full(h) : h \in Range(hist)} \subseteq Succeeded
<1>1. ASSUME NEW h \in Range(hist), NEW k \in Full(h)
      PROVE  k \in Succeeded
  <2>1. PICK d \in DOMAIN hist : h = hist[d]
    BY DEF Range
  <2>2. d \in 1..Bottom
    BY LenProperties DEF WindowTyped, Bottom
  <2>3. PICK i \in DOMAIN h : h[i].key = k /\ h[i].body = "full"
    BY DEF Full, Found
  <2> QED BY <2>1, <2>2, <2>3 DEF HistoriesOK, Recorded
<1> QED BY <1>1

LEMMA SeedsTyped ==
    ASSUME WindowTyped
    PROVE  Succeeded \in SUBSET Keys
<1>1. ledger \in Seq(Calls)
  BY DEF WindowTyped
<1>2. \A i \in DOMAIN ledger : ledger[i] \in Calls
  BY <1>1, LenProperties
<1> QED BY <1>2 DEF Succeeded, Seeds, Calls

LEMMA CompactKept ==
    ASSUME WindowInv, Compact
    PROVE  WindowInv'
<1>1. /\ WindowTyped /\ hist' \in Seq(Seq(Entries)) /\ Bottom' = Bottom
      /\ mark' \in [1..MaxDepth -> Int] /\ HistoriesOK' /\ ClocksOK'
  BY DoPruneKept DEF Compact
<1>2. UNCHANGED <<caching, compacting, pc, prompt, todo, last, copy, idle, spent, age, ledger>>
  BY DEF Compact, config, turnVars, clocks
<1>s. PICK shown : shown = UNION {Full(h) : h \in Range(hist)}
  OBVIOUS
<1>3. PICK stored \in BOOLEAN :
        /\ heir' = [phase |-> "row", seeds |-> IF stored THEN Succeeded ELSE {}, context |-> {},
                    shown |-> shown, lost |-> ~ stored]
  BY <1>s DEF Compact, Succeeded
<1>4. shown \subseteq Succeeded /\ Succeeded \in SUBSET Keys
  BY <1>1, <1>s, ShownRecorded, SeedsTyped DEF WindowInv
<1>5. heir' \in Heirs
  <2>1. shown \in SUBSET Keys /\ (IF stored THEN Succeeded ELSE {}) \in SUBSET Keys
    BY <1>4
  <2> QED BY <1>3, <2>1 DEF Heirs
<1>6. HeirOK'
  BY <1>3, <1>4 DEF HeirOK
<1>7. WindowTyped'
  <2>1. Len(hist') \in 1..MaxDepth
    BY <1>1 DEF Bottom, WindowTyped
  <2> QED BY <1>1, <1>2, <1>5, <2>1 DEF WindowTyped
<1> QED BY <1>1, <1>6, <1>7 DEF WindowInv

\* The steps of the fresh session.
LEMMA HeirKept ==
    ASSUME WindowInv, Attach \/ Restart \/ Tell
    PROVE  WindowInv' /\ UNCHANGED <<hist, mark, pc, age, idle, caching, requests>>
<1>a. WindowTyped /\ HistoriesOK /\ ClocksOK /\ HeirOK
  BY DEF WindowInv
<1>1. UNCHANGED <<caching, compacting, hist, mark, pc, prompt, todo, last, copy, idle, spent, age,
                  ledger, requests>>
  BY DEF Attach, Restart, Tell, config, turnVars, clocks, counts
<1>2. heir \in Heirs
  BY <1>a DEF WindowTyped
<1>3. heir' \in Heirs /\ HeirOK'
  <2>1. CASE Attach
    <3>1. /\ heir.phase = "row"
          /\ heir' = [heir EXCEPT !.phase = "attached", !.seeds = {}, !.context = heir.seeds]
      BY <2>1 DEF Attach
    <3> QED BY <1>a, <1>2, <3>1 DEF Heirs, HeirOK
  <2>2. CASE Restart
    <3>1. heir' = [heir EXCEPT !.phase = "row", !.context = {}, !.lost = TRUE]
      BY <2>2 DEF Restart
    <3> QED BY <1>a, <1>2, <3>1 DEF Heirs, HeirOK
  <2>3. CASE Tell
    <3>1. heir.phase = "attached" /\ heir' = [heir EXCEPT !.phase = "told"]
      BY <2>3 DEF Tell
    <3> QED BY <1>a, <1>2, <3>1 DEF Heirs, HeirOK
  <2> QED BY <2>1, <2>2, <2>3
<1>4. HistoriesOK'
  BY <1>a, <1>1, HistoriesStay DEF Succeeded
<1>5. ClocksOK'
  <2>1. Bottom' = Bottom /\ Bottom \in 1..Bottom
    BY <1>a, <1>1, BottomTyped DEF Bottom
  <2> QED BY <1>a, <1>1, <2>1, ClocksStay
<1>6. WindowTyped'
  BY <1>a, <1>1, <1>3 DEF WindowTyped
<1> QED BY <1>1, <1>3, <1>4, <1>5, <1>6 DEF WindowInv

LEMMA WindowStep ==
    ASSUME WindowInv, [WindowNext]_windowVars
    PROVE  WindowInv'
<1>1. CASE Turns
  <2>1. CASE TakeInput \/ Cancelled \/ Finish
    BY <2>1, QuietTurnKept
  <2>2. CASE Request
    BY <2>2, RequestKept
  <2>3. CASE Respond \/ Read \/ Continue
    BY <2>3, RespondKept, ReadKept, ContinueKept
  <2>4. CASE Delegate \/ Spawn
    BY <2>4, DelegateKept, SpawnKept
  <2>5. CASE DelegateReturns \/ PopChild
    BY <2>5, DelegateReturnsKept, PopChildKept
  <2>6. CASE Prune \/ Compact
    BY <2>6, PruneKept, CompactKept
  <2> QED BY <1>1, <2>1, <2>2, <2>3, <2>4, <2>5, <2>6 DEF Turns
<1>2. CASE ChildWorks
  BY <1>2, ChildWorksKept
<1>3. CASE (\E d \in 1..MaxDepth : Draft(d)) \/ SubmitMessage
  BY <1>3, QuietTurnKept
<1>4. CASE Tick
  BY <1>4, ClocksTicked
<1>5. CASE Attach \/ Restart \/ Tell
  BY <1>5, HeirKept
<1>6. CASE UNCHANGED windowVars
  BY <1>6, QuietTurnKept
<1> QED BY <1>1, <1>2, <1>3, <1>4, <1>5, <1>6 DEF WindowNext, OldSession

LEMMA WindowStarts ==
    ASSUME WindowInit
    PROVE  WindowInv /\ hist = << <<>> >> /\ mark = [d \in 1..MaxDepth |-> -1]
<1>1. /\ caching \in BOOLEAN /\ compacting \in BOOLEAN
      /\ hist = << <<>> >> /\ mark = [d \in 1..MaxDepth |-> -1]
      /\ pc = "idle" /\ prompt = Nothing /\ todo = <<>> /\ last = "none"
      /\ copy = [d \in 1..MaxDepth |-> "none"]
      /\ idle = TTL /\ spent = [d \in 1..MaxDepth |-> 0] /\ age = [d \in 1..MaxDepth |-> TTL]
      /\ ledger = <<>> /\ heir = NoHeir
  BY DEF WindowInit
<1>2. TTL \in Nat /\ MaxDepth \in Nat \ {0}
  BY KeysAssumption, WindowBoundsAssumption
<1>3. hist \in Seq(Seq(Entries)) /\ Len(hist) = 1 /\ hist[1] = <<>> /\ Bottom = 1
  <2>1. <<>> \in Seq(Entries)
    OBVIOUS
  <2> QED BY <1>1, <2>1 DEF Bottom
<1>4. Nothing \in Entries /\ Nothing.body = "text"
  BY EntriesMade
<1>5. heir \in Heirs /\ HeirOK
  BY <1>1 DEF Heirs, HeirOK, NoHeir
<1>6. mark \in [1..MaxDepth -> Int]
  BY <1>1, <1>2
<1>7. /\ idle \in 0..TTL /\ spent \in [1..MaxDepth -> 0..TTL] /\ age \in [1..MaxDepth -> 0..TTL]
      /\ copy \in [1..MaxDepth -> {"none", "running", "brief", "pruned"}]
  BY <1>1, <1>2
<1>8. WindowTyped
  BY <1>1, <1>2, <1>3, <1>4, <1>5, <1>6, <1>7 DEF WindowTyped
<1>9. HistoriesOK
  <2>1. \A d \in 1..Bottom : hist[d] = <<>>
    BY <1>3
  <2>2. Pointed(<<>>) /\ Recorded(<<>>, Succeeded)
    BY DEF Pointed, Recorded
  <2> QED BY <1>1, <1>4, <2>1, <2>2 DEF HistoriesOK
<1>10. ClocksOK
  <2>1. \A d \in 1..Bottom : ~ (d < Bottom \/ pc = "away")
    BY <1>1, <1>3
  <2> QED BY <1>1, <1>2, <2>1 DEF ClocksOK
<1> QED BY <1>1, <1>5, <1>8, <1>9, <1>10 DEF WindowInv

\* The types, the histories, the clocks and the handoff are in order in every state.
THEOREM WindowInvariance ==
    WindowSpec => []WindowInv
<1>1. WindowInit => WindowInv
  BY WindowStarts
<1>2. WindowInv /\ [WindowNext]_windowVars => WindowInv'
  BY WindowStep
<1> QED BY <1>1, <1>2, PTL DEF WindowSpec

\* "A marker pointing at a body no longer in context would be a lie" (prune.rs): every
\* elided body has a newer one of the same call behind it in its history, in any session,
\* whatever was cancelled, shrunk or seeded.
THEOREM MarkersNeverLie ==
    WindowSpec => []MarkersPoint
<1>1. WindowInv => MarkersPoint
  <2>1. ASSUME WindowInv, NEW d \in DOMAIN hist, NEW i \in DOMAIN hist[d], hist[d][i].body = "marker"
        PROVE  \E j \in Found(hist[d], hist[d][i].key) : j > i /\ hist[d][j].body # "marker"
    <3>1. d \in 1..Bottom
      BY <2>1, LenProperties DEF WindowInv, WindowTyped, Bottom
    <3>2. Pointed(hist[d])
      BY <2>1, <3>1 DEF WindowInv, HistoriesOK
    <3> QED BY <2>1, <3>2 DEF Pointed, Found
  <2> QED BY <2>1 DEF MarkersPoint
<1>2. WindowSpec => []WindowInv
  BY WindowInvariance
<1> QED BY <1>1, <1>2, PTL

\* The first message after a handoff brings every body the old session has shown, unless
\* the seeds were not stored or their worker has ended (compact.rs).
THEOREM HandoffCarries ==
    WindowSpec => []WorkingSetCarried
<1>1. WindowInv => WorkingSetCarried
  BY DEF WindowInv, HeirOK, WorkingSetCarried
<1>2. WindowSpec => []WindowInv
  BY WindowInvariance
<1> QED BY <1>1, <1>2, PTL

\* A frame that has only grown, or lost its newest entry, is not rewritten.
LEMMA NotRewritten ==
    ASSUME NEW d, NEW g \in Seq(Entries), hist[d] \in Seq(Entries), hist'[d] = g,
           Len(hist[d]) - 1 <= Len(g), \A i \in 1..(Len(hist[d]) - 1) : g[i] = hist[d][i]
    PROVE  ~ Rewritten(d)
<1>1. Len(hist[d]) \in Nat /\ Len(g) \in Nat /\ DOMAIN g = 1..Len(g)
  BY HistorySeq
<1>2. \A i \in 1..(Len(hist[d]) - 1) : i \in DOMAIN g
  BY <1>1
<1> QED BY <1>2 DEF Rewritten

Counted == requests \in Nat

LEMMA RequestsCounted ==
    ASSUME [WindowNext]_windowVars
    PROVE  requests' = requests \/ Request
BY DEF WindowNext, OldSession, Turns, TakeInput, Cancelled, Respond, Read,
       Continue, Delegate, Spawn, DelegateReturns, PopChild, Finish,
       Prune, Compact, ChildWorks, Draft, SubmitMessage, Tick, Attach,
       Restart, Tell, Paused, windowVars, counts

\* Where a step rewrites a frame, the frame's prefix is cold or the human is told.
LEMMA RequestKeepsWarm ==
    ASSUME WindowInv, Request, requests \in Nat,
           NEW d \in 1..Bottom, caching, ~ (Sends /\ breaking'), Rewritten(d)
    PROVE  age[d] >= TTL
<1>a. WindowTyped /\ ClocksOK
  BY DEF WindowInv
<1>b. PICK b \in 1..Bottom : b = Bottom
  BY <1>a, BottomTyped
<1>c. hist[d] \in Seq(Entries) /\ d \in 1..MaxDepth /\ b \in 1..MaxDepth /\ hist[b] \in Seq(Entries)
  BY <1>a, <1>b, BottomTyped
<1>1. ~ breaking'
  <2>1. requests' = requests + 1 /\ pc = "ready"
    BY DEF Request
  <2>2. requests' # requests
    BY <2>1
  <2> QED BY <2>1, <2>2 DEF Sends
<1>2. PICK full \in BOOLEAN : AutoPrune(full)
  BY DEF Request
<1>3. \/ hist' = hist
      \/ hist' = [hist EXCEPT ![b] = Pruned(hist[b])] /\ breaking' = ~ Cold(idle)
  BY <1>a, <1>b, <1>2, AutoPruneDoes
<1>4. hist'[d] # hist[d]
  BY <1>c, HistorySeq, NotRewritten
<1>5. Cold(idle)
  BY <1>1, <1>3, <1>4
<1>6. idle >= TTL
  BY <1>5 DEF Cold
<1>7. idle <= age[d] /\ age[d] \in 0..TTL /\ idle \in 0..TTL /\ TTL \in Nat
  BY <1>a, <1>c, ClocksTyped DEF ClocksOK
<1> QED BY <1>6, <1>7

LEMMA ResumeKeepsWarm ==
    ASSUME WindowInv, NEW d \in 1..Bottom, caching,
           d < Bottom \/ pc = "away", ~ (age[d] >= TTL)
    PROVE  Resumed(d) = hist[d]
<1>a. WindowTyped /\ ClocksOK
  BY DEF WindowInv
<1>1. d \in 1..MaxDepth /\ hist[d] \in Seq(Entries)
  BY <1>a, BottomTyped
<1>2. spent[d] <= age[d] /\ age[d] \in 0..TTL /\ spent[d] \in 0..TTL /\ TTL \in Nat
  BY <1>a, <1>1, ClocksTyped DEF ClocksOK
<1>3. ~ Cold(spent[d])
  BY <1>2 DEF Cold
<1> QED BY <1>1, <1>3, ResumedKept

\* "Cache hot: resume on the full context" (deleg_shrink.rs): no entry of a paused or
\* running frame is rewritten while the provider still has its prefix, for any lifetime,
\* depth and order of sends, returns and messages.
THEOREM WarmHistoriesStand ==
    WindowSpec => WarmPrefixKept
<1> DEFINE Warm ==
             \A d \in DOMAIN hist \cap DOMAIN hist' :
                 caching /\ pc # "idle" /\ ~ (Sends /\ breaking') /\ Rewritten(d)
                    => age[d] >= TTL
<1>1. ASSUME WindowInv, requests \in Nat, [WindowNext]_windowVars PROVE Warm
  <2> SUFFICES ASSUME NEW d \in DOMAIN hist \cap DOMAIN hist', caching, pc # "idle",
                      ~ (Sends /\ breaking'), Rewritten(d)
               PROVE  age[d] >= TTL
    OBVIOUS
  <2>a. WindowTyped /\ WindowTyped'
    BY <1>1, WindowStep DEF WindowInv
  <2>b. d \in 1..Bottom /\ d \in 1..Bottom' /\ Bottom \in Nat /\ hist[d] \in Seq(Entries)
    <3>1. hist \in Seq(Seq(Entries)) /\ hist' \in Seq(Seq(Entries))
      BY <2>a DEF WindowTyped
    <3>2. DOMAIN hist = 1..Bottom /\ DOMAIN hist' = 1..Bottom'
      BY <3>1, LenProperties DEF Bottom
    <3> QED BY <2>a, <3>2, BottomTyped
  <2>c. Len(hist[d]) \in Nat
    BY <2>b, HistorySeq
  <2>1. hist'[d] # hist[d]
    BY <2>b, <2>c, NotRewritten
  <2>2. CASE Request
    BY <1>1, <2>2, <2>b, RequestKeepsWarm
  <2>3. CASE Respond \/ Read
    <3>1. /\ d # Bottom => hist'[d] = hist[d]
          /\ hist'[Bottom] \in Seq(Entries) /\ Len(hist'[Bottom]) >= Len(hist[Bottom])
          /\ \A i \in 1..Len(hist[Bottom]) : hist'[Bottom][i] = hist[Bottom][i]
      <4>1. CASE Respond
        BY <1>1, <2>b, <4>1, HistorySeq, RespondKept
      <4>2. CASE Read
        BY <1>1, <2>b, <4>2, HistorySeq, ReadKept
      <4> QED BY <2>3, <4>1, <4>2
    <3>2. d = Bottom
      BY <2>1, <3>1
    <3>3. PICK g \in Seq(Entries) : g = hist'[d]
      BY <3>1, <3>2
    <3>4. Len(hist[d]) - 1 <= Len(g) /\ \A i \in 1..(Len(hist[d]) - 1) : g[i] = hist[d][i]
      <4>1. Len(g) \in Nat /\ Len(g) >= Len(hist[d])
        BY <3>1, <3>2, <3>3, HistorySeq
      <4>2. \A i \in 1..(Len(hist[d]) - 1) : i \in 1..Len(hist[d])
        BY <2>c
      <4> QED BY <2>c, <3>1, <3>2, <3>3, <4>1, <4>2
    <3> QED BY <2>b, <3>3, <3>4, NotRewritten
  <2>4. CASE Continue
    <3>1. /\ d = Bottom /\ hist[d] # <<>> /\ hist'[d] = Front(hist[d])
      BY <1>1, <2>1, <2>4, <2>b, ContinueKept
    <3>2. /\ Front(hist[d]) \in Seq(Entries) /\ Len(Front(hist[d])) = Len(hist[d]) - 1
          /\ \A i \in 1..(Len(hist[d]) - 1) : Front(hist[d])[i] = hist[d][i]
      BY <2>b, <3>1, Shortened
    <3>3. Len(hist[d]) - 1 <= Len(Front(hist[d]))
      BY <2>c, <3>2
    <3> QED BY <2>b, <3>1, <3>2, <3>3, NotRewritten
  <2>5. CASE DelegateReturns
    <3>1. PICK seeds \in SeedLists, body \in {"full", "error"} :
            d = Bottom /\ pc = "away" /\ hist'[d] = Seeded(Resumed(d), seeds, body)
      BY <1>1, <2>1, <2>5, <2>b, DelegateReturnsKept
    <3>2. seeds \in Seq(Keys)
      BY KeysAssumption, WindowBoundsAssumption
    <3>3. SUFFICES ASSUME ~ (age[d] >= TTL) PROVE FALSE
      OBVIOUS
    <3>4. Resumed(d) = hist[d]
      BY <1>1, <2>b, <3>1, <3>3, ResumeKeepsWarm
    <3>5. /\ hist'[d] \in Seq(Entries) /\ Len(hist[d]) <= Len(hist'[d])
          /\ \A i \in 1..Len(hist[d]) : hist'[d][i] = hist[d][i]
      <4>1. /\ Seeded(hist[d], seeds, body) \in Seq(Entries)
            /\ \E n \in {0, 1} : SeededBy(Seeded(hist[d], seeds, body), hist[d], seeds, n)
        BY <2>b, <3>2, SeededKept
      <4> QED BY <3>1, <3>4, <4>1 DEF SeededBy
    <3>6. PICK g \in Seq(Entries) : g = hist'[d]
      BY <3>5
    <3>7. Len(hist[d]) - 1 <= Len(g) /\ \A i \in 1..(Len(hist[d]) - 1) : g[i] = hist[d][i]
      <4>1. Len(g) \in Nat /\ Len(g) >= Len(hist[d])
        BY <3>5, <3>6, HistorySeq
      <4>2. \A i \in 1..(Len(hist[d]) - 1) : i \in 1..Len(hist[d])
        BY <2>c
      <4> QED BY <2>c, <3>5, <3>6, <4>1, <4>2
    <3> QED BY <2>b, <3>6, <3>7, NotRewritten
  <2>6. CASE PopChild
    <3>1. d = Bottom' /\ d < Bottom /\ hist'[d] = Resumed(d)
      BY <1>1, <2>1, <2>6, <2>b, PopChildKept
    <3> QED BY <1>1, <2>1, <2>b, <3>1, ResumeKeepsWarm
  <2>7. CASE Spawn
    BY <1>1, <2>1, <2>7, <2>b, SpawnKept
  <2>8. CASE Delegate \/ ChildWorks
    BY <1>1, <2>1, <2>8, DelegateKept, ChildWorksKept
  <2>9. CASE \/ SubmitMessage \/ TakeInput \/ Cancelled \/ Finish
             \/ (\E e \in 1..MaxDepth : Draft(e)) \/ UNCHANGED windowVars
    BY <1>1, <2>1, <2>9, QuietTurnKept
  <2>10. CASE Tick
    BY <2>1, <2>10 DEF Tick
  <2>11. CASE Attach \/ Restart \/ Tell
    BY <1>1, <2>1, <2>11, HeirKept
  <2>12. CASE Prune \/ Compact
    BY <2>12 DEF Prune, Compact
  <2> QED BY <1>1, <2>2, <2>3, <2>4, <2>5, <2>6, <2>7, <2>8, <2>9, <2>10, <2>11, <2>12
          DEF WindowNext, OldSession, Turns
<1>2. WindowInit => Counted
  BY DEF WindowInit, Counted
<1>3. Counted /\ [WindowNext]_windowVars => Counted'
  <2>1. Request => requests' = requests + 1
    BY DEF Request
  <2> QED BY <2>1, RequestsCounted DEF Counted
<1>4. WindowSpec => []WindowInv
  BY WindowInvariance
<1>5. WindowInv /\ Counted /\ [WindowNext]_windowVars => [Warm]_windowVars
  BY <1>1 DEF Counted
<1> QED BY <1>2, <1>3, <1>4, <1>5, PTL DEF WindowSpec, WarmPrefixKept

\* A frame whose history and watermark stay keeps them in order.
LEMMA MarkStays ==
    ASSUME NEW d, MarkOK(d), hist'[d] = hist[d], mark'[d] = mark[d],
           d = Bottom /\ pc = "ready" => d = Bottom' /\ pc' = "ready",
           d = Bottom' /\ pc' = "calls" => d = Bottom /\ pc = "calls"
    PROVE  MarkOK(d)'
<1>1. CASE /\ mark[d] <= Len(hist[d]) /\ Lean(hist[d], mark[d])
           /\ d = Bottom /\ pc = "calls" => mark[d] < Len(hist[d])
  BY <1>1 DEF MarkOK
<1>2. CASE d = Bottom /\ pc = "ready" /\ Lean(hist[d], Len(hist[d]))
  BY <1>2 DEF MarkOK
<1> QED BY <1>1, <1>2 DEF MarkOK

\* A frame that grows by entries that are not elided.
LEMMA MarkUnderGrowth ==
    ASSUME NEW d, hist[d] \in Seq(Entries), hist'[d] \in Seq(Entries), mark[d] \in Int,
           MarkOK(d), d # Bottom \/ pc # "ready", mark'[d] = mark[d],
           Len(hist[d]) <= Len(hist'[d]), pc' = "calls" => Len(hist[d]) < Len(hist'[d]),
           \A i \in 1..Len(hist[d]) : hist'[d][i] = hist[d][i],
           \A i \in (Len(hist[d]) + 1)..Len(hist'[d]) : hist'[d][i].body # "marker"
    PROVE  MarkOK(d)'
<1>1. mark[d] <= Len(hist[d]) /\ Lean(hist[d], mark[d])
  BY DEF MarkOK
<1>2. PICK g \in Seq(Entries) : g = hist'[d]
  OBVIOUS
<1>3. Lean(g, mark[d])
  BY <1>1, <1>2, Grown
<1>4. Len(hist[d]) \in Nat /\ Len(g) \in Nat
  BY <1>2, HistorySeq
<1>5. mark[d] <= Len(g) /\ (pc' = "calls" => mark[d] < Len(g))
  BY <1>1, <1>2, <1>4
<1> QED BY <1>2, <1>3, <1>5 DEF MarkOK

\* What the first look at a history does to its watermark.
LEMMA RequestMarks ==
    ASSUME WindowInv, WatermarkInv, Request
    PROVE  /\ WatermarkInv'
           /\ Cold(idle) => Superseded(hist'[Len(hist')]) = {}
<1>a. WindowTyped /\ WindowTyped' /\ pc = "ready" /\ pc' \in {"asked", "idle"}
  BY RequestKept DEF WindowInv, Request
<1>b. PICK d \in 1..Bottom : d = Bottom
  BY <1>a, BottomTyped
<1>c. /\ hist[d] \in Seq(Entries) /\ Len(hist[d]) \in Nat /\ d \in 1..MaxDepth /\ d \in 1..Len(hist)
      /\ mark \in [1..MaxDepth -> Int] /\ Bottom \in Nat
      /\ \A e \in 1..Bottom : e \in 1..MaxDepth
  BY <1>a, <1>b, BottomTyped, HistorySeq DEF WindowTyped, Bottom
<1>d. PICK g : g = Pruned(hist[d])
  OBVIOUS
<1>e. /\ g \in Seq(Entries) /\ Len(g) = Len(hist[d]) /\ Lean(g, Len(hist[d]))
  BY <1>c, <1>d, PruneKeeps
<1>1. PICK full \in BOOLEAN : AutoPrune(full)
  BY DEF Request
<1>2. \/ mark[d] = Len(hist[d]) /\ hist' = hist /\ mark' = mark
      \/ /\ mark' = [mark EXCEPT ![d] = Len(hist[d])] /\ hist' = hist
         /\ Superseded(hist[d]) = {}
      \/ /\ mark' = [mark EXCEPT ![d] = Len(hist[d])]
         /\ hist' = [hist EXCEPT ![d] = g]
      \/ /\ Superseded(hist[d]) # {} /\ ~ Cold(idle)
         /\ hist' = hist /\ mark' = mark
  BY <1>a, <1>b, <1>d, <1>1, AutoPruneDoes
<1>3. MarkOK(d)
  BY <1>b DEF WatermarkInv
<1>4. /\ Bottom' = Bottom /\ \A e \in 1..Bottom : e # d => hist'[e] = hist[e] /\ mark'[e] = mark[e]
      /\ hist'[d] = hist[d] \/ hist'[d] = g
  <2>1. CASE hist' = hist
    <3>1. \A e \in 1..Bottom : e # d => mark'[e] = mark[e]
      BY <1>2, <1>c
    <3> QED BY <2>1, <3>1 DEF Bottom
  <2>2. CASE hist' = [hist EXCEPT ![d] = g] /\ mark' = [mark EXCEPT ![d] = Len(hist[d])]
    <3>1. Bottom' = Bottom /\ hist'[d] = g /\ \A e \in 1..Bottom : e # d => hist'[e] = hist[e]
      BY <1>a, <1>b, <1>c, <1>e, <2>2, FrameChanged DEF Bottom
    <3>2. \A e \in 1..Bottom : e # d => mark'[e] = mark[e]
      BY <1>c, <2>2
    <3> QED BY <3>1, <3>2
  <2> QED BY <1>2, <2>1, <2>2
<1>5. /\ mark'[d] <= Len(hist'[d]) /\ Lean(hist'[d], mark'[d])
      /\ Cold(idle) => Superseded(hist'[d]) = {}
  <2>1. CASE mark[d] = Len(hist[d]) /\ hist' = hist /\ mark' = mark
    <3>1. Lean(hist[d], Len(hist[d]))
      BY <1>3, <2>1 DEF MarkOK
    <3> QED BY <1>c, <2>1, <3>1, LeanIs
  <2>2. CASE /\ mark' = [mark EXCEPT ![d] = Len(hist[d])] /\ hist' = hist
             /\ Superseded(hist[d]) = {}
    <3>1. Lean(hist[d], Len(hist[d])) /\ mark'[d] = Len(hist[d])
      BY <1>c, <2>2, LeanIs
    <3> QED BY <1>c, <2>2, <3>1
  <2>3. CASE /\ mark' = [mark EXCEPT ![d] = Len(hist[d])]
             /\ hist' = [hist EXCEPT ![d] = g]
    <3>1. hist'[d] = g /\ mark'[d] = Len(hist[d])
      BY <1>a, <1>c, <1>e, <2>3, FrameChanged
    <3>2. Superseded(g) = {}
      BY <1>e, LeanIs
    <3> QED BY <1>c, <1>e, <3>1, <3>2
  <2>4. CASE /\ Superseded(hist[d]) # {} /\ ~ Cold(idle)
             /\ hist' = hist /\ mark' = mark
    <3>1. ~ Lean(hist[d], Len(hist[d]))
      BY <1>c, <2>4, LeanIs
    <3> QED BY <1>3, <2>4, <3>1 DEF MarkOK
  <2> QED BY <1>2, <2>1, <2>2, <2>3, <2>4
<1>6. WatermarkInv'
  <2>1. ASSUME NEW e \in 1..Bottom PROVE MarkOK(e)'
    <3>1. CASE e = d
      BY <1>a, <1>5, <3>1 DEF MarkOK
    <3>2. CASE e # d
      BY <1>a, <1>b, <1>4, <2>1, <3>2, MarkStays DEF WatermarkInv
    <3> QED BY <3>1, <3>2
  <2> QED BY <1>4, <2>1 DEF WatermarkInv
<1>7. Len(hist') = d
  BY <1>b, <1>4 DEF Bottom
<1> QED BY <1>5, <1>6, <1>7

LEMMA TurnMarks ==
    ASSUME WindowInv, WatermarkInv,
           Respond \/ Read \/ Continue
    PROVE  WatermarkInv'
<1>a. WindowTyped /\ WindowTyped'
  BY RespondKept, ReadKept, ContinueKept DEF WindowInv
<1>b. PICK d \in 1..Bottom : d = Bottom
  BY <1>a, BottomTyped
<1>c. /\ hist[d] \in Seq(Entries) /\ Len(hist[d]) \in Nat /\ mark[d] \in Int
  BY <1>a, <1>b, BottomTyped, HistorySeq DEF WindowTyped
<1>1. MarkOK(d)
  BY <1>b DEF WatermarkInv
<1>2. /\ Bottom' = Bottom /\ mark' = mark /\ \A e \in 1..Bottom : e # d => hist'[e] = hist[e]
  BY <1>b, RespondKept, ReadKept, ContinueKept
<1>3. MarkOK(d)'
  <2>1. CASE Respond
    <3>1. /\ hist'[d] \in Seq(Entries) /\ Len(hist'[d]) = Len(hist[d]) + 2 /\ pc = "asked"
          /\ \A i \in 1..Len(hist[d]) : hist'[d][i] = hist[d][i]
          /\ \A i \in (Len(hist[d]) + 1)..Len(hist'[d]) : hist'[d][i].body # "marker"
      BY <1>b, <2>1, RespondKept
    <3>2. Len(hist[d]) <= Len(hist'[d]) /\ Len(hist[d]) < Len(hist'[d])
      BY <1>c, <3>1
    <3> QED BY <1>c, <1>1, <1>2, <3>1, <3>2, MarkUnderGrowth
  <2>2. CASE Read
    <3>1. /\ hist'[d] \in Seq(Entries) /\ Len(hist'[d]) = Len(hist[d]) + 1 /\ pc = "calls"
          /\ \A i \in 1..Len(hist[d]) : hist'[d][i] = hist[d][i]
          /\ \A i \in (Len(hist[d]) + 1)..Len(hist'[d]) : hist'[d][i].body # "marker"
      BY <1>b, <2>2, ReadKept
    <3>2. Len(hist[d]) <= Len(hist'[d]) /\ Len(hist[d]) < Len(hist'[d])
      BY <1>c, <3>1
    <3> QED BY <1>c, <1>1, <1>2, <3>1, <3>2, MarkUnderGrowth
  <2>3. CASE Continue
    <3>1. /\ pc = "calls" /\ pc' = "ready"
          /\ \/ hist'[d] = Front(hist[d]) /\ hist[d] # <<>>
             \/ hist'[d] = hist[d]
      BY <1>b, <2>3, ContinueKept
    <3>2. mark[d] < Len(hist[d]) /\ Lean(hist[d], mark[d])
      BY <1>b, <1>1, <3>1 DEF MarkOK
    <3>3. CASE hist'[d] = Front(hist[d]) /\ hist[d] # <<>>
      <4>1. Len(Front(hist[d])) = Len(hist[d]) - 1 /\ Lean(Front(hist[d]), mark[d])
        BY <1>c, <3>2, <3>3, Shortened
      <4>2. mark[d] <= Len(Front(hist[d]))
        BY <1>c, <3>2, <4>1
      <4> QED BY <1>2, <3>1, <3>3, <4>1, <4>2 DEF MarkOK
    <3>4. CASE hist'[d] = hist[d]
      <4>1. mark[d] <= Len(hist[d])
        BY <1>c, <3>2
      <4> QED BY <1>2, <3>1, <3>2, <3>4, <4>1 DEF MarkOK
    <3> QED BY <3>1, <3>3, <3>4
  <2> QED BY <2>1, <2>2, <2>3
<1>4. ASSUME NEW e \in 1..Bottom, e # d PROVE MarkOK(e)'
  BY <1>b, <1>2, <1>4, MarkStays DEF WatermarkInv
<1> QED BY <1>2, <1>3, <1>4 DEF WatermarkInv

\* A paused history comes back as it was, pruned, or as a brief; seeds come behind it.
LEMMA ReturnMarks ==
    ASSUME SeedsDistinct, WindowInv, WatermarkInv, DelegateReturns
    PROVE  WatermarkInv'
<1>a. WindowTyped /\ WindowTyped'
  BY DelegateReturnsKept DEF WindowInv
<1>b. PICK d \in 1..Bottom : d = Bottom
  BY <1>a, BottomTyped
<1>c. /\ hist[d] \in Seq(Entries) /\ Len(hist[d]) \in Nat /\ mark[d] \in Int /\ d \in 1..MaxDepth
  BY <1>a, <1>b, BottomTyped, HistorySeq DEF WindowTyped
<1>1. MarkOK(d)
  BY <1>b DEF WatermarkInv
<1>2. /\ Bottom' = Bottom /\ mark' = mark /\ \A e \in 1..Bottom : e # d => hist'[e] = hist[e]
      /\ pc = "away" /\ pc' = "ready"
  BY <1>b, DelegateReturnsKept
<1>3. PICK seeds \in SeedLists, body \in {"full", "error"} :
        hist'[d] = Seeded(Resumed(d), seeds, body)
  BY <1>b, DelegateReturnsKept
<1>4. seeds \in Seq(Keys) /\ \A i, j \in DOMAIN seeds : seeds[i] = seeds[j] => i = j
  BY KeysAssumption, WindowBoundsAssumption DEF SeedsDistinct
<1>5. PICK r : r = Resumed(d)
  OBVIOUS
<1>6. /\ r \in Seq(Entries)
      /\ \/ r = <<Summary>> /\ Len(r) = 1
         \/ /\ Len(r) = Len(hist[d])
            /\ \A m \in Int : Lean(hist[d], m) => Lean(r, m)
  BY <1>c, <1>5, ResumedKept
<1>7. mark[d] <= Len(hist[d]) /\ Lean(hist[d], mark[d])
  BY <1>1, <1>2 DEF MarkOK
<1>8. CASE r = <<Summary>> /\ Len(r) = 1
  <2>1. r[1] = Summary
    BY <1>8
  <2>2. Lean(Seeded(r, seeds, body), Len(Seeded(r, seeds, body)))
    BY <1>4, <1>6, <1>8, <2>1, BriefIsLean
  <2>3. MarkOK(d)'
    BY <1>b, <1>2, <1>3, <1>5, <2>2 DEF MarkOK
  <2>4. ASSUME NEW e \in 1..Bottom, e # d PROVE MarkOK(e)'
    BY <1>b, <1>2, <2>4, MarkStays DEF WatermarkInv
  <2> QED BY <1>2, <2>3, <2>4 DEF WatermarkInv
<1>9. CASE /\ Len(r) = Len(hist[d])
           /\ \A m \in Int : Lean(hist[d], m) => Lean(r, m)
  <2>1. PICK g : g = Seeded(r, seeds, body)
    OBVIOUS
  <2>2. PICK S : S = {seeds[i] : i \in DOMAIN seeds}
    OBVIOUS
  <2>3. /\ g \in Seq(Entries) /\ Len(r) <= Len(g)
        /\ \A m \in Int : m <= Len(r) /\ Lean(r, m) => Lean(g, m)
    <3>1. \A i \in DOMAIN seeds : seeds[i] \in S
      BY <2>2
    <3> QED BY <1>4, <1>6, <2>1, <3>1, SeededHolds
  <2>4. Lean(g, mark[d])
    BY <1>c, <1>7, <1>9, <2>3
  <2>5. mark[d] <= Len(g)
    <3>1. Len(g) \in Nat
      BY <2>3, HistorySeq
    <3> QED BY <1>c, <1>7, <1>9, <2>3, <3>1
  <2>6. MarkOK(d)'
    BY <1>2, <1>3, <1>5, <2>1, <2>4, <2>5 DEF MarkOK
  <2>7. ASSUME NEW e \in 1..Bottom, e # d PROVE MarkOK(e)'
    BY <1>b, <1>2, <2>7, MarkStays DEF WatermarkInv
  <2> QED BY <1>2, <2>6, <2>7 DEF WatermarkInv
<1> QED BY <1>6, <1>8, <1>9

LEMMA PopMarks ==
    ASSUME WindowInv, WatermarkInv, PopChild
    PROVE  WatermarkInv'
<1>a. WindowTyped
  BY DEF WindowInv
<1>1. /\ mark' = mark /\ pc = "done" /\ pc' = "ready"
      /\ Bottom' = Bottom - 1 /\ Bottom' \in 1..Bottom
      /\ \A e \in 1..Bottom' : e # Bottom' => hist'[e] = hist[e]
      /\ hist'[Bottom'] = Resumed(Bottom')
  BY PopChildKept
<1>2. PICK d \in 1..Bottom : d = Bottom'
  BY <1>1
<1>3. /\ hist[d] \in Seq(Entries) /\ Len(hist[d]) \in Nat /\ mark[d] \in Int /\ d \in 1..MaxDepth
      /\ Bottom \in Nat /\ d # Bottom
  <2>1. hist[d] \in Seq(Entries) /\ d \in 1..MaxDepth /\ Bottom \in Nat
    BY <1>a, BottomTyped
  <2>2. Len(hist[d]) \in Nat
    BY <2>1, HistorySeq
  <2>3. mark[d] \in Int
    BY <1>a, <2>1 DEF WindowTyped
  <2>4. d # Bottom
    BY <1>1, <1>2, <2>1
  <2> QED BY <2>1, <2>2, <2>3, <2>4
<1>4. \A e \in 1..d : e \in 1..Bottom /\ e # Bottom
  BY <1>1, <1>2, <1>3
<1>5. mark[d] <= Len(hist[d]) /\ Lean(hist[d], mark[d])
  BY <1>2, <1>3 DEF WatermarkInv, MarkOK
<1>6. PICK r : r = Resumed(d)
  OBVIOUS
<1>7. \/ Lean(r, Len(r))
      \/ Len(r) = Len(hist[d]) /\ \A m \in Int : Lean(hist[d], m) => Lean(r, m)
  BY <1>3, <1>6, ResumedKept
<1>8. hist'[d] = r
  BY <1>1, <1>2, <1>6
<1>9. MarkOK(d)'
  <2>1. CASE Lean(r, Len(r))
    BY <1>1, <1>2, <1>8, <2>1 DEF MarkOK
  <2>2. CASE Len(r) = Len(hist[d]) /\ \A m \in Int : Lean(hist[d], m) => Lean(r, m)
    BY <1>1, <1>3, <1>5, <1>8, <2>2 DEF MarkOK
  <2> QED BY <1>7, <2>1, <2>2
<1>10. ASSUME NEW e \in 1..d, e # d PROVE MarkOK(e)'
  BY <1>1, <1>2, <1>4, <1>10, MarkStays DEF WatermarkInv
<1> QED BY <1>2, <1>9, <1>10 DEF WatermarkInv

LEMMA SpawnMarks ==
    ASSUME WindowInv, WatermarkInv, Spawn
    PROVE  WatermarkInv'
<1>a. WindowTyped
  BY DEF WindowInv
<1>1. /\ mark' = mark /\ pc = "calls" /\ pc' = "ready"
      /\ Bottom' = Bottom + 1 /\ hist'[Bottom + 1] = <<>>
      /\ \A d \in 1..Bottom : hist'[d] = hist[d]
  BY SpawnKept
<1>2. Bottom \in Nat
  BY <1>a, BottomTyped
<1>3. ASSUME NEW e \in 1..Bottom PROVE MarkOK(e)'
  BY <1>1, <1>2, MarkStays DEF WatermarkInv
<1>4. PICK n : n = Bottom + 1
  OBVIOUS
<1>5. \A m : Lean(<<>>, m)
  <2>1. DOMAIN <<>> = {}
    OBVIOUS
  <2> QED BY <2>1 DEF Lean
<1>6. MarkOK(n)'
  <2>1. hist'[n] = <<>> /\ n = Bottom'
    BY <1>1, <1>4
  <2>2. Lean(hist'[n], Len(hist'[n]))
    BY <1>5, <2>1
  <2> QED BY <1>1, <2>1, <2>2 DEF MarkOK
<1>7. \A e \in 1..Bottom' : e \in 1..Bottom \/ e = n
  BY <1>1, <1>2, <1>4
<1> QED BY <1>3, <1>6, <1>7 DEF WatermarkInv

LEMMA PruneMarks ==
    ASSUME WindowInv, WatermarkInv, Prune \/ Compact
    PROVE  WatermarkInv'
<1>a. WindowTyped /\ pc = "idle" /\ pc' = "idle"
  BY DEF WindowInv, Prune, Compact, turnVars
<1>b. PICK d \in 1..Bottom : d = Bottom
  BY <1>a, BottomTyped
<1>c. /\ hist[d] \in Seq(Entries) /\ Len(hist[d]) \in Nat /\ mark \in [1..MaxDepth -> Int]
      /\ d \in 1..MaxDepth /\ \A e \in 1..Bottom : e \in 1..MaxDepth
  BY <1>a, <1>b, BottomTyped, HistorySeq DEF WindowTyped
<1>1. /\ mark' = [mark EXCEPT ![d] = Len(hist[d])] /\ Bottom' = Bottom
      /\ hist'[d] = Pruned(hist[d])
      /\ \A e \in 1..Bottom : e # d => hist'[e] = hist[e]
  BY <1>a, <1>b, DoPruneKept DEF Prune, Compact
<1>2. mark'[d] = Len(hist[d]) /\ \A e \in 1..Bottom : e # d => mark'[e] = mark[e]
  BY <1>c, <1>1
<1>3. MarkOK(d)'
  <2>1. Len(hist'[d]) = Len(hist[d]) /\ Lean(hist'[d], Len(hist[d]))
    BY <1>c, <1>1, PruneKeeps
  <2> QED BY <1>a, <1>c, <1>2, <2>1 DEF MarkOK
<1>4. ASSUME NEW e \in 1..Bottom, e # d PROVE MarkOK(e)'
  BY <1>a, <1>1, <1>2, <1>4, MarkStays DEF WatermarkInv
<1> QED BY <1>1, <1>3, <1>4 DEF WatermarkInv

LEMMA WatermarkStep ==
    ASSUME SeedsDistinct, WindowInv, WatermarkInv, [WindowNext]_windowVars
    PROVE  WatermarkInv'
<1>1. CASE Request
  BY <1>1, RequestMarks
<1>2. CASE Respond \/ Read \/ Continue
  BY <1>2, TurnMarks
<1>3. CASE DelegateReturns
  BY <1>3, ReturnMarks
<1>4. CASE PopChild \/ Spawn
  BY <1>4, PopMarks, SpawnMarks
<1>5. CASE Prune \/ Compact
  BY <1>5, PruneMarks
\* The others leave the histories, and do not end at a turn's calls or its readiness.
<1>6. CASE \/ SubmitMessage \/ TakeInput \/ Cancelled \/ Finish \/ Delegate
           \/ ChildWorks \/ (\E d \in 1..MaxDepth : Draft(d)) \/ Tick
           \/ Attach \/ Restart \/ Tell \/ UNCHANGED windowVars
  <2>1. hist' = hist /\ mark' = mark
    BY <1>6 DEF SubmitMessage, TakeInput, Cancelled, Finish, Delegate, ChildWorks,
         Draft, Tick, Attach, Restart, Tell, windowVars
  <2>2. pc = "ready" => pc' = "ready"
    BY <1>6 DEF SubmitMessage, TakeInput, Cancelled, Finish, Delegate, ChildWorks,
         Draft, Tick, Attach, Restart, Tell, windowVars, turnVars
  <2>3. pc' = "calls" => pc = "calls"
    BY <1>6 DEF SubmitMessage, TakeInput, Cancelled, Finish, Delegate, ChildWorks,
         Draft, Tick, Attach, Restart, Tell, windowVars, turnVars
  <2>4. Bottom' = Bottom
    BY <2>1 DEF Bottom
  <2>5. ASSUME NEW d \in 1..Bottom PROVE MarkOK(d)'
    BY <2>1, <2>2, <2>3, <2>4, MarkStays DEF WatermarkInv
  <2> QED BY <2>4, <2>5 DEF WatermarkInv
<1> QED BY <1>1, <1>2, <1>3, <1>4, <1>5, <1>6 DEF WindowNext, OldSession, Turns

\* The watermark of every depth tells of its history, if no subagent seeds a call twice.
THEOREM WatermarksTell ==
    SeedsDistinct => (WindowSpec => []WatermarkInv)
<1> SUFFICES ASSUME SeedsDistinct PROVE WindowSpec => []WatermarkInv
  OBVIOUS
<1>1. WindowInit => WatermarkInv
  <2> SUFFICES ASSUME WindowInit PROVE WatermarkInv
    OBVIOUS
  <2>1. /\ Len(hist) = 1 /\ hist[1] = <<>> /\ Bottom = 1 /\ mark[1] = -1 /\ pc = "idle"
    <3>1. MaxDepth \in Nat \ {0}
      BY KeysAssumption, WindowBoundsAssumption
    <3>2. hist = << <<>> >> /\ mark = [d \in 1..MaxDepth |-> -1] /\ pc = "idle"
      BY DEF WindowInit
    <3> QED BY <3>1, <3>2 DEF Bottom
  <2>2. \A m : Lean(<<>>, m)
    <3>1. DOMAIN <<>> = {}
      OBVIOUS
    <3> QED BY <3>1 DEF Lean
  <2>3. mark[1] <= Len(hist[1])
    <3>1. Len(<<>>) = 0 /\ -1 <= 0
      OBVIOUS
    <3> QED BY <2>1, <3>1
  <2>4. \A d \in 1..Bottom : d = 1
    BY <2>1
  <2> QED BY <2>1, <2>2, <2>3, <2>4 DEF WatermarkInv, MarkOK
<1>2. WindowInv /\ WatermarkInv /\ [WindowNext]_windowVars => WatermarkInv'
  BY WatermarkStep
<1>3. WindowSpec => []WindowInv
  BY WindowInvariance
<1> QED BY <1>1, <1>2, <1>3, PTL DEF WindowSpec

\* "Pruning is free" when the cache is cold (prune.rs): no request goes out then with a
\* body that could be elided, if no subagent seeds a call twice.
THEOREM ColdRequestsLean ==
    SeedsDistinct => (WindowSpec => ColdRequestsPruned)
<1> SUFFICES ASSUME SeedsDistinct PROVE WindowSpec => ColdRequestsPruned
  OBVIOUS
<1> DEFINE Pruning == Sends /\ Cold(idle) => Superseded(hist'[Len(hist')]) = {}
<1>1. WindowInv /\ WatermarkInv /\ [WindowNext]_windowVars => [Pruning]_windowVars
  BY RequestsCounted, RequestMarks DEF Sends
<1>2. WindowSpec => []WindowInv
  BY WindowInvariance
<1>3. WindowSpec => []WatermarkInv
  BY WatermarksTell
<1> QED BY <1>1, <1>2, <1>3, PTL DEF WindowSpec, ColdRequestsPruned
=============================================================================
