-------------------------- MODULE PlanExecutorProofs --------------------------
(***************************************************************************)
(* Machine-checked proofs about the plan executor, for any plans, steps,   *)
(* dependencies, repositories and invocations, runs that die at any point  *)
(* and any number of commits by others.                                    *)
(*                                                                         *)
(* What a run knows of its steps is its own (MemInv).  What it may assume  *)
(* of the branch it works on rests on one fact: a branch that exists is    *)
(* never begun again, so that two runs which both hold the slot never work *)
(* on the same branch (Owned, Sole).                                       *)
(***************************************************************************)
EXTENDS PlanExecutor, WellFoundedInduction, TLAPS

\* The stages in which a run processes a step, ...
Working == {"implement", "test", "rebase", "retest", "resolve", "ff", "record"}
\* ... and those in which its branch is on the way to the main worktree.
Landing == {"rebase", "retest", "resolve", "ff"}

\* The step a run processes is one of its plan's, and counted as such.
AtStep(r) ==
    pc[r] \in Working =>
        cur[r] \in Mine(r) /\ sched[r][cur[r]] \in {"running", "testing", "merging"}

\* What is still in the batch is eligible.
BatchOK(r) ==
    /\ \A s \in batch[r] : s \in Mine(r) /\ sched[r][s] = "pending"
    /\ \A s \in batch[r] : \A d \in Deps[s] : sched[r][d] = "merged"
    /\ pc[r] = "create" => batch[r] # {}

\* A step that was begun had its dependencies merged.
DepsMerged(r) ==
    \A s \in Steps : sched[r][s] # "pending" => \A d \in Deps[s] : sched[r][d] = "merged"

\* A plan in the shared tree lands nothing.
OnBranch(r) == pc[r] \in Landing => ~ InTree(r)

RunOK(r) == AtStep(r) /\ BatchOK(r) /\ DepsMerged(r) /\ OnBranch(r)
MemInv == \A r \in Runs : RunOK(r)

\* The run works on the branch of its step: the branch exists, and no other run
\* works on it.
Owns(r) == pc[r] \in Working /\ ~ InTree(r)
Owned == \A r \in Runs : Owns(r) => branch[cur[r]] # NoBranch
Sole == \A r, t \in Runs : Owns(r) /\ Owns(t) /\ cur[r] = cur[t] => r = t

\* The work of the step is committed from the first test on, and what is about to
\* land is what was tested; then it has landed.
WorkOK(r) ==
    /\ Owns(r) /\ pc[r] \notin {"implement", "record"} => cur[r] \in ToSet(branch[cur[r]])
    /\ pc[r] = "ff" => branch[cur[r]] = tested[r]
    /\ pc[r] = "record" => Landed(cur[r])
    /\ pc[r] = "test" /\ InTree(r) => Landed(cur[r])
Committed == loose = {} /\ \A r \in Runs : WorkOK(r)

IInv ==
    /\ TypeOK
    /\ MemInv
    /\ Owned
    /\ Sole
    /\ AlwaysCommits => Committed /\ DoneStepsLanded
    /\ AlwaysCommits /\ BaseIsHead => BuildsOnDependencies

-----------------------------------------------------------------------------
(***************************************************************************)
(* Histories.                                                              *)
(***************************************************************************)

\* A branch that does not exist has no history.
LEMMA NoBranchApart == NoBranch \notin Histories
  BY NoneAssumption DEF NoBranch, Histories

\* A commit is added to a history.
LEMMA AppendFacts ==
    ASSUME NEW h \in Histories, NEW x \in Steps \cup {Outside}
    PROVE  /\ Append(h, x) \in Histories
           /\ ToSet(h) \subseteq ToSet(Append(h, x))
           /\ x \in ToSet(Append(h, x))
<1>1. Append(h, x) \in Histories
  BY DEF Histories
<1>2. Len(Append(h, x)) = Len(h) + 1 /\ Append(h, x)[Len(h) + 1] = x /\ Len(h) \in Nat
  BY DEF Histories
<1>3. DOMAIN h = 1 .. Len(h) /\ DOMAIN Append(h, x) = 1 .. (Len(h) + 1)
  BY <1>2 DEF Histories
<1>4. \A i \in DOMAIN h : i \in DOMAIN Append(h, x) /\ Append(h, x)[i] = h[i]
  BY <1>3 DEF Histories
<1>5. ToSet(h) \subseteq ToSet(Append(h, x))
  BY <1>4 DEF ToSet
<1>6. x \in ToSet(Append(h, x))
  BY <1>2, <1>3 DEF ToSet
<1> QED BY <1>1, <1>5, <1>6

\* Some commits of one step are added to a history.
LEMMA ConcatFacts ==
    ASSUME NEW h \in Histories, NEW s \in Steps, NEW part \in {<<>>, <<s>>}
    PROVE  /\ h \o part \in Histories
           /\ ToSet(h) \subseteq ToSet(h \o part)
           /\ part = <<s>> => s \in ToSet(h \o part)
<1>1. CASE part = <<>>
  BY <1>1 DEF Histories
<1>2. CASE part = <<s>>
  <2>1. h \o part = Append(h, s)
    BY <1>2 DEF Histories
  <2> QED BY <2>1, AppendFacts
<1> QED BY <1>1, <1>2

\* A history keeps its commits when it is fast-forwarded.
LEMMA PrefixFacts ==
    ASSUME NEW h \in Histories, NEW g \in Histories, IsPrefix(h, g)
    PROVE  ToSet(h) \subseteq ToSet(g)
<1>1. Len(h) \in Nat /\ Len(g) \in Nat /\ Len(h) <= Len(g)
  BY DEF IsPrefix, Histories
<1>2. DOMAIN h = 1 .. Len(h) /\ DOMAIN g = 1 .. Len(g)
  BY DEF Histories
<1>3. \A i \in 1 .. Len(h) : h[i] = SubSeq(g, 1, Len(h))[i]
  BY DEF IsPrefix
<1>4. \A i \in 1 .. Len(h) : SubSeq(g, 1, Len(h))[i] = g[i]
  BY <1>1 DEF Histories
<1>5. \A i \in DOMAIN h : i \in DOMAIN g /\ h[i] = g[i]
  BY <1>1, <1>2, <1>3, <1>4
<1> QED BY <1>5 DEF ToSet

\* Some numbers have a least one.
Less == {z \in Nat \X Nat : z[1] < z[2]}

LEMMA LeastIn ==
    ASSUME NEW T \in SUBSET Nat, T # {}
    PROVE  \E n \in T : \A m \in T : n <= m
<1>1. IsWellFoundedOn(Less, Nat)
  BY NatLessThanWellFounded DEF OpToRel, Less
<1>2. PICK n \in T : \A m \in T : ~ (<<m, n>> \in Less)
  BY <1>1, WFMin
<1>3. ASSUME NEW m \in T PROVE n <= m
  <2>1. n \in Nat /\ m \in Nat /\ ~ (<<m, n>> \in Less)
    BY <1>2
  <2> QED BY <2>1 DEF Less
<1> QED BY <1>3

\* The first of some steps is one of them.
LEMMA FirstIn ==
    ASSUME NEW S \in SUBSET Steps, S # {}
    PROVE  First(S) \in S
<1> DEFINE T == {Position[s] : s \in S}
<1>1. T \in SUBSET Nat /\ T # {}
  BY PlansAssumption
<1>2. PICK n \in T : \A m \in T : n <= m
  <2> HIDE DEF T
  <2> QED BY <1>1, LeastIn
<1>3. PICK s \in S : Position[s] = n
  BY <1>2
<1>4. \A u \in S : Position[s] <= Position[u]
  BY <1>2, <1>3
<1> QED BY <1>3, <1>4 DEF First

-----------------------------------------------------------------------------
(***************************************************************************)
(* What the pieces of a step do.                                           *)
(***************************************************************************)

LEMMA GotoFacts ==
    ASSUME pc \in [Runs -> PC], NEW r \in Runs, NEW at \in PC, Goto(r, at)
    PROVE  /\ pc' \in [Runs -> PC]
           /\ pc'[r] = at
           /\ \A t \in Runs \ {r} : pc'[t] = pc[t]
  BY DEF Goto

LEMMA MarkFacts ==
    ASSUME sched \in [Runs -> [Steps -> States]], NEW r \in Runs, NEW s \in Steps,
           NEW state \in States, Mark(r, s, state)
    PROVE  /\ sched' \in [Runs -> [Steps -> States]]
           /\ sched'[r][s] = state
           /\ \A u \in Steps \ {s} : sched'[r][u] = sched[r][u]
           /\ \A t \in Runs \ {r} : sched'[t] = sched[t]
<1>1. sched' = [sched EXCEPT ![r] = [sched[r] EXCEPT ![s] = state]]
  BY DEF Mark
<1> QED BY <1>1

LEMMA OnwardFacts ==
    ASSUME NEW r \in Runs
    PROVE  /\ Onward(r) \in {"create", "loop", "quiesce"}
           /\ Onward(r) = "create" => batch[r] # {}
           /\ Onward(r) \in PC /\ Onward(r) \notin Working
  BY DEF Onward, PC, Working

LEMMA SuiteFacts ==
    ASSUME NEW r \in Runs
    PROVE  /\ AfterSuite(r) \in {"loop", "settle"}
           /\ AfterSuite(r) \in PC /\ AfterSuite(r) \notin Working
  BY DEF AfterSuite, PC, Working

-----------------------------------------------------------------------------
(***************************************************************************)
(* A step of one run leaves the others alone.                              *)
(***************************************************************************)

\* What is one run's own.
Untouched(t) ==
    /\ pc'[t] = pc[t] /\ sched'[t] = sched[t] /\ batch'[t] = batch[t]
    /\ cur'[t] = cur[t] /\ tested'[t] = tested[t]

LEMMA OthersFrame ==
    ASSUME TypeOK, NEW r \in Runs, Drive(r) \/ Stop(r)
    PROVE  plan' = plan /\ \A t \in Runs \ {r} : Untouched(t)
<1> USE DEF Untouched, Goto, Mark, mem
<1>a. /\ pc \in [Runs -> PC] /\ sched \in [Runs -> [Steps -> States]]
      /\ batch \in [Runs -> SUBSET Steps] /\ cur \in [Runs -> Steps \cup {None}]
      /\ tested \in [Runs -> Histories \cup {NoTip}]
  BY DEF TypeOK
<1>1. CASE CheckSlot(r)
  BY <1>a, <1>1 DEF CheckSlot
<1>2. CASE Refuse(r)
  BY <1>a, <1>2 DEF Refuse
<1>3. CASE Claim(r)
  BY <1>a, <1>3 DEF Claim
<1>4. CASE Prepare(r)
  BY <1>a, <1>4 DEF Prepare
<1>5. CASE NextBatch(r)
  BY <1>a, <1>5 DEF NextBatch
<1>6. CASE BeginStep(r)
  BY <1>a, <1>6 DEF BeginStep, Persist
<1>7. CASE Implement(r)
  BY <1>a, <1>7 DEF Implement
<1>8. CASE AwaitHuman(r)
  BY <1>a, <1>8 DEF AwaitHuman, Suspend
<1>9. CASE TestsPass(r)
  BY <1>a, <1>9 DEF TestsPass
<1>10. CASE TestsFail(r)
  BY <1>a, <1>10 DEF TestsFail, Persist
<1>11. CASE Rebase(r)
  BY <1>a, <1>11 DEF Rebase
<1>12. CASE RebaseConflict(r)
  BY <1>a, <1>12 DEF RebaseConflict
<1>13. CASE Retest(r)
  BY <1>a, <1>13 DEF Retest
<1>14. CASE Resolved(r)
  BY <1>a, <1>14 DEF Resolved
<1>15. CASE Escalate(r)
  BY <1>a, <1>15 DEF Escalate, Persist
<1>16. CASE FastForward(r)
  BY <1>a, <1>16 DEF FastForward
<1>17. CASE Record(r)
  BY <1>a, <1>17 DEF Record, RecordFrom, Persist
<1>18. CASE Quiesce(r)
  BY <1>a, <1>18 DEF Quiesce
<1>19. CASE RunSuite(r)
  BY <1>a, <1>19 DEF RunSuite
<1>20. CASE Settle(r)
  BY <1>a, <1>20 DEF Settle
<1>21. CASE FinalSuite(r)
  BY <1>a, <1>21 DEF FinalSuite
<1>22. CASE Complete(r)
  BY <1>a, <1>22 DEF Complete
<1>23. CASE Stop(r)
  BY <1>a, <1>23 DEF Stop
<1> QED BY <1>1, <1>2, <1>3, <1>4, <1>5, <1>6, <1>7, <1>8, <1>9, <1>10, <1>11, <1>12, <1>13, <1>14, <1>15, <1>16, <1>17, <1>18, <1>19, <1>20, <1>21, <1>22, <1>23 DEF Drive

-----------------------------------------------------------------------------
(***************************************************************************)
(* What a run knows: MemInv.                                               *)
(***************************************************************************)

\* A step that changes nothing a run knows of its steps.
LEMMA KeepStep ==
    ASSUME NEW r \in Runs, RunOK(r), plan' = plan,
           sched'[r] = sched[r], batch'[r] = batch[r], cur'[r] = cur[r],
           pc'[r] \in Working => pc[r] \in Working,
           pc'[r] = "create" => batch[r] # {},
           pc'[r] \in Landing => ~ InTree(r)
    PROVE  RunOK(r)'
<1>1. AtStep(r)'
  BY DEF RunOK, AtStep, Mine
<1>2. BatchOK(r)'
  BY DEF RunOK, BatchOK, Mine
<1>3. DepsMerged(r)'
  BY DEF RunOK, DepsMerged
<1>4. OnBranch(r)'
  BY DEF RunOK, OnBranch, InTree
<1> QED BY <1>1, <1>2, <1>3, <1>4 DEF RunOK

\* A step that marks the step a run processes.
LEMMA MarkStep ==
    ASSUME TypeOK, NEW r \in Runs, RunOK(r), plan' = plan, pc[r] \in Working,
           NEW state \in States, state # "pending", Mark(r, cur[r], state),
           batch'[r] = batch[r], cur'[r] = cur[r],
           pc'[r] \in Working => state \in {"running", "testing", "merging"},
           pc'[r] = "create" => batch[r] # {},
           pc'[r] \in Landing => ~ InTree(r)
    PROVE  RunOK(r)'
<1> DEFINE c == cur[r]
<1>1. c \in Steps /\ c \in Mine(r) /\ sched[r][c] \in {"running", "testing", "merging"}
  BY DEF RunOK, AtStep, Mine, StepsOf
<1>2. /\ sched'[r][c] = state
      /\ \A u \in Steps \ {c} : sched'[r][u] = sched[r][u]
  BY <1>1, MarkFacts DEF TypeOK
<1>3. \A s \in Steps : Deps[s] \subseteq Steps
  BY DepsAssumption
<1>4. batch[r] \subseteq Steps
  BY DEF TypeOK
<1> HIDE DEF c
<1>5. AtStep(r)'
  BY <1>1, <1>2 DEF AtStep, Mine, c
<1>6. BatchOK(r)'
  BY <1>1, <1>2, <1>3, <1>4 DEF RunOK, BatchOK, Mine
<1>7. DepsMerged(r)'
  BY <1>1, <1>2, <1>3 DEF RunOK, DepsMerged
<1>8. OnBranch(r)'
  BY DEF OnBranch, InTree
<1> QED BY <1>5, <1>6, <1>7, <1>8 DEF RunOK

\* A new batch.
LEMMA NextBatchKnows ==
    ASSUME TypeOK, NEW r \in Runs, RunOK(r), NextBatch(r)
    PROVE  RunOK(r)'
<1>1. batch'[r] = {s \in Steps : Eligible(r, s)}
  BY DEF NextBatch, TypeOK
<1>2. pc'[r] = IF batch'[r] = {} THEN "settle" ELSE "create"
  BY DEF NextBatch, TypeOK, Goto
<1>3. plan' = plan /\ sched' = sched /\ cur' = cur
  BY DEF NextBatch
<1>4. AtStep(r)'
  BY <1>2 DEF AtStep, Working
<1>5. BatchOK(r)'
  BY <1>1, <1>2, <1>3 DEF BatchOK, Eligible, Finished, Mine
<1>6. DepsMerged(r)'
  BY <1>3 DEF RunOK, DepsMerged
<1>7. OnBranch(r)'
  BY <1>2 DEF OnBranch, Landing
<1> QED BY <1>4, <1>5, <1>6, <1>7 DEF RunOK

\* The first step of the batch, and what becomes of it.
LEMMA BeginFacts ==
    ASSUME TypeOK, NEW r \in Runs, RunOK(r), BeginStep(r)
    PROVE  /\ First(batch[r]) \in batch[r] /\ First(batch[r]) \in Steps
           /\ batch'[r] = batch[r] \ {First(batch[r])}
           /\ cur'[r] = First(batch[r])
           /\ sched'[r][First(batch[r])] = "running"
           /\ \A u \in Steps \ {First(batch[r])} : sched'[r][u] = sched[r][u]
           /\ sched' \in [Runs -> [Steps -> States]]
           /\ pc'[r] \in {"implement", "stopped"}
           /\ pc' \in [Runs -> PC]
           /\ plan' = plan
<1> DEFINE s == First(batch[r])
<1>1. batch[r] \in SUBSET Steps /\ batch[r] # {}
  BY DEF RunOK, BatchOK, BeginStep, TypeOK
<1>2. s \in batch[r] /\ s \in Steps
  BY <1>1, FirstIn
<1>3. batch'[r] = batch[r] \ {s} /\ cur'[r] = s /\ plan' = plan
  BY DEF BeginStep, TypeOK
<1>4. Mark(r, s, "running")
  BY DEF BeginStep
<1>5. /\ sched'[r][s] = "running"
      /\ \A u \in Steps \ {s} : sched'[r][u] = sched[r][u]
      /\ sched' \in [Runs -> [Steps -> States]]
  BY <1>2, <1>4, MarkFacts DEF TypeOK, States
<1>6. Goto(r, "implement") \/ Goto(r, "stopped")
  BY DEF BeginStep
<1>7. pc'[r] \in {"implement", "stopped"} /\ pc' \in [Runs -> PC]
  BY <1>6, GotoFacts DEF TypeOK, PC
<1> QED BY <1>2, <1>3, <1>5, <1>7

LEMMA BeginKnows ==
    ASSUME TypeOK, NEW r \in Runs, RunOK(r), BeginStep(r)
    PROVE  RunOK(r)'
<1> DEFINE s == First(batch[r])
<1>1. /\ s \in batch[r] /\ s \in Steps
      /\ batch'[r] = batch[r] \ {s} /\ cur'[r] = s
      /\ sched'[r][s] = "running"
      /\ \A u \in Steps \ {s} : sched'[r][u] = sched[r][u]
      /\ pc'[r] \in {"implement", "stopped"}
      /\ plan' = plan
  BY BeginFacts
<1> HIDE DEF s
<1>2. s \in Mine(r) /\ sched[r][s] = "pending" /\ \A d \in Deps[s] : sched[r][d] = "merged"
  BY <1>1 DEF RunOK, BatchOK
<1>3. \A u \in Steps : Deps[u] \subseteq Steps
  BY DepsAssumption
<1>4. batch[r] \subseteq Steps
  BY DEF TypeOK
<1>5. AtStep(r)'
  BY <1>1, <1>2 DEF AtStep, Mine
<1>6. BatchOK(r)'
  BY <1>1, <1>2, <1>3, <1>4 DEF RunOK, BatchOK, Mine
<1>7. DepsMerged(r)'
  BY <1>1, <1>2, <1>3 DEF RunOK, DepsMerged
<1>8. OnBranch(r)'
  BY <1>1 DEF OnBranch, Landing
<1> QED BY <1>5, <1>6, <1>7, <1>8 DEF RunOK

LEMMA ActorKnows ==
    ASSUME TypeOK, NEW r \in Runs, RunOK(r), Drive(r) \/ Stop(r)
    PROVE  RunOK(r)'
<1>a. pc \in [Runs -> PC] /\ plan' = plan
  BY OthersFrame DEF TypeOK
<1>b. pc[r] \in Landing => ~ InTree(r)
  BY DEF RunOK, OnBranch
<1> USE DEF PC, Working, Landing
<1>1. CASE CheckSlot(r)
  <2>1. Goto(r, "checked") /\ sched' = sched /\ batch' = batch /\ cur' = cur
    BY <1>1 DEF CheckSlot, mem
  <2>2. pc'[r] = "checked"
    BY <1>a, <2>1, GotoFacts
  <2> QED BY <1>a, <1>b, <1>1, <2>1, <2>2, KeepStep DEF CheckSlot
<1>2. CASE Refuse(r)
  <2>1. Goto(r, "refused") /\ sched' = sched /\ batch' = batch /\ cur' = cur
    BY <1>2 DEF Refuse, mem
  <2>2. pc'[r] = "refused"
    BY <1>a, <2>1, GotoFacts
  <2> QED BY <1>a, <1>b, <1>2, <2>1, <2>2, KeepStep DEF Refuse
<1>3. CASE Claim(r)
  <2>1. Goto(r, "claimed") /\ sched' = sched /\ batch' = batch /\ cur' = cur
    BY <1>3 DEF Claim, mem
  <2>2. pc'[r] = "claimed"
    BY <1>a, <2>1, GotoFacts
  <2> QED BY <1>a, <1>b, <1>3, <2>1, <2>2, KeepStep DEF Claim
<1>4. CASE Prepare(r)
  <2>1. Goto(r, "loop") /\ sched' = sched /\ batch' = batch /\ cur' = cur
    BY <1>4 DEF Prepare, mem
  <2>2. pc'[r] = "loop"
    BY <1>a, <2>1, GotoFacts
  <2> QED BY <1>a, <1>b, <1>4, <2>1, <2>2, KeepStep DEF Prepare
<1>5. CASE NextBatch(r)
  BY <1>5, NextBatchKnows
<1>6. CASE BeginStep(r)
  BY <1>6, BeginKnows
<1>7. CASE Implement(r)
  <2>1. Goto(r, "test") /\ Mark(r, cur[r], "testing") /\ batch' = batch /\ cur' = cur
    BY <1>7 DEF Implement
  <2>2. pc'[r] = "test"
    BY <1>a, <2>1, GotoFacts, OnwardFacts
  <2>3. pc[r] \in Working
    BY <1>7 DEF Implement
  <2>4. "testing" \in States
    BY DEF States
  <2> QED BY <1>a, <2>1, <2>2, <2>3, <2>4, OnwardFacts, MarkStep
<1>8. CASE AwaitHuman(r)
  <2>1. Goto(r, Onward(r)) /\ Mark(r, cur[r], "awaiting_human") /\ batch' = batch /\ cur' = cur
    BY <1>8 DEF AwaitHuman, Suspend
  <2>2. pc'[r] = Onward(r)
    BY <1>a, <2>1, GotoFacts, OnwardFacts
  <2>3. pc[r] \in Working
    BY <1>8 DEF AwaitHuman, Suspend
  <2>4. "awaiting_human" \in States
    BY DEF States
  <2> QED BY <1>a, <2>1, <2>2, <2>3, <2>4, OnwardFacts, MarkStep
<1>9. CASE TestsPass(r)
  <2>1. batch' = batch /\ cur' = cur /\ pc[r] = "test"
    BY <1>9 DEF TestsPass
  <2>2. CASE InTree(r)
    <3>1. Goto(r, "record") /\ sched' = sched
      BY <1>9, <2>2 DEF TestsPass
    <3>2. pc'[r] = "record"
      BY <1>a, <3>1, GotoFacts
    <3> QED BY <1>a, <2>1, <3>1, <3>2, KeepStep
  <2>3. CASE ~ InTree(r)
    <3>1. Goto(r, "rebase") /\ Mark(r, cur[r], "merging")
      BY <1>9, <2>3 DEF TestsPass
    <3>2. pc'[r] = "rebase"
      BY <1>a, <3>1, GotoFacts
    <3>3. "merging" \in States
      BY DEF States
    <3> QED BY <1>a, <2>1, <2>3, <3>1, <3>2, <3>3, MarkStep
  <2> QED BY <2>2, <2>3
<1>10. CASE TestsFail(r)
  <2>1. Goto(r, Onward(r)) /\ Mark(r, cur[r], "failed") /\ batch' = batch /\ cur' = cur
    BY <1>10 DEF TestsFail
  <2>2. pc'[r] = Onward(r)
    BY <1>a, <2>1, GotoFacts, OnwardFacts
  <2>3. pc[r] \in Working
    BY <1>10 DEF TestsFail
  <2>4. "failed" \in States
    BY DEF States
  <2> QED BY <1>a, <2>1, <2>2, <2>3, <2>4, OnwardFacts, MarkStep
<1>11. CASE Rebase(r)
  <2>1. Goto(r, "retest") /\ sched' = sched /\ batch' = batch /\ cur' = cur
    BY <1>11 DEF Rebase, mem
  <2>2. pc'[r] = "retest"
    BY <1>a, <2>1, GotoFacts
  <2> QED BY <1>a, <1>b, <1>11, <2>1, <2>2, KeepStep DEF Rebase
<1>12. CASE RebaseConflict(r)
  <2>1. Goto(r, "resolve") /\ sched' = sched /\ batch' = batch /\ cur' = cur
    BY <1>12 DEF RebaseConflict, mem
  <2>2. pc'[r] = "resolve"
    BY <1>a, <2>1, GotoFacts
  <2> QED BY <1>a, <1>b, <1>12, <2>1, <2>2, KeepStep DEF RebaseConflict
<1>13. CASE Retest(r)
  <2>1. sched' = sched /\ batch' = batch /\ cur' = cur
    BY <1>13 DEF Retest
  <2>2. Goto(r, "ff") \/ Goto(r, "resolve")
    BY <1>13 DEF Retest
  <2>3. pc'[r] \in {"ff", "resolve"}
    BY <1>a, <2>2, GotoFacts, SuiteFacts
  <2> QED BY <1>a, <1>b, <1>13, <2>1, <2>3, SuiteFacts, KeepStep DEF Retest
<1>14. CASE Resolved(r)
  <2>1. Goto(r, "ff") /\ sched' = sched /\ batch' = batch /\ cur' = cur
    BY <1>14 DEF Resolved
  <2>2. pc'[r] = "ff"
    BY <1>a, <2>1, GotoFacts
  <2> QED BY <1>a, <1>b, <1>14, <2>1, <2>2, KeepStep DEF Resolved
<1>15. CASE Escalate(r)
  <2>1. Goto(r, Onward(r)) /\ Mark(r, cur[r], "failed") /\ batch' = batch /\ cur' = cur
    BY <1>15 DEF Escalate
  <2>2. pc'[r] = Onward(r)
    BY <1>a, <2>1, GotoFacts, OnwardFacts
  <2>3. pc[r] \in Working
    BY <1>15 DEF Escalate
  <2>4. "failed" \in States
    BY DEF States
  <2> QED BY <1>a, <2>1, <2>2, <2>3, <2>4, OnwardFacts, MarkStep
<1>16. CASE FastForward(r)
  <2>1. sched' = sched /\ batch' = batch /\ cur' = cur
    BY <1>16 DEF FastForward, mem
  <2>2. Goto(r, "record") \/ Goto(r, "stopped")
    BY <1>16 DEF FastForward
  <2>3. pc'[r] \in {"record", "stopped"}
    BY <1>a, <2>2, GotoFacts, SuiteFacts
  <2> QED BY <1>a, <1>b, <1>16, <2>1, <2>3, SuiteFacts, KeepStep DEF FastForward
<1>17. CASE Record(r)
  <2>1. Goto(r, Onward(r)) /\ Mark(r, cur[r], "merged") /\ batch' = batch /\ cur' = cur
    BY <1>17 DEF Record, RecordFrom
  <2>2. pc'[r] = Onward(r)
    BY <1>a, <2>1, GotoFacts, OnwardFacts
  <2>3. pc[r] \in Working
    BY <1>17 DEF Record, RecordFrom
  <2>4. "merged" \in States
    BY DEF States
  <2> QED BY <1>a, <2>1, <2>2, <2>3, <2>4, OnwardFacts, MarkStep
<1>18. CASE Quiesce(r)
  <2>1. sched' = sched /\ batch' = batch /\ cur' = cur
    BY <1>18 DEF Quiesce
  <2>2. Goto(r, "suite") \/ Goto(r, AfterSuite(r))
    BY <1>18 DEF Quiesce
  <2>3. pc'[r] \in {"suite", AfterSuite(r)}
    BY <1>a, <2>2, GotoFacts, SuiteFacts
  <2> QED BY <1>a, <1>b, <1>18, <2>1, <2>3, SuiteFacts, KeepStep DEF Quiesce
<1>19. CASE RunSuite(r)
  <2>1. sched' = sched /\ batch' = batch /\ cur' = cur
    BY <1>19 DEF RunSuite
  <2>2. Goto(r, AfterSuite(r)) \/ Goto(r, "settle")
    BY <1>19 DEF RunSuite
  <2>3. pc'[r] \in {AfterSuite(r), "settle"}
    BY <1>a, <2>2, GotoFacts, SuiteFacts
  <2> QED BY <1>a, <1>b, <1>19, <2>1, <2>3, SuiteFacts, KeepStep DEF RunSuite
<1>20. CASE Settle(r)
  <2>1. sched' = sched /\ batch' = batch /\ cur' = cur
    BY <1>20 DEF Settle, mem
  <2>2. Goto(r, "paused") \/ Goto(r, "finalSuite") \/ Goto(r, "complete")
    BY <1>20 DEF Settle
  <2>3. pc'[r] \in {"paused", "finalSuite", "complete"}
    BY <1>a, <2>2, GotoFacts, SuiteFacts
  <2> QED BY <1>a, <1>b, <1>20, <2>1, <2>3, SuiteFacts, KeepStep DEF Settle
<1>21. CASE FinalSuite(r)
  <2>1. sched' = sched /\ batch' = batch /\ cur' = cur
    BY <1>21 DEF FinalSuite
  <2>2. Goto(r, "complete") \/ Goto(r, "paused")
    BY <1>21 DEF FinalSuite
  <2>3. pc'[r] \in {"complete", "paused"}
    BY <1>a, <2>2, GotoFacts, SuiteFacts
  <2> QED BY <1>a, <1>b, <1>21, <2>1, <2>3, SuiteFacts, KeepStep DEF FinalSuite
<1>22. CASE Complete(r)
  <2>1. Goto(r, "completed") /\ sched' = sched /\ batch' = batch /\ cur' = cur
    BY <1>22 DEF Complete, mem
  <2>2. pc'[r] = "completed"
    BY <1>a, <2>1, GotoFacts
  <2> QED BY <1>a, <1>b, <1>22, <2>1, <2>2, KeepStep DEF Complete
<1>23. CASE Stop(r)
  <2>1. Goto(r, "stopped") /\ sched' = sched /\ batch' = batch /\ cur' = cur
    BY <1>23 DEF Stop, mem
  <2>2. pc'[r] = "stopped"
    BY <1>a, <2>1, GotoFacts
  <2> QED BY <1>a, <1>b, <1>23, <2>1, <2>2, KeepStep DEF Stop
<1> QED BY <1>1, <1>2, <1>3, <1>4, <1>5, <1>6, <1>7, <1>8, <1>9, <1>10, <1>11, <1>12, <1>13, <1>14, <1>15, <1>16, <1>17, <1>18, <1>19, <1>20, <1>21, <1>22, <1>23 DEF Drive

LEMMA MemInvStep ==
    ASSUME TypeOK, MemInv, [Next]_vars
    PROVE  MemInv'
<1>1. ASSUME NEW r \in Runs, Drive(r) \/ Stop(r) PROVE MemInv'
  <2>1. RunOK(r)'
    BY <1>1, ActorKnows DEF MemInv
  <2>2. ASSUME NEW t \in Runs, t # r PROVE RunOK(t)'
    <3>1. plan' = plan /\ Untouched(t)
      BY <1>1, <2>2, OthersFrame
    <3>2. RunOK(t)
      BY DEF MemInv
    <3> QED BY <3>1, <3>2, KeepStep DEF Untouched, RunOK, BatchOK, OnBranch
  <2> QED BY <2>1, <2>2 DEF MemInv
<1>2. ASSUME mem' = mem, pc' = pc PROVE MemInv'
  <2>1. ASSUME NEW t \in Runs PROVE RunOK(t)'
    <3>1. RunOK(t)
      BY DEF MemInv
    <3> QED BY <1>2, <3>1, KeepStep DEF mem, RunOK, BatchOK, OnBranch
  <2> QED BY <2>1 DEF MemInv
<1>3. CASE \E j \in Projects : CommitOutside(j)
  BY <1>2, <1>3 DEF CommitOutside
<1>4. CASE UNCHANGED vars
  BY <1>2, <1>4 DEF vars
<1> QED BY <1>1, <1>3, <1>4 DEF Next

-----------------------------------------------------------------------------
(***************************************************************************)
(* The types, which need the branch of a step to exist while it is landed. *)
(***************************************************************************)

\* Where a run is, and what it works on.
LEMMA PlaceTyped ==
    ASSUME TypeOK, NEW r \in Runs
    PROVE  /\ plan[r] \in Plans /\ Repo(r) \in Projects /\ Tip(r) \in Histories
           /\ Tip(r) # NoBranch /\ NoTip \notin Histories
           /\ <<>> \in Histories
           /\ BaseOf(r) \in Histories
<1>1. plan[r] \in Plans
  BY DEF TypeOK
<1>2. Repo(r) \in Projects
  BY <1>1, PlansAssumption DEF Repo
<1>3. Tip(r) \in Histories
  BY <1>2 DEF Tip, TypeOK
<1>4. <<>> \in Histories
  BY DEF Histories
<1> QED BY <1>1, <1>2, <1>3, <1>4, NoBranchApart DEF BaseOf, NoBranch, NoTip

LEMMA WorkTyped ==
    ASSUME TypeOK, NEW r \in Runs, RunOK(r), Owned, pc[r] \in Working
    PROVE  /\ cur[r] \in Steps /\ PlanOf[cur[r]] = plan[r]
           /\ ~ InTree(r) => branch[cur[r]] \in Histories
           /\ TreeOf(r) \in Histories
           /\ OwnWork(cur[r]) \in {<<>>, <<cur[r]>>}
<1>1. cur[r] \in Steps /\ PlanOf[cur[r]] = plan[r]
  BY DEF RunOK, AtStep, Mine, StepsOf
<1>2. ~ InTree(r) => branch[cur[r]] \in Histories
  BY <1>1 DEF Owned, Owns, TypeOK
<1>3. TreeOf(r) \in Histories
  BY <1>1, <1>2, PlaceTyped, AppendFacts DEF TreeOf
<1> QED BY <1>1, <1>2, <1>3 DEF OwnWork

LEMMA ActorTyped ==
    ASSUME TypeOK, NEW r \in Runs, RunOK(r), Owned, Drive(r) \/ Stop(r)
    PROVE  TypeOK'
<1>a. /\ plan[r] \in Plans /\ Repo(r) \in Projects /\ Tip(r) \in Histories
      /\ <<>> \in Histories
      /\ BaseOf(r) \in Histories
  BY PlaceTyped
<1>b. ASSUME pc[r] \in Working
      PROVE  /\ cur[r] \in Steps
             /\ ~ InTree(r) => branch[cur[r]] \in Histories
             /\ TreeOf(r) \in Histories
             /\ OwnWork(cur[r]) \in {<<>>, <<cur[r]>>}
  BY <1>b, WorkTyped
<1>c. pc[r] \in Landing => ~ InTree(r)
  BY DEF RunOK, OnBranch
<1>d. Onward(r) \in PC /\ AfterSuite(r) \in PC
  BY OnwardFacts, SuiteFacts
<1> USE DEF Working, Landing, db, git, mem
<1>1. CASE CheckSlot(r)
  BY <1>a, <1>b, <1>c, <1>d, <1>1 DEF CheckSlot, Goto, TypeOK, PC, Coarse
<1>2. CASE Refuse(r)
  BY <1>a, <1>b, <1>c, <1>d, <1>2 DEF Refuse, Goto, TypeOK, PC, Coarse
<1>3. CASE Claim(r)
  BY <1>a, <1>b, <1>c, <1>d, <1>3 DEF Claim, Goto, TypeOK, PC, Coarse
<1>4. CASE Prepare(r)
  BY <1>a, <1>b, <1>c, <1>d, <1>4 DEF Prepare, Goto, TypeOK, PC, Coarse
<1>5. CASE NextBatch(r)
  BY <1>a, <1>b, <1>c, <1>d, <1>5 DEF NextBatch, Goto, TypeOK, PC, Coarse
<1>6. CASE BeginStep(r)
  <2> DEFINE s == First(batch[r])
  <2>1. /\ s \in Steps /\ sched' \in [Runs -> [Steps -> States]]
        /\ pc' \in [Runs -> PC] /\ plan' = plan
    BY <1>6, BeginFacts
  <2>2. batch' = [batch EXCEPT ![r] = @ \ {s}] /\ cur' = [cur EXCEPT ![r] = s]
    BY <1>6 DEF BeginStep
  <2>3. Persist(s, "in_progress")
    BY <1>6 DEF BeginStep
  <2>4. \/ UNCHANGED <<branch, worktree>>
        \/ branch' = [branch EXCEPT ![s] = BaseOf(r)] /\ worktree' = worktree \cup {s}
    BY <1>6 DEF BeginStep
  <2>5. UNCHANGED <<status, tip, loose, outside, plan, stableTip, red, tested, green>>
    BY <1>6 DEF BeginStep
  <2> HIDE DEF s
  <2> QED BY ZenonT(40), <1>a, <2>1, <2>2, <2>3, <2>4, <2>5 DEF TypeOK, Persist, Coarse
<1>7. CASE Implement(r)
  <2>1. cur[r] \in Steps /\ Mark(r, cur[r], "testing") /\ "testing" \in States
    BY <1>b, <1>7 DEF Implement, States
  <2>2. sched' \in [Runs -> [Steps -> States]]
    BY <2>1, MarkFacts DEF TypeOK
  <2>3. pc' \in [Runs -> PC]
    BY <1>d, <1>7 DEF Implement, Goto, PC, TypeOK
  <2>a. \/ tip' = [tip EXCEPT ![Repo(r)] = Append(Tip(r), cur[r])] /\ UNCHANGED <<branch, loose>>
        \/ /\ ~ InTree(r) /\ branch' = [branch EXCEPT ![cur[r]] = Append(@, cur[r])]
           /\ UNCHANGED <<tip, loose>>
        \/ loose' = loose \cup {cur[r]} /\ UNCHANGED <<tip, branch>>
    BY <1>7 DEF Implement, Tip
  <2>b. Append(Tip(r), cur[r]) \in Histories
    BY <1>a, <2>1, AppendFacts
  <2>c. ~ InTree(r) => Append(branch[cur[r]], cur[r]) \in Histories
    BY <1>b, <2>1, <1>7, AppendFacts DEF Implement
  <2>5. tip' \in [Projects -> Histories]
    BY <1>a, <2>a, <2>b DEF TypeOK
  <2>6. branch' \in [Steps -> Histories \cup {NoBranch}]
    BY <2>1, <2>a, <2>c DEF TypeOK
  <2>7. loose' \subseteq Steps
    BY <2>1, <2>a DEF TypeOK
  <2>d. UNCHANGED <<db, worktree, outside, plan, batch, cur, stableTip, red, tested, green>>
    BY <1>7 DEF Implement
  <2> QED BY <2>2, <2>3, <2>5, <2>6, <2>7, <2>d DEF TypeOK
<1>8. CASE AwaitHuman(r)
  <2>1. cur[r] \in Steps /\ Mark(r, cur[r], "awaiting_human") /\ "awaiting_human" \in States
    BY <1>b, <1>8 DEF AwaitHuman, Suspend, States
  <2>2. sched' \in [Runs -> [Steps -> States]]
    BY <2>1, MarkFacts DEF TypeOK
  <2>3. pc' \in [Runs -> PC]
    BY <1>d, <1>8 DEF AwaitHuman, Suspend, Goto, PC, TypeOK
  <2>a. \/ UNCHANGED tip
        \/ \E part \in {<<>>, <<cur[r]>>} : tip' = [tip EXCEPT ![Repo(r)] = Tip(r) \o part]
    BY <1>8 DEF AwaitHuman, Suspend, Tip
  <2>b. \A part \in {<<>>, <<cur[r]>>} : Tip(r) \o part \in Histories
    BY <1>a, <2>1, ConcatFacts
  <2>5. tip' \in [Projects -> Histories]
    BY <1>a, <2>1, <2>a, <2>b DEF TypeOK
  <2> QED BY <2>2, <2>3, <2>5, <1>8 DEF AwaitHuman, Suspend, TypeOK
<1>9. CASE TestsPass(r)
  <2>1. cur[r] \in Steps /\ TreeOf(r) \in Histories /\ "merging" \in States
    BY <1>b, <1>9 DEF TestsPass, States
  <2>2. sched' \in [Runs -> [Steps -> States]]
    BY <2>1, <1>9, MarkFacts DEF TestsPass, TypeOK
  <2>a. Goto(r, "record") \/ Goto(r, "rebase")
    BY <1>9 DEF TestsPass
  <2>3. pc' \in [Runs -> PC]
    BY <2>a, GotoFacts DEF PC, TypeOK
  <2> QED BY <2>1, <2>2, <2>3, <1>9 DEF TestsPass, TypeOK
<1>10. CASE TestsFail(r)
  <2>1. cur[r] \in Steps /\ Mark(r, cur[r], "failed") /\ "failed" \in States
    BY <1>b, <1>10 DEF TestsFail, Persist, States
  <2>2. sched' \in [Runs -> [Steps -> States]]
    BY <2>1, MarkFacts DEF TypeOK
  <2>3. pc' \in [Runs -> PC]
    BY <1>d, <1>10 DEF TestsFail, Persist, Goto, PC, TypeOK
  <2>4. stepStatus' \in [Steps -> Coarse]
    BY <2>1, <1>10 DEF TestsFail, Persist, Coarse, TypeOK
  <2>5. branch' \in [Steps -> Histories \cup {NoBranch}] /\ worktree' \subseteq Steps /\ loose' \subseteq Steps
    BY <2>1, <1>10 DEF TestsFail, Persist, Teardown, TypeOK
  <2> QED BY <2>2, <2>3, <2>4, <2>5, <1>10 DEF TestsFail, Persist, TypeOK
<1>11. CASE Rebase(r)
  <2>1. cur[r] \in Steps /\ branch[cur[r]] \in Histories /\ TreeOf(r) \in Histories
    BY <1>b, <1>c, <1>11 DEF Rebase
  <2>2. Tip(r) \o OwnWork(cur[r]) \in Histories /\ Append(Tip(r), cur[r]) \in Histories
    BY <1>a, <1>b, <2>1, <1>11, AppendFacts, ConcatFacts DEF Rebase
  <2>a. Goto(r, "retest")
    BY <1>11 DEF Rebase
  <2>3. pc' \in [Runs -> PC]
    BY <2>a, GotoFacts DEF PC, TypeOK
  <2>4. tip' \in [Projects -> Histories] /\ branch' \in [Steps -> Histories \cup {NoBranch}]
    BY <1>a, <2>1, <2>2, <1>11 DEF Rebase, TypeOK
  <2> QED BY <2>1, <2>2, <2>3, <2>4, <1>11 DEF Rebase, TypeOK
<1>12. CASE RebaseConflict(r)
  BY <1>a, <1>b, <1>c, <1>d, <1>12 DEF RebaseConflict, Goto, TypeOK, PC, Coarse
<1>13. CASE Retest(r)
  <2>1. Goto(r, "ff") \/ Goto(r, "resolve")
    BY <1>13 DEF Retest
  <2>2. pc' \in [Runs -> PC]
    BY <1>d, <2>1, GotoFacts DEF PC, TypeOK
  <2>3. UNCHANGED tested \/ \E t \in Histories : tested' = [tested EXCEPT ![r] = t]
    BY <1>a, <1>b, <1>13 DEF Retest
  <2>4. tested' \in [Runs -> Histories \cup {NoTip}]
    BY <2>3 DEF TypeOK
  <2>5. (UNCHANGED red) /\ UNCHANGED <<db, git, plan, sched, batch, cur, stableTip, green>>
    BY <1>13 DEF Retest
  <2> QED BY <2>2, <2>4, <2>5 DEF TypeOK
<1>14. CASE Resolved(r)
  <2>1. cur[r] \in Steps /\ branch[cur[r]] \in Histories /\ TreeOf(r) \in Histories
    BY <1>b, <1>c, <1>14 DEF Resolved
  <2>2. Tip(r) \o OwnWork(cur[r]) \in Histories /\ Append(Tip(r), cur[r]) \in Histories
    BY <1>a, <1>b, <2>1, <1>14, AppendFacts, ConcatFacts DEF Resolved
  <2>a. Goto(r, "ff")
    BY <1>14 DEF Resolved
  <2>3. pc' \in [Runs -> PC]
    BY <2>a, GotoFacts DEF PC, TypeOK
  <2>b. /\ \/ branch' = [branch EXCEPT ![cur[r]] = Append(Tip(r), cur[r])]
           \/ branch' = branch
        /\ loose' = loose \ {cur[r]} \/ loose' = loose
        /\ \/ tested' = [tested EXCEPT ![r] = Append(Tip(r), cur[r])]
           \/ tested' = [tested EXCEPT ![r] = TreeOf(r)]
        /\ UNCHANGED <<db, tip, worktree, outside, plan, sched, batch, cur, stableTip, red, green>>
    BY <1>14 DEF Resolved
  <2>4. branch' \in [Steps -> Histories \cup {NoBranch}]
    BY <2>b, <2>1, <2>2 DEF TypeOK
  <2>5. tested' \in [Runs -> Histories \cup {NoTip}]
    BY <2>b, <2>1, <2>2 DEF TypeOK
  <2> QED BY <2>1, <2>2, <2>3, <2>4, <2>5, <2>b DEF db, TypeOK
<1>15. CASE Escalate(r)
  <2>1. cur[r] \in Steps /\ Mark(r, cur[r], "failed") /\ "failed" \in States
    BY <1>b, <1>15 DEF Escalate, Persist, States
  <2>2. sched' \in [Runs -> [Steps -> States]]
    BY <2>1, MarkFacts DEF TypeOK
  <2>3. pc' \in [Runs -> PC]
    BY <1>d, <1>15 DEF Escalate, Persist, Goto, PC, TypeOK
  <2>4. stepStatus' \in [Steps -> Coarse]
    BY <2>1, <1>15 DEF Escalate, Persist, Coarse, TypeOK
  <2> QED BY <2>2, <2>3, <2>4, <1>15 DEF Escalate, Persist, TypeOK
<1>16. CASE FastForward(r)
  <2>1. cur[r] \in Steps /\ branch[cur[r]] \in Histories /\ TreeOf(r) \in Histories
    BY <1>b, <1>c, <1>16 DEF FastForward
  <2>2. Tip(r) \o OwnWork(cur[r]) \in Histories /\ Append(Tip(r), cur[r]) \in Histories
    BY <1>a, <1>b, <2>1, <1>16, AppendFacts, ConcatFacts DEF FastForward
  <2>a. Goto(r, "record") \/ Goto(r, "stopped")
    BY <1>16 DEF FastForward
  <2>3. pc' \in [Runs -> PC]
    BY <2>a, GotoFacts DEF PC, TypeOK
  <2>4. tip' \in [Projects -> Histories] /\ branch' \in [Steps -> Histories \cup {NoBranch}]
    BY <1>a, <2>1, <2>2, <1>16 DEF FastForward, TypeOK
  <2> QED BY <2>1, <2>2, <2>3, <2>4, <1>16 DEF FastForward, TypeOK
<1>17. CASE Record(r)
  <2>1. cur[r] \in Steps /\ Mark(r, cur[r], "merged") /\ "merged" \in States
    BY <1>b, <1>17 DEF Record, RecordFrom, Persist, States
  <2>2. sched' \in [Runs -> [Steps -> States]]
    BY <2>1, MarkFacts DEF TypeOK
  <2>3. pc' \in [Runs -> PC]
    BY <1>d, <1>17 DEF Record, RecordFrom, Persist, Goto, PC, TypeOK
  <2>4. stepStatus' \in [Steps -> Coarse]
    BY <2>1, <1>17 DEF Record, RecordFrom, Persist, Coarse, TypeOK
  <2>5. branch' \in [Steps -> Histories \cup {NoBranch}] /\ worktree' \subseteq Steps /\ loose' \subseteq Steps
    BY <2>1, <1>17 DEF Record, RecordFrom, Persist, Teardown, TypeOK
  <2> QED BY <2>2, <2>3, <2>4, <2>5, <1>17 DEF Record, RecordFrom, Persist, TypeOK
<1>18. CASE Quiesce(r)
  <2>1. Goto(r, "suite") \/ Goto(r, AfterSuite(r))
    BY <1>18 DEF Quiesce
  <2>2. pc' \in [Runs -> PC]
    BY <1>d, <2>1, GotoFacts DEF PC, TypeOK
  <2>3. UNCHANGED stableTip \/ \E t \in Histories \cup {NoTip} : stableTip' = [stableTip EXCEPT ![r] = t]
    BY <1>a, <1>b, <1>18 DEF Quiesce
  <2>4. stableTip' \in [Runs -> Histories \cup {NoTip}]
    BY <2>3 DEF TypeOK
  <2>5. (UNCHANGED red) /\ UNCHANGED <<db, git, plan, sched, batch, cur, tested, green>>
    BY <1>18 DEF Quiesce
  <2> QED BY <2>2, <2>4, <2>5 DEF TypeOK
<1>19. CASE RunSuite(r)
  <2>1. Goto(r, "settle") \/ Goto(r, AfterSuite(r))
    BY <1>19 DEF RunSuite
  <2>2. pc' \in [Runs -> PC]
    BY <1>d, <2>1, GotoFacts DEF PC, TypeOK
  <2>3. UNCHANGED green \/ \E t \in Histories : green' = [green EXCEPT ![r] = t]
    BY <1>a, <1>b, <1>19 DEF RunSuite
  <2>4. green' \in [Runs -> Histories \cup {NoTip}]
    BY <2>3 DEF TypeOK
  <2>5. (red' = [red EXCEPT ![r] = TRUE] \/ UNCHANGED red) /\ UNCHANGED <<db, git, plan, sched, batch, cur, stableTip, tested>>
    BY <1>19 DEF RunSuite
  <2> QED BY <2>2, <2>4, <2>5 DEF TypeOK
<1>20. CASE Settle(r)
  BY <1>a, <1>b, <1>c, <1>d, <1>20 DEF Settle, Goto, TypeOK, PC, Coarse
<1>21. CASE FinalSuite(r)
  <2>1. Goto(r, "complete") \/ Goto(r, "paused")
    BY <1>21 DEF FinalSuite
  <2>2. pc' \in [Runs -> PC]
    BY <1>d, <2>1, GotoFacts DEF PC, TypeOK
  <2>3. UNCHANGED green \/ \E t \in Histories : green' = [green EXCEPT ![r] = t]
    BY <1>a, <1>b, <1>21 DEF FinalSuite
  <2>4. green' \in [Runs -> Histories \cup {NoTip}]
    BY <2>3 DEF TypeOK
  <2>5. (red' = [red EXCEPT ![r] = TRUE] \/ UNCHANGED red) /\ UNCHANGED <<db, git, plan, sched, batch, cur, stableTip, tested>>
    BY <1>21 DEF FinalSuite
  <2> QED BY <2>2, <2>4, <2>5 DEF TypeOK
<1>22. CASE Complete(r)
  BY <1>a, <1>b, <1>c, <1>d, <1>22 DEF Complete, Goto, TypeOK, PC, Coarse
<1>23. CASE Stop(r)
  BY <1>a, <1>b, <1>c, <1>d, <1>23 DEF Stop, Goto, TypeOK, PC, Coarse
<1> QED BY <1>1, <1>2, <1>3, <1>4, <1>5, <1>6, <1>7, <1>8, <1>9, <1>10, <1>11, <1>12, <1>13, <1>14, <1>15, <1>16, <1>17, <1>18, <1>19, <1>20, <1>21, <1>22, <1>23 DEF Drive

LEMMA TypeStep ==
    ASSUME TypeOK, MemInv, Owned, [Next]_vars
    PROVE  TypeOK'
<1>1. ASSUME NEW r \in Runs, Drive(r) \/ Stop(r) PROVE TypeOK'
  BY <1>1, ActorTyped DEF MemInv
<1>2. ASSUME NEW j \in Projects, CommitOutside(j) PROVE TypeOK'
  <2>1. Append(tip[j], Outside) \in Histories
    BY AppendFacts DEF TypeOK
  <2> QED BY <1>2, <2>1 DEF CommitOutside, TypeOK, db, mem
<1>3. CASE UNCHANGED vars
  BY <1>3 DEF vars, db, git, mem, TypeOK
<1> QED BY <1>1, <1>2, <1>3 DEF Next

-----------------------------------------------------------------------------
(***************************************************************************)
(* Who works on which branch: Owned and Sole.                              *)
(***************************************************************************)

\* A step changes the branch its run works on, or makes one there was not.
LEMMA BranchFrame ==
    ASSUME TypeOK, NEW r \in Runs, RunOK(r), Drive(r) \/ Stop(r), NEW u \in Steps
    PROVE  \/ branch'[u] = branch[u]
           \/ Owns(r) /\ u = cur[r]
           \/ branch[u] = NoBranch
<1>a. branch \in [Steps -> Histories \cup {NoBranch}]
  BY DEF TypeOK
<1>b. pc[r] \in Landing => ~ InTree(r)
  BY DEF RunOK, OnBranch
<1> USE DEF Owns, Working, Landing, db, git, mem
<1>1. CASE CheckSlot(r)
  BY <1>a, <1>b, <1>1 DEF CheckSlot
<1>2. CASE Refuse(r)
  BY <1>a, <1>b, <1>2 DEF Refuse
<1>3. CASE Claim(r)
  BY <1>a, <1>b, <1>3 DEF Claim
<1>4. CASE Prepare(r)
  BY <1>a, <1>b, <1>4 DEF Prepare
<1>5. CASE NextBatch(r)
  BY <1>a, <1>b, <1>5 DEF NextBatch
<1>6. CASE BeginStep(r)
  BY <1>a, <1>b, <1>6 DEF BeginStep, Persist
<1>7. CASE Implement(r)
  BY <1>a, <1>b, <1>7 DEF Implement
<1>8. CASE AwaitHuman(r)
  BY <1>a, <1>b, <1>8 DEF AwaitHuman, Suspend
<1>9. CASE TestsPass(r)
  BY <1>a, <1>b, <1>9 DEF TestsPass
<1>10. CASE TestsFail(r)
  BY <1>a, <1>b, <1>10 DEF TestsFail, Persist, Teardown
<1>11. CASE Rebase(r)
  BY <1>a, <1>b, <1>11 DEF Rebase
<1>12. CASE RebaseConflict(r)
  BY <1>a, <1>b, <1>12 DEF RebaseConflict
<1>13. CASE Retest(r)
  BY <1>a, <1>b, <1>13 DEF Retest
<1>14. CASE Resolved(r)
  BY <1>a, <1>b, <1>14 DEF Resolved
<1>15. CASE Escalate(r)
  BY <1>a, <1>b, <1>15 DEF Escalate, Persist
<1>16. CASE FastForward(r)
  BY <1>a, <1>b, <1>16 DEF FastForward
<1>17. CASE Record(r)
  BY <1>a, <1>b, <1>17 DEF Record, RecordFrom, Persist, Teardown
<1>18. CASE Quiesce(r)
  BY <1>a, <1>b, <1>18 DEF Quiesce
<1>19. CASE RunSuite(r)
  BY <1>a, <1>b, <1>19 DEF RunSuite
<1>20. CASE Settle(r)
  BY <1>a, <1>b, <1>20 DEF Settle
<1>21. CASE FinalSuite(r)
  BY <1>a, <1>b, <1>21 DEF FinalSuite
<1>22. CASE Complete(r)
  BY <1>a, <1>b, <1>22 DEF Complete
<1>23. CASE Stop(r)
  BY <1>a, <1>b, <1>23 DEF Stop
<1> QED BY <1>1, <1>2, <1>3, <1>4, <1>5, <1>6, <1>7, <1>8, <1>9, <1>10, <1>11, <1>12, <1>13, <1>14, <1>15, <1>16, <1>17, <1>18, <1>19, <1>20, <1>21, <1>22, <1>23 DEF Drive

\* A run that works on a branch has worked on it before or has made it, and it is
\* there.
LEMMA ActorOwns ==
    ASSUME TypeOK, NEW r \in Runs, RunOK(r), Owned, Drive(r) \/ Stop(r), Owns(r)'
    PROVE  /\ cur'[r] \in Steps /\ branch'[cur'[r]] # NoBranch
           /\ \/ Owns(r) /\ cur'[r] = cur[r]
              \/ branch[cur'[r]] = NoBranch
<1>a. /\ pc \in [Runs -> PC] /\ branch \in [Steps -> Histories \cup {NoBranch}]
      /\ plan' = plan
      /\ InTree(r)' = InTree(r)
  BY OthersFrame DEF TypeOK, InTree
<1>b. /\ Tip(r) \in Histories /\ BaseOf(r) \in Histories
  BY PlaceTyped
<1>c. ASSUME pc[r] \in Working
      PROVE  /\ cur[r] \in Steps
             /\ ~ InTree(r) => branch[cur[r]] \in Histories /\ branch[cur[r]] # NoBranch
             /\ OwnWork(cur[r]) \in {<<>>, <<cur[r]>>}
  BY <1>c, WorkTyped, NoBranchApart
<1>d. ~ InTree(r) /\ pc'[r] \in Working
  BY <1>a DEF Owns
<1>e. Onward(r) \in PC /\ AfterSuite(r) \in PC /\ Onward(r) \notin Working /\ AfterSuite(r) \notin Working
  BY OnwardFacts, SuiteFacts
<1> USE DEF Working
<1>1. CASE CheckSlot(r)
  <2>1. Goto(r, "checked")
    BY <1>1 DEF CheckSlot
  <2> QED BY <1>a, <1>d, <1>e, <2>1, GotoFacts DEF PC
<1>2. CASE Refuse(r)
  <2>1. Goto(r, "refused")
    BY <1>2 DEF Refuse
  <2> QED BY <1>a, <1>d, <1>e, <2>1, GotoFacts DEF PC
<1>3. CASE Claim(r)
  <2>1. Goto(r, "claimed")
    BY <1>3 DEF Claim
  <2> QED BY <1>a, <1>d, <1>e, <2>1, GotoFacts DEF PC
<1>4. CASE Prepare(r)
  <2>1. Goto(r, "loop")
    BY <1>4 DEF Prepare
  <2> QED BY <1>a, <1>d, <1>e, <2>1, GotoFacts DEF PC
<1>5. CASE NextBatch(r)
  <2>1. Goto(r, "settle") \/ Goto(r, "create")
    BY <1>5 DEF NextBatch
  <2> QED BY <1>a, <1>d, <1>e, <2>1, GotoFacts DEF PC
<1>6. CASE BeginStep(r)
  <2> DEFINE s == First(batch[r])
  <2>1. s \in Steps /\ cur'[r] = s
    BY <1>6, BeginFacts
  <2>2. branch[s] = NoBranch /\ branch' = [branch EXCEPT ![s] = BaseOf(r)]
    <3>1. branch[s] # NoBranch => Goto(r, "stopped")
      BY <1>d, <1>6 DEF BeginStep
    <3>2. branch[s] = NoBranch
      BY <1>a, <1>d, <3>1, GotoFacts DEF PC
    <3> QED BY <1>d, <1>6, <3>2 DEF BeginStep
  <2> HIDE DEF s
  <2>3. branch'[s] = BaseOf(r)
    BY <1>a, <2>1, <2>2
  <2> QED BY <1>b, <2>1, <2>2, <2>3, NoBranchApart
<1>7. CASE Implement(r)
  <2>1. pc[r] \in Working /\ cur' = cur
    BY <1>7 DEF Implement
  <2>2. branch' = [branch EXCEPT ![cur[r]] = Append(branch[cur[r]], cur[r])] \/ branch' = branch
    BY <1>7 DEF Implement
  <2>3. Append(branch[cur[r]], cur[r]) \in Histories
    BY <1>c, <1>d, <2>1, AppendFacts
  <2> QED BY <1>a, <1>c, <1>d, <2>1, <2>2, <2>3, NoBranchApart DEF Owns
<1>8. CASE AwaitHuman(r)
  <2>1. Goto(r, Onward(r))
    BY <1>8 DEF AwaitHuman, Suspend
  <2> QED BY <1>a, <1>d, <1>e, <2>1, GotoFacts DEF PC
<1>9. CASE TestsPass(r)
  <2>1. pc[r] \in Working /\ cur' = cur /\ branch' = branch
    BY <1>9 DEF TestsPass, git, mem
  <2> QED BY <1>a, <1>c, <1>d, <2>1 DEF Owns
<1>10. CASE TestsFail(r)
  <2>1. Goto(r, Onward(r))
    BY <1>10 DEF TestsFail
  <2> QED BY <1>a, <1>d, <1>e, <2>1, GotoFacts DEF PC
<1>11. CASE Rebase(r)
  <2>1. pc[r] \in Working /\ cur' = cur
    BY <1>11 DEF Rebase, mem
  <2>2. branch' = [branch EXCEPT ![cur[r]] = Tip(r) \o OwnWork(cur[r])] \/ branch' = branch
    BY <1>11 DEF Rebase
  <2>3. Tip(r) \o OwnWork(cur[r]) \in Histories
    BY <1>b, <1>c, <1>d, <2>1, AppendFacts, ConcatFacts
  <2> QED BY <1>a, <1>c, <1>d, <2>1, <2>2, <2>3, NoBranchApart DEF Owns
<1>12. CASE RebaseConflict(r)
  <2>1. pc[r] \in Working /\ cur' = cur /\ branch' = branch
    BY <1>12 DEF RebaseConflict, git, mem
  <2> QED BY <1>a, <1>c, <1>d, <2>1 DEF Owns
<1>13. CASE Retest(r)
  <2>1. pc[r] \in Working /\ cur' = cur /\ branch' = branch
    BY <1>13 DEF Retest, git, mem
  <2> QED BY <1>a, <1>c, <1>d, <2>1 DEF Owns
<1>14. CASE Resolved(r)
  <2>1. pc[r] \in Working /\ cur' = cur
    BY <1>14 DEF Resolved
  <2>2. branch' = [branch EXCEPT ![cur[r]] = Append(Tip(r), cur[r])] \/ branch' = branch
    BY <1>14 DEF Resolved
  <2>3. Append(Tip(r), cur[r]) \in Histories
    BY <1>b, <1>c, <1>d, <2>1, AppendFacts, ConcatFacts
  <2> QED BY <1>a, <1>c, <1>d, <2>1, <2>2, <2>3, NoBranchApart DEF Owns
<1>15. CASE Escalate(r)
  <2>1. Goto(r, Onward(r))
    BY <1>15 DEF Escalate
  <2> QED BY <1>a, <1>d, <1>e, <2>1, GotoFacts DEF PC
<1>16. CASE FastForward(r)
  <2>1. pc[r] \in Working /\ cur' = cur /\ branch' = branch
    BY <1>16 DEF FastForward, git, mem
  <2> QED BY <1>a, <1>c, <1>d, <2>1 DEF Owns
<1>17. CASE Record(r)
  <2>1. Goto(r, Onward(r))
    BY <1>17 DEF Record, RecordFrom
  <2> QED BY <1>a, <1>d, <1>e, <2>1, GotoFacts DEF PC
<1>18. CASE Quiesce(r)
  <2>1. Goto(r, "suite") \/ Goto(r, AfterSuite(r))
    BY <1>18 DEF Quiesce
  <2> QED BY <1>a, <1>d, <1>e, <2>1, GotoFacts DEF PC
<1>19. CASE RunSuite(r)
  <2>1. Goto(r, AfterSuite(r)) \/ Goto(r, "settle")
    BY <1>19 DEF RunSuite
  <2> QED BY <1>a, <1>d, <1>e, <2>1, GotoFacts DEF PC
<1>20. CASE Settle(r)
  <2>1. Goto(r, "paused") \/ Goto(r, "finalSuite") \/ Goto(r, "complete")
    BY <1>20 DEF Settle
  <2> QED BY <1>a, <1>d, <1>e, <2>1, GotoFacts DEF PC
<1>21. CASE FinalSuite(r)
  <2>1. Goto(r, "complete") \/ Goto(r, "paused")
    BY <1>21 DEF FinalSuite
  <2> QED BY <1>a, <1>d, <1>e, <2>1, GotoFacts DEF PC
<1>22. CASE Complete(r)
  <2>1. Goto(r, "completed")
    BY <1>22 DEF Complete
  <2> QED BY <1>a, <1>d, <1>e, <2>1, GotoFacts DEF PC
<1>23. CASE Stop(r)
  <2>1. Goto(r, "stopped")
    BY <1>23 DEF Stop
  <2> QED BY <1>a, <1>d, <1>e, <2>1, GotoFacts DEF PC
<1> QED BY <1>1, <1>2, <1>3, <1>4, <1>5, <1>6, <1>7, <1>8, <1>9, <1>10, <1>11, <1>12, <1>13, <1>14, <1>15, <1>16, <1>17, <1>18, <1>19, <1>20, <1>21, <1>22, <1>23 DEF Drive

\* What holds of a run in the middle of a step of another one.
LEMMA OthersOwn ==
    ASSUME TypeOK, NEW r \in Runs, MemInv, Owned, Sole, Drive(r) \/ Stop(r),
           NEW t \in Runs \ {r}
    PROVE  /\ Owns(t)' = Owns(t) /\ cur'[t] = cur[t]
           /\ Owns(t) => cur[t] \in Steps /\ branch'[cur[t]] = branch[cur[t]]
<1>1. Owns(t)' = Owns(t) /\ cur'[t] = cur[t]
  BY OthersFrame DEF Untouched, Owns, InTree
<1>2. ASSUME Owns(t) PROVE cur[t] \in Steps /\ branch'[cur[t]] = branch[cur[t]]
  <2>1. cur[t] \in Steps
    BY <1>2, WorkTyped DEF MemInv, Owns
  <2>2. branch[cur[t]] # NoBranch /\ ~ (Owns(r) /\ cur[t] = cur[r])
    BY <1>2 DEF Owned, Sole
  <2> QED BY <2>1, <2>2, BranchFrame DEF MemInv
<1> QED BY <1>1, <1>2

LEMMA OwnStep ==
    ASSUME TypeOK, MemInv, Owned, Sole, [Next]_vars
    PROVE  Owned' /\ Sole'
<1>1. ASSUME NEW r \in Runs, Drive(r) \/ Stop(r) PROVE Owned' /\ Sole'
  <2>1. RunOK(r)
    BY DEF MemInv
  <2>2. ASSUME Owns(r)'
        PROVE  /\ branch'[cur'[r]] # NoBranch
               /\ \A t \in Runs \ {r} : ~ (Owns(t)' /\ cur'[t] = cur'[r])
    <3>1. /\ branch'[cur'[r]] # NoBranch
          /\ \/ Owns(r) /\ cur'[r] = cur[r]
             \/ branch[cur'[r]] = NoBranch
      BY <1>1, <2>1, <2>2, ActorOwns
    <3>2. ASSUME NEW t \in Runs \ {r}, Owns(t)', cur'[t] = cur'[r] PROVE FALSE
      <4>1. Owns(t) /\ cur'[t] = cur[t]
        BY <1>1, <3>2, OthersOwn
      <4>2. branch[cur[t]] # NoBranch
        BY <4>1 DEF Owned
      <4> QED BY <3>1, <3>2, <4>1, <4>2 DEF Sole
    <3> QED BY <3>1, <3>2
  <2>3. ASSUME NEW t \in Runs \ {r}, Owns(t)' PROVE branch'[cur'[t]] # NoBranch
    BY <1>1, <2>3, OthersOwn DEF Owned
  <2>4. ASSUME NEW t \in Runs \ {r}, NEW w \in Runs \ {r}, Owns(t)', Owns(w)', cur'[t] = cur'[w]
        PROVE  t = w
    <3>1. Owns(t) /\ Owns(w) /\ cur[t] = cur[w]
      BY <1>1, <2>4, OthersOwn
    <3> QED BY <3>1 DEF Sole
  <2>5. Owned'
    BY <2>2, <2>3 DEF Owned
  <2>6. Sole'
    BY <2>2, <2>4 DEF Sole
  <2> QED BY <2>5, <2>6
<1>2. ASSUME plan' = plan, pc' = pc, cur' = cur, branch' = branch PROVE Owned' /\ Sole'
  BY <1>2 DEF Owned, Sole, Owns, InTree
<1>3. CASE \E j \in Projects : CommitOutside(j)
  BY <1>2, <1>3 DEF CommitOutside, mem
<1>4. CASE UNCHANGED vars
  BY <1>2, <1>4 DEF vars, mem, git
<1> QED BY <1>1, <1>3, <1>4 DEF Next

-----------------------------------------------------------------------------
(***************************************************************************)
(* Histories only grow: what has landed stays.                             *)
(***************************************************************************)
LEMMA TipGrows ==
    ASSUME TypeOK, MemInv, Owned, [Next]_vars, NEW j \in Projects
    PROVE  ToSet(tip[j]) \subseteq ToSet(tip'[j])
<1>a. tip \in [Projects -> Histories]
  BY DEF TypeOK
<1>1. ASSUME NEW r \in Runs, Drive(r) \/ Stop(r) PROVE ToSet(tip[j]) \subseteq ToSet(tip'[j])
  <2>a. RunOK(r) /\ Repo(r) \in Projects /\ Tip(r) \in Histories
    BY PlaceTyped DEF MemInv
  <2>b. pc[r] \in Working => cur[r] \in Steps
    BY <2>a, WorkTyped
  <2>1. CASE tip' = tip
    BY <2>1
  <2>2. CASE Implement(r) /\ InTree(r)
    <3>1. tip' = [tip EXCEPT ![Repo(r)] = Append(Tip(r), cur[r])]
      BY <2>2 DEF Implement, Tip
    <3>2. cur[r] \in Steps
      BY <2>b, <2>2 DEF Implement, Working
    <3>3. ToSet(Tip(r)) \subseteq ToSet(Append(Tip(r), cur[r]))
      BY <2>a, <3>2, AppendFacts
    <3> QED BY <1>a, <2>a, <3>1, <3>3 DEF Tip
  <2>3. CASE AwaitHuman(r) /\ tip' # tip
    <3>1. cur[r] \in Steps
      BY <2>b, <2>3 DEF AwaitHuman, Suspend, Working
    <3>2. PICK part \in {<<>>, <<cur[r]>>} : tip' = [tip EXCEPT ![Repo(r)] = Tip(r) \o part]
      BY <2>3 DEF AwaitHuman, Suspend, Tip
    <3>3. ToSet(Tip(r)) \subseteq ToSet(Tip(r) \o part)
      BY <2>a, <3>1, ConcatFacts
    <3> QED BY <1>a, <2>a, <3>2, <3>3 DEF Tip
  <2>4. CASE FastForward(r) /\ tip' # tip
    <3>1. tip' = [tip EXCEPT ![Repo(r)] = branch[cur[r]]] /\ IsPrefix(Tip(r), branch[cur[r]])
      BY <2>4 DEF FastForward, CanFastForward
    <3>2. branch[cur[r]] \in Histories
      BY <2>a, <2>4, WorkTyped DEF FastForward, Working, Landing, RunOK, OnBranch
    <3>3. ToSet(Tip(r)) \subseteq ToSet(branch[cur[r]])
      BY <2>a, <3>1, <3>2, PrefixFacts
    <3> QED BY <1>a, <2>a, <3>1, <3>3 DEF Tip
  <2> USE DEF git
  <2>5. CASE CheckSlot(r)
    BY <2>1, <2>5 DEF CheckSlot
  <2>6. CASE Refuse(r)
    BY <2>1, <2>6 DEF Refuse
  <2>7. CASE Claim(r)
    BY <2>1, <2>7 DEF Claim
  <2>8. CASE Prepare(r)
    BY <2>1, <2>8 DEF Prepare
  <2>9. CASE NextBatch(r)
    BY <2>1, <2>9 DEF NextBatch
  <2>10. CASE BeginStep(r)
    BY <2>1, <2>10 DEF BeginStep, Persist
  <2>11. CASE Implement(r)
    BY <2>1, <2>2, <2>11 DEF Implement
  <2>12. CASE AwaitHuman(r)
    BY <2>1, <2>3, <2>12
  <2>13. CASE TestsPass(r)
    BY <2>1, <2>13 DEF TestsPass
  <2>14. CASE TestsFail(r)
    BY <2>1, <2>14 DEF TestsFail, Persist
  <2>15. CASE Rebase(r)
    BY <2>1, <2>15 DEF Rebase
  <2>16. CASE RebaseConflict(r)
    BY <2>1, <2>16 DEF RebaseConflict
  <2>17. CASE Retest(r)
    BY <2>1, <2>17 DEF Retest
  <2>18. CASE Resolved(r)
    BY <2>1, <2>18 DEF Resolved
  <2>19. CASE Escalate(r)
    BY <2>1, <2>19 DEF Escalate, Persist
  <2>20. CASE FastForward(r)
    BY <2>1, <2>4, <2>20
  <2>21. CASE Record(r)
    BY <2>1, <2>21 DEF Record, RecordFrom, Persist
  <2>22. CASE Quiesce(r)
    BY <2>1, <2>22 DEF Quiesce
  <2>23. CASE RunSuite(r)
    BY <2>1, <2>23 DEF RunSuite
  <2>24. CASE Settle(r)
    BY <2>1, <2>24 DEF Settle
  <2>25. CASE FinalSuite(r)
    BY <2>1, <2>25 DEF FinalSuite
  <2>26. CASE Complete(r)
    BY <2>1, <2>26 DEF Complete
  <2>27. CASE Stop(r)
    BY <2>1, <2>27 DEF Stop
  <2> QED BY <1>1, <2>5, <2>6, <2>7, <2>8, <2>9, <2>10, <2>11, <2>12, <2>13, <2>14, <2>15, <2>16, <2>17, <2>18, <2>19, <2>20, <2>21, <2>22, <2>23, <2>24, <2>25, <2>26, <2>27 DEF Drive
<1>2. ASSUME NEW i \in Projects, CommitOutside(i) PROVE ToSet(tip[j]) \subseteq ToSet(tip'[j])
  <2>1. ToSet(tip[i]) \subseteq ToSet(Append(tip[i], Outside))
    BY <1>a, AppendFacts
  <2> QED BY <1>a, <1>2, <2>1 DEF CommitOutside
<1>3. CASE UNCHANGED vars
  BY <1>3 DEF vars, git
<1> QED BY <1>1, <1>2, <1>3 DEF Next

LEMMA LandedStays ==
    ASSUME TypeOK, MemInv, Owned, [Next]_vars, NEW s \in Steps, Landed(s)
    PROVE  Landed(s)'
<1>1. ProjectOf[PlanOf[s]] \in Projects
  BY PlansAssumption
<1> QED BY <1>1, TipGrows DEF Landed

\* A run's steps land on its repository's main worktree.
LEMMA LandsHere ==
    ASSUME NEW r \in Runs, NEW s \in Steps, PlanOf[s] = plan[r]
    PROVE  Landed(s) = (s \in ToSet(Tip(r)))
  BY DEF Landed, Tip, Repo

-----------------------------------------------------------------------------
(***************************************************************************)
(* If coders commit their work: what a run tested is what lands, and what  *)
(* counts as merged has landed.                                            *)
(***************************************************************************)

LEMMA NothingLoose ==
    ASSUME AlwaysCommits, loose = {}, [Next]_vars
    PROVE  loose' = {}
<1>1. ASSUME NEW r \in Runs, Drive(r) \/ Stop(r) PROVE loose' = {}
  <2> USE DEF git
  <2>1. CASE CheckSlot(r)
    BY <2>1 DEF CheckSlot
  <2>2. CASE Refuse(r)
    BY <2>2 DEF Refuse
  <2>3. CASE Claim(r)
    BY <2>3 DEF Claim
  <2>4. CASE Prepare(r)
    BY <2>4 DEF Prepare
  <2>5. CASE NextBatch(r)
    BY <2>5 DEF NextBatch
  <2>6. CASE BeginStep(r)
    BY <2>6 DEF BeginStep
  <2>7. CASE Implement(r)
    BY <2>7 DEF Implement
  <2>8. CASE AwaitHuman(r)
    BY <2>8 DEF AwaitHuman, Suspend
  <2>9. CASE TestsPass(r)
    BY <2>9 DEF TestsPass
  <2>10. CASE TestsFail(r)
    BY <2>10 DEF TestsFail, Teardown
  <2>11. CASE Rebase(r)
    BY <2>11 DEF Rebase
  <2>12. CASE RebaseConflict(r)
    BY <2>12 DEF RebaseConflict
  <2>13. CASE Retest(r)
    BY <2>13 DEF Retest
  <2>14. CASE Resolved(r)
    BY <2>14 DEF Resolved
  <2>15. CASE Escalate(r)
    BY <2>15 DEF Escalate
  <2>16. CASE FastForward(r)
    BY <2>16 DEF FastForward
  <2>17. CASE Record(r)
    BY <2>17 DEF Record, RecordFrom, Teardown
  <2>18. CASE Quiesce(r)
    BY <2>18 DEF Quiesce
  <2>19. CASE RunSuite(r)
    BY <2>19 DEF RunSuite
  <2>20. CASE Settle(r)
    BY <2>20 DEF Settle
  <2>21. CASE FinalSuite(r)
    BY <2>21 DEF FinalSuite
  <2>22. CASE Complete(r)
    BY <2>22 DEF Complete
  <2>23. CASE Stop(r)
    BY <2>23 DEF Stop
  <2> QED BY <1>1, <2>1, <2>2, <2>3, <2>4, <2>5, <2>6, <2>7, <2>8, <2>9, <2>10, <2>11, <2>12, <2>13, <2>14, <2>15, <2>16, <2>17, <2>18, <2>19, <2>20, <2>21, <2>22, <2>23 DEF Drive
<1>2. CASE \E j \in Projects : CommitOutside(j)
  BY <1>2 DEF CommitOutside
<1>3. CASE UNCHANGED vars
  BY <1>3 DEF vars, git
<1> QED BY <1>1, <1>2, <1>3 DEF Next

\* The work of the run that takes the step.
LEMMA ActorWork ==
    ASSUME TypeOK, NEW r \in Runs, RunOK(r), MemInv, Owned, loose = {}, AlwaysCommits, WorkOK(r),
           Drive(r) \/ Stop(r)
    PROVE  WorkOK(r)'
<1>a. /\ pc \in [Runs -> PC] /\ branch \in [Steps -> Histories \cup {NoBranch}]
      /\ tip \in [Projects -> Histories] /\ tested \in [Runs -> Histories \cup {NoTip}]
      /\ plan' = plan /\ Mine(r)' = Mine(r) /\ InTree(r)' = InTree(r)
  BY OthersFrame DEF TypeOK, InTree, Mine
<1>b. /\ Repo(r) \in Projects /\ Tip(r) \in Histories
  BY PlaceTyped
<1>c. ASSUME pc[r] \in Working
      PROVE  /\ cur[r] \in Steps /\ PlanOf[cur[r]] = plan[r]
             /\ ~ InTree(r) => branch[cur[r]] \in Histories
             /\ Landed(cur[r]) = (cur[r] \in ToSet(Tip(r)))
             /\ ~ InTree(r) => TreeOf(r) = branch[cur[r]]
  BY <1>c, WorkTyped, LandsHere DEF TreeOf
<1>d. pc[r] \in Landing => ~ InTree(r)
  BY DEF RunOK, OnBranch
<1>e. /\ Onward(r) \in PC /\ AfterSuite(r) \in PC
      /\ Onward(r) \notin Working /\ AfterSuite(r) \notin Working
  BY OnwardFacts, SuiteFacts
<1>f. ASSUME pc'[r] \notin Working \/ pc'[r] = "implement" PROVE WorkOK(r)'
  BY <1>f DEF WorkOK, Owns, Working
<1>g. ASSUME pc[r] \in Working, cur' = cur
      PROVE  Landed(cur[r])' = (cur[r] \in ToSet(tip'[Repo(r)]))
  BY <1>c, <1>g DEF Landed, Repo
<1> USE DEF Working, Landing
<1>1. CASE CheckSlot(r)
  <2>1. Goto(r, "checked")
    BY <1>1 DEF CheckSlot
  <2>2. pc'[r] \notin Working
    BY <1>a, <1>e, <2>1, GotoFacts DEF PC
  <2> QED BY <1>f, <2>2
<1>2. CASE Refuse(r)
  <2>1. Goto(r, "refused")
    BY <1>2 DEF Refuse
  <2>2. pc'[r] \notin Working
    BY <1>a, <1>e, <2>1, GotoFacts DEF PC
  <2> QED BY <1>f, <2>2
<1>3. CASE Claim(r)
  <2>1. Goto(r, "claimed")
    BY <1>3 DEF Claim
  <2>2. pc'[r] \notin Working
    BY <1>a, <1>e, <2>1, GotoFacts DEF PC
  <2> QED BY <1>f, <2>2
<1>4. CASE Prepare(r)
  <2>1. Goto(r, "loop")
    BY <1>4 DEF Prepare
  <2>2. pc'[r] \notin Working
    BY <1>a, <1>e, <2>1, GotoFacts DEF PC
  <2> QED BY <1>f, <2>2
<1>5. CASE NextBatch(r)
  <2>1. Goto(r, "settle") \/ Goto(r, "create")
    BY <1>5 DEF NextBatch
  <2>2. pc'[r] \notin Working
    BY <1>a, <1>e, <2>1, GotoFacts DEF PC
  <2> QED BY <1>f, <2>2
<1>6. CASE BeginStep(r)
  <2>1. pc'[r] \in {"implement", "stopped"}
    BY <1>6, BeginFacts
  <2> QED BY <1>f, <2>1
<1>7. CASE Implement(r)
  <2>1. pc[r] \in Working /\ cur' = cur /\ Goto(r, "test") /\ cur[r] \in Steps
    BY <1>c, <1>7 DEF Implement
  <2>2. pc'[r] = "test"
    BY <1>a, <2>1, GotoFacts DEF PC
  <2>3. CASE InTree(r)
    <3>1. tip' = [tip EXCEPT ![Repo(r)] = Append(Tip(r), cur[r])]
      BY <1>7, <2>3 DEF Implement, Tip
    <3>2. tip'[Repo(r)] = Append(Tip(r), cur[r])
      BY <1>a, <1>b, <3>1
    <3>3. Landed(cur[r])'
      BY <1>b, <1>g, <2>1, <3>2, AppendFacts
    <3> QED BY <1>a, <2>1, <2>2, <2>3, <3>3 DEF WorkOK, Owns
  <2>4. CASE ~ InTree(r)
    <3>1. branch' = [branch EXCEPT ![cur[r]] = Append(branch[cur[r]], cur[r])]
      BY <1>7, <2>4 DEF Implement
    <3>2. branch'[cur[r]] = Append(branch[cur[r]], cur[r])
      BY <1>a, <2>1, <3>1
    <3>3. cur[r] \in ToSet(branch'[cur[r]])
      BY <1>c, <2>1, <2>4, <3>2, AppendFacts
    <3> QED BY <1>a, <2>1, <2>2, <2>4, <3>3 DEF WorkOK, Owns
  <2> QED BY <2>3, <2>4
<1>8. CASE AwaitHuman(r)
  <2>1. Goto(r, Onward(r))
    BY <1>8 DEF AwaitHuman, Suspend
  <2>2. pc'[r] \notin Working
    BY <1>a, <1>e, <2>1, GotoFacts DEF PC
  <2> QED BY <1>f, <2>2
<1>9. CASE TestsPass(r)
  <2>1. pc[r] = "test" /\ cur' = cur /\ UNCHANGED git
    BY <1>9 DEF TestsPass
  <2>2. CASE InTree(r)
    <3>1. pc'[r] = "record"
      BY <1>a, <1>9, <2>2, GotoFacts DEF TestsPass, PC
    <3>2. Landed(cur[r])'
      BY <2>1, <2>2 DEF WorkOK, Landed, git
    <3> QED BY <1>a, <2>1, <2>2, <3>1, <3>2 DEF WorkOK, Owns
  <2>3. CASE ~ InTree(r)
    <3>1. pc'[r] = "rebase"
      BY <1>a, <1>9, <2>3, GotoFacts DEF TestsPass, PC
    <3>2. cur[r] \in ToSet(branch[cur[r]])
      BY <2>1, <2>3 DEF WorkOK, Owns
    <3> QED BY <2>1, <3>1, <3>2 DEF WorkOK, git
  <2> QED BY <2>2, <2>3
<1>10. CASE TestsFail(r)
  <2>1. Goto(r, Onward(r))
    BY <1>10 DEF TestsFail
  <2>2. pc'[r] \notin Working
    BY <1>a, <1>e, <2>1, GotoFacts DEF PC
  <2> QED BY <1>f, <2>2
<1>11. CASE Rebase(r)
  <2>1. pc[r] = "rebase" /\ cur' = cur /\ Goto(r, "retest") /\ cur[r] \in Steps
    BY <1>c, <1>11 DEF Rebase, mem
  <2>2. pc'[r] = "retest"
    BY <1>a, <2>1, GotoFacts DEF PC
  <2>3. cur[r] \in ToSet(branch[cur[r]])
    BY <1>d, <2>1 DEF WorkOK, Owns
  <2>4. branch' = [branch EXCEPT ![cur[r]] = Tip(r) \o <<cur[r]>>]
    BY <1>11, <2>3 DEF Rebase, OwnWork
  <2>5. branch'[cur[r]] = Tip(r) \o <<cur[r]>>
    BY <1>a, <2>1, <2>4
  <2>6. cur[r] \in ToSet(branch'[cur[r]])
    BY <1>b, <2>1, <2>5, ConcatFacts
  <2> QED BY <2>1, <2>2, <2>6 DEF WorkOK
<1>12. CASE RebaseConflict(r)
  <2>1. pc[r] = "rebase" /\ cur' = cur /\ branch' = branch /\ Goto(r, "resolve")
    BY <1>12 DEF RebaseConflict, git, mem
  <2>2. pc'[r] = "resolve"
    BY <1>a, <2>1, GotoFacts DEF PC
  <2>3. cur[r] \in ToSet(branch[cur[r]])
    BY <1>d, <2>1 DEF WorkOK, Owns
  <2> QED BY <2>1, <2>2, <2>3 DEF WorkOK
<1>13. CASE Retest(r)
  <2>1. pc[r] = "retest" /\ cur' = cur /\ branch' = branch
    BY <1>13 DEF Retest, git
  <2>2. cur[r] \in ToSet(branch[cur[r]]) /\ TreeOf(r) = branch[cur[r]]
    BY <1>c, <1>d, <2>1 DEF WorkOK, Owns
  <2>3. CASE Goto(r, "ff") /\ tested' = [tested EXCEPT ![r] = TreeOf(r)]
    <3>1. pc'[r] = "ff" /\ tested'[r] = branch[cur[r]]
      BY <1>a, <2>2, <2>3, GotoFacts DEF PC
    <3> QED BY <2>1, <2>2, <3>1 DEF WorkOK
  <2>4. CASE Goto(r, "resolve")
    <3>1. pc'[r] = "resolve"
      BY <1>a, <2>4, GotoFacts DEF PC
    <3> QED BY <2>1, <2>2, <3>1 DEF WorkOK
  <2> QED BY <1>13, <2>3, <2>4 DEF Retest
<1>14. CASE Resolved(r)
  <2>1. pc[r] = "resolve" /\ cur' = cur /\ Goto(r, "ff") /\ cur[r] \in Steps
    BY <1>c, <1>14 DEF Resolved
  <2>2. pc'[r] = "ff"
    BY <1>a, <2>1, GotoFacts DEF PC
  <2>3. cur[r] \in ToSet(branch[cur[r]]) /\ TreeOf(r) = branch[cur[r]]
    BY <1>c, <1>d, <2>1 DEF WorkOK, Owns
  <2>4. CASE /\ branch' = [branch EXCEPT ![cur[r]] = Append(Tip(r), cur[r])]
             /\ tested' = [tested EXCEPT ![r] = Append(Tip(r), cur[r])]
    <3>1. branch'[cur[r]] = Append(Tip(r), cur[r]) /\ tested'[r] = branch'[cur[r]]
      BY <1>a, <2>1, <2>4
    <3>2. cur[r] \in ToSet(branch'[cur[r]])
      BY <1>b, <2>1, <3>1, AppendFacts
    <3> QED BY <2>1, <2>2, <3>1, <3>2 DEF WorkOK
  <2>5. CASE branch' = branch /\ tested' = [tested EXCEPT ![r] = TreeOf(r)]
    <3>1. tested'[r] = branch'[cur[r]]
      BY <1>a, <2>3, <2>5
    <3> QED BY <2>1, <2>2, <2>3, <2>5, <3>1 DEF WorkOK
  <2> QED BY <1>14, <2>4, <2>5 DEF Resolved
<1>15. CASE Escalate(r)
  <2>1. Goto(r, Onward(r))
    BY <1>15 DEF Escalate
  <2>2. pc'[r] \notin Working
    BY <1>a, <1>e, <2>1, GotoFacts DEF PC
  <2> QED BY <1>f, <2>2
<1>16. CASE FastForward(r)
  <2>1. pc[r] = "ff" /\ cur' = cur
    BY <1>16 DEF FastForward, mem
  <2>2. CASE ~ CanFastForward(r)
    <3>1. pc'[r] = "stopped"
      BY <1>a, <1>16, <2>2, GotoFacts DEF FastForward, PC
    <3> QED BY <1>f, <3>1
  <2>3. CASE CanFastForward(r)
    <3>1. pc'[r] = "record"
      BY <1>a, <1>16, <2>3, GotoFacts DEF FastForward, PC
    <3>2. tip'[Repo(r)] = branch[cur[r]]
      BY <1>a, <1>b, <1>16, <2>3 DEF FastForward
    <3>3. cur[r] \in ToSet(branch[cur[r]])
      BY <1>d, <2>1 DEF WorkOK, Owns
    <3>4. Landed(cur[r])'
      BY <1>g, <2>1, <3>2, <3>3
    <3> QED BY <2>1, <3>1, <3>4 DEF WorkOK
  <2> QED BY <2>2, <2>3
<1>17. CASE Record(r)
  <2>1. Goto(r, Onward(r))
    BY <1>17 DEF Record, RecordFrom
  <2>2. pc'[r] \notin Working
    BY <1>a, <1>e, <2>1, GotoFacts DEF PC
  <2> QED BY <1>f, <2>2
<1>18. CASE Quiesce(r)
  <2>1. Goto(r, "suite") \/ Goto(r, AfterSuite(r))
    BY <1>18 DEF Quiesce
  <2>2. pc'[r] \notin Working
    BY <1>a, <1>e, <2>1, GotoFacts DEF PC
  <2> QED BY <1>f, <2>2
<1>19. CASE RunSuite(r)
  <2>1. Goto(r, AfterSuite(r)) \/ Goto(r, "settle")
    BY <1>19 DEF RunSuite
  <2>2. pc'[r] \notin Working
    BY <1>a, <1>e, <2>1, GotoFacts DEF PC
  <2> QED BY <1>f, <2>2
<1>20. CASE Settle(r)
  <2>1. Goto(r, "paused") \/ Goto(r, "finalSuite") \/ Goto(r, "complete")
    BY <1>20 DEF Settle
  <2>2. pc'[r] \notin Working
    BY <1>a, <1>e, <2>1, GotoFacts DEF PC
  <2> QED BY <1>f, <2>2
<1>21. CASE FinalSuite(r)
  <2>1. Goto(r, "complete") \/ Goto(r, "paused")
    BY <1>21 DEF FinalSuite
  <2>2. pc'[r] \notin Working
    BY <1>a, <1>e, <2>1, GotoFacts DEF PC
  <2> QED BY <1>f, <2>2
<1>22. CASE Complete(r)
  <2>1. Goto(r, "completed")
    BY <1>22 DEF Complete
  <2>2. pc'[r] \notin Working
    BY <1>a, <1>e, <2>1, GotoFacts DEF PC
  <2> QED BY <1>f, <2>2
<1>23. CASE Stop(r)
  <2>1. Goto(r, "stopped")
    BY <1>23 DEF Stop
  <2>2. pc'[r] \notin Working
    BY <1>a, <1>e, <2>1, GotoFacts DEF PC
  <2> QED BY <1>f, <2>2
<1> QED BY <1>1, <1>2, <1>3, <1>4, <1>5, <1>6, <1>7, <1>8, <1>9, <1>10, <1>11, <1>12, <1>13, <1>14, <1>15, <1>16, <1>17, <1>18, <1>19, <1>20, <1>21, <1>22, <1>23 DEF Drive

LEMMA WorkStep ==
    ASSUME AlwaysCommits, TypeOK, MemInv, Owned, Sole, Committed, [Next]_vars
    PROVE  Committed'
<1>1. loose' = {}
  BY NothingLoose DEF Committed
<1>2. ASSUME NEW r \in Runs, Drive(r) \/ Stop(r), NEW t \in Runs PROVE WorkOK(t)'
  <2>a. RunOK(t) /\ WorkOK(t)
    BY DEF MemInv, Committed
  <2>1. CASE t = r
    BY <1>2, <2>a, <2>1, ActorWork DEF Committed
  <2>2. CASE t # r
    <3>1. /\ plan' = plan /\ Untouched(t)
          /\ Owns(t)' = Owns(t) /\ cur'[t] = cur[t]
          /\ Owns(t) => branch'[cur[t]] = branch[cur[t]]
      BY <1>2, <2>2, OthersFrame, OthersOwn
    <3>2. pc[t] = "ff" => Owns(t)
      BY <2>a DEF RunOK, OnBranch, Owns, Landing, Working
    <3>3. pc[t] \in Working /\ Landed(cur[t]) => Landed(cur[t])'
      <4>1. ASSUME pc[t] \in Working PROVE cur[t] \in Steps
        BY <2>a, <4>1, WorkTyped
      <4>2. ASSUME NEW s \in Steps, Landed(s), s = cur[t] PROVE Landed(cur[t])'
        <5>1. Landed(s)'
          BY <1>2, <4>2, LandedStays DEF Next
        <5> QED BY <3>1, <4>2, <5>1 DEF Untouched, Landed
      <4> QED BY <4>1, <4>2
    <3> QED BY <2>a, <3>1, <3>2, <3>3 DEF WorkOK, Untouched, InTree, Working
  <2> QED BY <2>1, <2>2
<1>3. ASSUME NEW j \in Projects, CommitOutside(j), NEW t \in Runs PROVE WorkOK(t)'
  <2>a. RunOK(t) /\ WorkOK(t)
    BY DEF MemInv, Committed
  <2>1. mem' = mem /\ pc' = pc /\ branch' = branch
    BY <1>3 DEF CommitOutside
  <2>2. pc[t] \in Working /\ Landed(cur[t]) => Landed(cur[t])'
    <3>1. ASSUME pc[t] \in Working PROVE cur[t] \in Steps
      BY <2>a, <3>1, WorkTyped
    <3>2. ASSUME NEW s \in Steps, Landed(s), s = cur[t] PROVE Landed(cur[t])'
      <4>1. Landed(s)'
        BY <1>3, <3>2, LandedStays DEF Next
      <4> QED BY <2>1, <3>2, <4>1 DEF mem, Landed
    <3> QED BY <3>1, <3>2
  <2> QED BY <2>a, <2>1, <2>2 DEF WorkOK, Owns, InTree, Working, mem
<1>4. CASE UNCHANGED vars
  BY <1>1, <1>4 DEF vars, git, mem, Committed, WorkOK, Owns, InTree, Landed
<1> QED BY <1>1, <1>2, <1>3, <1>4 DEF Next, Committed

\* Only Record counts a step as done.
LEMMA CountedBefore ==
    ASSUME TypeOK, NEW r \in Runs, RunOK(r), Drive(r) \/ Stop(r), NEW s \in Steps,
           ~ (Record(r) /\ s = cur[r])
    PROVE  /\ stepStatus'[s] = "done" => stepStatus[s] = "done"
           /\ sched'[r][s] = "merged" => sched[r][s] = "merged"
<1>a. stepStatus \in [Steps -> Coarse] /\ sched \in [Runs -> [Steps -> States]]
  BY DEF TypeOK
<1>b. pc[r] \in Working => cur[r] \in Steps
  BY DEF RunOK, AtStep, Mine, StepsOf
<1>c. ASSUME NEW u \in Steps, NEW state \in States \ {"merged"}, Mark(r, u, state)
      PROVE  sched'[r][s] = "merged" => sched[r][s] = "merged"
  BY <1>a, <1>c, MarkFacts
<1> USE DEF db, mem, Working, Persist, States
<1>1. CASE CheckSlot(r)
  BY <1>1 DEF CheckSlot
<1>2. CASE Refuse(r)
  BY <1>2 DEF Refuse
<1>3. CASE Claim(r)
  BY <1>3 DEF Claim
<1>4. CASE Prepare(r)
  BY <1>4 DEF Prepare
<1>5. CASE NextBatch(r)
  BY <1>5 DEF NextBatch
<1>6. CASE BeginStep(r)
  <2>1. /\ First(batch[r]) \in Steps
        /\ sched'[r][First(batch[r])] = "running"
        /\ \A u \in Steps \ {First(batch[r])} : sched'[r][u] = sched[r][u]
    BY <1>6, BeginFacts
  <2>2. stepStatus' = [stepStatus EXCEPT ![First(batch[r])] = "in_progress"]
    BY <1>6 DEF BeginStep
  <2> QED BY <1>a, <2>1, <2>2
<1>7. CASE Implement(r)
  <2>1. Mark(r, cur[r], "testing") /\ cur[r] \in Steps
    BY <1>b, <1>7 DEF Implement
  <2> QED BY <1>a, <1>c, <1>7, <2>1 DEF Implement
<1>8. CASE AwaitHuman(r)
  <2>1. Mark(r, cur[r], "awaiting_human") /\ cur[r] \in Steps
    BY <1>b, <1>8 DEF AwaitHuman, Suspend
  <2> QED BY <1>a, <1>c, <1>8, <2>1 DEF AwaitHuman, Suspend
<1>9. CASE TestsPass(r)
  <2>1. cur[r] \in Steps /\ (Mark(r, cur[r], "merging") \/ sched' = sched)
    BY <1>b, <1>9 DEF TestsPass
  <2> QED BY <1>a, <1>c, <1>9, <2>1 DEF TestsPass
<1>10. CASE TestsFail(r)
  <2>1. Mark(r, cur[r], "failed") /\ cur[r] \in Steps
    BY <1>b, <1>10 DEF TestsFail
  <2> QED BY <1>a, <1>c, <1>10, <2>1 DEF TestsFail
<1>11. CASE Rebase(r)
  BY <1>11 DEF Rebase
<1>12. CASE RebaseConflict(r)
  BY <1>12 DEF RebaseConflict
<1>13. CASE Retest(r)
  BY <1>13 DEF Retest
<1>14. CASE Resolved(r)
  BY <1>14 DEF Resolved
<1>15. CASE Escalate(r)
  <2>1. Mark(r, cur[r], "failed") /\ cur[r] \in Steps
    BY <1>b, <1>15 DEF Escalate
  <2> QED BY <1>a, <1>c, <1>15, <2>1 DEF Escalate
<1>16. CASE FastForward(r)
  BY <1>16 DEF FastForward
<1>17. CASE Record(r)
  <2>1. cur[r] \in Steps /\ cur[r] # s /\ Mark(r, cur[r], "merged")
    BY <1>b, <1>17 DEF Record, RecordFrom
  <2>2. sched'[r][s] = sched[r][s]
    BY <1>a, <2>1, MarkFacts
  <2>3. stepStatus' = [stepStatus EXCEPT ![cur[r]] = "done"]
    BY <1>17 DEF Record, RecordFrom
  <2> QED BY <1>a, <2>1, <2>2, <2>3
<1>18. CASE Quiesce(r)
  BY <1>18 DEF Quiesce
<1>19. CASE RunSuite(r)
  BY <1>19 DEF RunSuite
<1>20. CASE Settle(r)
  BY <1>20 DEF Settle
<1>21. CASE FinalSuite(r)
  BY <1>21 DEF FinalSuite
<1>22. CASE Complete(r)
  BY <1>22 DEF Complete
<1>23. CASE Stop(r)
  BY <1>23 DEF Stop
<1> QED BY <1>1, <1>2, <1>3, <1>4, <1>5, <1>6, <1>7, <1>8, <1>9, <1>10, <1>11, <1>12, <1>13, <1>14, <1>15, <1>16, <1>17, <1>18, <1>19, <1>20, <1>21, <1>22, <1>23 DEF Drive

LEMMA DoneStep ==
    ASSUME AlwaysCommits, TypeOK, MemInv, Owned, Sole, Committed, DoneStepsLanded, [Next]_vars
    PROVE  DoneStepsLanded'
<1> SUFFICES ASSUME NEW s \in Steps,
                    \/ stepStatus'[s] = "done"
                    \/ \E t \in Runs : sched'[t][s] = "merged"
             PROVE  Landed(s)'
  BY DEF DoneStepsLanded
<1>1. ASSUME \/ stepStatus[s] = "done"
             \/ \E t \in Runs : sched[t][s] = "merged"
      PROVE  Landed(s)'
  BY <1>1, LandedStays DEF DoneStepsLanded
<1>2. ASSUME NEW r \in Runs, Drive(r) \/ Stop(r) PROVE Landed(s)'
  <2>1. CASE Record(r) /\ s = cur[r]
    <3>1. Landed(s)
      BY <2>1 DEF Record, RecordFrom, Committed, WorkOK
    <3> QED BY <3>1, LandedStays
  <2>2. CASE ~ (Record(r) /\ s = cur[r])
    <3>1. /\ stepStatus'[s] = "done" => stepStatus[s] = "done"
          /\ sched'[r][s] = "merged" => sched[r][s] = "merged"
      BY <1>2, <2>2, CountedBefore DEF MemInv
    <3>2. \A t \in Runs \ {r} : sched'[t] = sched[t]
      BY <1>2, OthersFrame DEF Untouched
    <3> QED BY <1>1, <3>1, <3>2
  <2> QED BY <2>1, <2>2
<1>3. CASE \E j \in Projects : CommitOutside(j)
  BY <1>1, <1>3 DEF CommitOutside, db, mem
<1>4. CASE UNCHANGED vars
  BY <1>1, <1>4 DEF vars, db, mem
<1> QED BY <1>2, <1>3, <1>4 DEF Next

-----------------------------------------------------------------------------
(***************************************************************************)
(* If the base branch is also the one checked out: a branch has what its   *)
(* step depends on.                                                        *)
(***************************************************************************)

\* Dependencies that merged are on the main worktree.
LEMMA DepsLanded ==
    ASSUME DoneStepsLanded, NEW r \in Runs, NEW s \in Steps, PlanOf[s] = plan[r],
           \A d \in Deps[s] : sched[r][d] = "merged"
    PROVE  Deps[s] \subseteq ToSet(Tip(r))
<1>1. ASSUME NEW d \in Deps[s] PROVE d \in ToSet(Tip(r))
  <2>1. d \in Steps /\ PlanOf[d] = plan[r]
    BY DepsAssumption
  <2>2. Landed(d)
    BY <2>1 DEF DoneStepsLanded
  <2> QED BY <2>1, <2>2, LandsHere
<1> QED BY <1>1

LEMMA BuildsStep ==
    ASSUME AlwaysCommits, BaseIsHead, TypeOK, MemInv, Owned, DoneStepsLanded,
           BuildsOnDependencies, [Next]_vars
    PROVE  BuildsOnDependencies'
<1> SUFFICES ASSUME NEW s \in Steps, branch'[s] # NoBranch
             PROVE  Deps[s] \subseteq ToSet(branch'[s])
  BY DEF BuildsOnDependencies
<1>a. branch \in [Steps -> Histories \cup {NoBranch}]
  BY DEF TypeOK
<1>1. ASSUME branch'[s] = branch[s] PROVE Deps[s] \subseteq ToSet(branch'[s])
  BY <1>1 DEF BuildsOnDependencies
<1>2. ASSUME NEW r \in Runs, Drive(r) \/ Stop(r) PROVE Deps[s] \subseteq ToSet(branch'[s])
  <2>a. RunOK(r) /\ Tip(r) \in Histories
    BY PlaceTyped DEF MemInv
  <2>b. ASSUME pc[r] \in Working
        PROVE  /\ cur[r] \in Steps
               /\ ~ InTree(r) => branch[cur[r]] \in Histories /\ branch[cur[r]] # NoBranch
               /\ OwnWork(cur[r]) \in {<<>>, <<cur[r]>>}
               /\ Deps[cur[r]] \subseteq ToSet(Tip(r))
    <3>1. /\ cur[r] \in Steps /\ PlanOf[cur[r]] = plan[r]
          /\ ~ InTree(r) => branch[cur[r]] \in Histories /\ branch[cur[r]] # NoBranch
          /\ OwnWork(cur[r]) \in {<<>>, <<cur[r]>>}
      BY <2>a, <2>b, WorkTyped, NoBranchApart
    <3>2. \A d \in Deps[cur[r]] : sched[r][d] = "merged"
      BY <2>a, <2>b, <3>1 DEF RunOK, AtStep, DepsMerged
    <3> QED BY <3>1, <3>2, DepsLanded
  <2> USE DEF Working, git
  <2>1. CASE CheckSlot(r)
    BY <1>1, <2>1 DEF CheckSlot
  <2>2. CASE Refuse(r)
    BY <1>1, <2>2 DEF Refuse
  <2>3. CASE Claim(r)
    BY <1>1, <2>3 DEF Claim
  <2>4. CASE Prepare(r)
    BY <1>1, <2>4 DEF Prepare
  <2>5. CASE NextBatch(r)
    BY <1>1, <2>5 DEF NextBatch
  <2>6. CASE BeginStep(r)
    <3> DEFINE u == First(batch[r])
    <3>1. u \in batch[r] /\ u \in Steps
      BY <2>a, <2>6, BeginFacts
    <3>2. PlanOf[u] = plan[r] /\ \A d \in Deps[u] : sched[r][d] = "merged"
      BY <2>a, <3>1 DEF RunOK, BatchOK, Mine, StepsOf
    <3>3. Deps[u] \subseteq ToSet(Tip(r))
      BY <3>1, <3>2, DepsLanded
    <3>4. branch' = [branch EXCEPT ![u] = Tip(r)] \/ branch' = branch
      BY <2>6 DEF BeginStep, BaseOf
    <3> HIDE DEF u
    <3>5. branch'[u] = Tip(r) \/ branch' = branch
      BY <1>a, <3>1, <3>4
    <3>6. CASE s = u
      BY <1>1, <3>3, <3>5, <3>6
    <3>7. CASE s # u
      BY <1>1, <1>a, <3>4, <3>7
    <3> QED BY <3>6, <3>7
  <2>7. CASE Implement(r)
    <3>1. pc[r] \in Working /\ cur[r] \in Steps
      BY <2>b, <2>7 DEF Implement
    <3>2. ~ InTree(r) => Deps[cur[r]] \subseteq ToSet(Append(branch[cur[r]], cur[r]))
      BY <2>b, <3>1, AppendFacts DEF BuildsOnDependencies
    <3>3. branch' = branch \/ (~ InTree(r) /\ branch' = [branch EXCEPT ![cur[r]] = Append(branch[cur[r]], cur[r])])
      BY <2>7 DEF Implement
    <3>4. CASE s = cur[r]
      BY <1>1, <1>a, <3>1, <3>2, <3>3, <3>4
    <3>5. CASE s # cur[r]
      BY <1>1, <1>a, <3>3, <3>5
    <3> QED BY <3>4, <3>5
  <2>8. CASE AwaitHuman(r)
    BY <1>1, <2>8 DEF AwaitHuman, Suspend
  <2>9. CASE TestsPass(r)
    BY <1>1, <2>9 DEF TestsPass
  <2>10. CASE TestsFail(r)
    <3>1. branch' = branch \/ branch' = [branch EXCEPT ![cur[r]] = NoBranch]
      BY <2>10 DEF TestsFail, Teardown
    <3> QED BY <1>1, <1>a, <3>1
  <2>11. CASE Rebase(r)
    <3>1. pc[r] \in Working /\ cur[r] \in Steps
      BY <2>b, <2>11 DEF Rebase
    <3>2. Deps[cur[r]] \subseteq ToSet(Tip(r) \o OwnWork(cur[r]))
      BY <2>a, <2>b, <3>1, AppendFacts, ConcatFacts
    <3>3. branch' = branch \/ branch' = [branch EXCEPT ![cur[r]] = Tip(r) \o OwnWork(cur[r])]
      BY <2>11 DEF Rebase
    <3>4. CASE s = cur[r]
      BY <1>1, <1>a, <3>1, <3>2, <3>3, <3>4
    <3>5. CASE s # cur[r]
      BY <1>1, <1>a, <3>3, <3>5
    <3> QED BY <3>4, <3>5
  <2>12. CASE RebaseConflict(r)
    BY <1>1, <2>12 DEF RebaseConflict
  <2>13. CASE Retest(r)
    BY <1>1, <2>13 DEF Retest
  <2>14. CASE Resolved(r)
    <3>1. pc[r] \in Working /\ cur[r] \in Steps
      BY <2>b, <2>14 DEF Resolved
    <3>2. Deps[cur[r]] \subseteq ToSet(Append(Tip(r), cur[r]))
      BY <2>a, <2>b, <3>1, AppendFacts, ConcatFacts
    <3>3. branch' = branch \/ branch' = [branch EXCEPT ![cur[r]] = Append(Tip(r), cur[r])]
      BY <2>14 DEF Resolved
    <3>4. CASE s = cur[r]
      BY <1>1, <1>a, <3>1, <3>2, <3>3, <3>4
    <3>5. CASE s # cur[r]
      BY <1>1, <1>a, <3>3, <3>5
    <3> QED BY <3>4, <3>5
  <2>15. CASE Escalate(r)
    BY <1>1, <2>15 DEF Escalate
  <2>16. CASE FastForward(r)
    BY <1>1, <2>16 DEF FastForward
  <2>17. CASE Record(r)
    <3>1. branch' = branch \/ branch' = [branch EXCEPT ![cur[r]] = NoBranch]
      BY <2>17 DEF Record, RecordFrom, Teardown
    <3> QED BY <1>1, <1>a, <3>1
  <2>18. CASE Quiesce(r)
    BY <1>1, <2>18 DEF Quiesce
  <2>19. CASE RunSuite(r)
    BY <1>1, <2>19 DEF RunSuite
  <2>20. CASE Settle(r)
    BY <1>1, <2>20 DEF Settle
  <2>21. CASE FinalSuite(r)
    BY <1>1, <2>21 DEF FinalSuite
  <2>22. CASE Complete(r)
    BY <1>1, <2>22 DEF Complete
  <2>23. CASE Stop(r)
    BY <1>1, <2>23 DEF Stop
  <2> QED BY <1>2, <2>1, <2>2, <2>3, <2>4, <2>5, <2>6, <2>7, <2>8, <2>9, <2>10, <2>11, <2>12, <2>13, <2>14, <2>15, <2>16, <2>17, <2>18, <2>19, <2>20, <2>21, <2>22, <2>23 DEF Drive
<1>3. CASE \E j \in Projects : CommitOutside(j)
  BY <1>1, <1>3 DEF CommitOutside
<1>4. CASE UNCHANGED vars
  BY <1>1, <1>4 DEF vars, git
<1> QED BY <1>2, <1>3, <1>4 DEF Next

-----------------------------------------------------------------------------
(***************************************************************************)
(* The inductive invariant.                                                *)
(***************************************************************************)
LEMMA InitIInv ==
    ASSUME Init
    PROVE  IInv
<1>a. \A r \in Runs : pc[r] = "new" /\ batch[r] = {} /\ \A s \in Steps : sched[r][s] = "pending"
  BY DEF Init
<1>b. \A s \in Steps : branch[s] = NoBranch /\ stepStatus[s] = "pending"
  BY DEF Init
<1>c. <<>> \in Histories
  BY DEF Histories
<1>1. TypeOK
  BY <1>c DEF Init, TypeOK, Coarse, PC, States
<1>2. MemInv
  BY <1>a DEF MemInv, RunOK, AtStep, BatchOK, DepsMerged, OnBranch, Working, Landing
<1>3. Owned /\ Sole
  BY <1>a DEF Owned, Sole, Owns, Working
<1>4. Committed
  BY <1>a DEF Init, Committed, WorkOK, Owns, Working
<1>5. DoneStepsLanded /\ BuildsOnDependencies
  BY <1>a, <1>b DEF DoneStepsLanded, BuildsOnDependencies
<1> QED BY <1>1, <1>2, <1>3, <1>4, <1>5 DEF IInv

LEMMA NextIInv ==
    ASSUME IInv, [Next]_vars
    PROVE  IInv'
<1>1. TypeOK' /\ MemInv' /\ Owned' /\ Sole'
  BY TypeStep, MemInvStep, OwnStep DEF IInv
<1>2. AlwaysCommits => Committed' /\ DoneStepsLanded'
  BY WorkStep, DoneStep DEF IInv
<1>3. AlwaysCommits /\ BaseIsHead => BuildsOnDependencies'
  BY BuildsStep DEF IInv
<1> QED BY <1>1, <1>2, <1>3 DEF IInv

\* What the driver loop keeps true of runs, branches and the main worktree,
\* whatever dies and whoever commits.
THEOREM Invariance == Spec => []IInv
<1>1. Init => IInv
  BY InitIInv
<1>2. IInv /\ [Next]_vars => IInv'
  BY NextIInv
<1> QED BY <1>1, <1>2, PTL DEF Spec

\* The state has its shape: in particular, a step whose branch is rebased, tested
\* or landed has a branch.
THEOREM TypeCorrect == Spec => []TypeOK
<1>1. IInv => TypeOK
  BY DEF IInv
<1> QED BY <1>1, Invariance, PTL

\* What the database or a run counts as done is on the main worktree (Record, after
\* FastForward), if the coders commit what they did.
THEOREM DoneLanded == AlwaysCommits => (Spec => []DoneStepsLanded)
<1> SUFFICES ASSUME AlwaysCommits PROVE Spec => []DoneStepsLanded
  OBVIOUS
<1>1. IInv => DoneStepsLanded
  BY DEF IInv
<1> QED BY <1>1, Invariance, PTL

\* A step's branch has what the step depends on (BeginStep, Rebase, Resolved), if
\* coders commit and the base branch is the one checked out.
THEOREM BuildsOn == AlwaysCommits /\ BaseIsHead => (Spec => []BuildsOnDependencies)
<1> SUFFICES ASSUME AlwaysCommits, BaseIsHead PROVE Spec => []BuildsOnDependencies
  OBVIOUS
<1>1. IInv => BuildsOnDependencies
  BY DEF IInv
<1> QED BY <1>1, Invariance, PTL

\* The main worktree advances to a tree the run has tested (FastForward, after
\* Retest or Resolved), if coders commit: nothing uncommitted was in what it tested.
THEOREM LandsTested == AlwaysCommits => (Spec => LandsWhatItTested)
<1> SUFFICES ASSUME AlwaysCommits PROVE Spec => LandsWhatItTested
  OBVIOUS
<1> DEFINE Lands == \A r \in Runs : pc[r] = "ff" /\ pc'[r] = "record" => tip'[Repo(r)] = tested[r]
<1>1. ASSUME IInv, [Next]_vars PROVE [Lands]_vars
  <2> SUFFICES ASSUME NEW r \in Runs, pc[r] = "ff", pc'[r] = "record"
               PROVE  tip'[Repo(r)] = tested[r]
    OBVIOUS
  <2>a. TypeOK /\ RunOK(r) /\ branch[cur[r]] = tested[r]
    BY <1>1 DEF IInv, MemInv, Committed, WorkOK
  <2>b. Repo(r) \in Projects
    BY <2>a, PlaceTyped
  <2>1. PICK t \in Runs : Drive(t) \/ Stop(t)
    BY <1>1 DEF Next, CommitOutside, vars
  <2>2. t = r
    BY <2>1, <2>a, OthersFrame DEF Untouched
  <2>3. FastForward(r)
    <3>1. ~ Stop(r)
      <4>1. Stop(r) => pc'[r] = "stopped"
        BY <2>a, GotoFacts DEF Stop, TypeOK, PC
      <4> QED BY <4>1
    <3> QED BY <2>1, <2>2, <3>1
          DEF Drive, CheckSlot, Refuse, Claim, Prepare, NextBatch, BeginStep, Implement,
              AwaitHuman, Suspend, TestsPass, TestsFail, Rebase, RebaseConflict, Retest,
              Resolved, Escalate, Record, RecordFrom, Quiesce, RunSuite, Settle, FinalSuite,
              Complete
  <2>4. CanFastForward(r)
    <3>1. ~ CanFastForward(r) => Goto(r, "stopped")
      BY <2>3 DEF FastForward
    <3>2. Goto(r, "stopped") => pc'[r] = "stopped"
      BY <2>a, GotoFacts DEF TypeOK, PC
    <3> QED BY <3>1, <3>2
  <2>5. tip' = [tip EXCEPT ![Repo(r)] = branch[cur[r]]]
    BY <2>3, <2>4 DEF FastForward
  <2> QED BY <2>a, <2>b, <2>5 DEF TypeOK
<1> QED BY <1>1, Invariance, PTL DEF Spec, LandsWhatItTested

-----------------------------------------------------------------------------
(***************************************************************************)
(* Runs only go forward.                                                   *)
(***************************************************************************)

\* The places of the stages, in their order.
LEMMA StagesApart ==
    /\ DOMAIN Stages = 1 .. 21
    /\ \A i, j \in 1 .. 21 : Stages[i] = Stages[j] => i = j
  BY DEF Stages

LEMMA PlaceAt ==
    ASSUME NEW i \in 1 .. 21, Stages[i] \in PC
    PROVE  Place[Stages[i]] = i
  BY StagesApart DEF Place

LEMMA Places ==
    /\ Place["new"] = 1
    /\ Place["checked"] = 2
    /\ Place["claimed"] = 3
    /\ Place["implement"] = 4
    /\ Place["test"] = 5
    /\ Place["rebase"] = 6
    /\ Place["retest"] = 7
    /\ Place["resolve"] = 8
    /\ Place["ff"] = 9
    /\ Place["record"] = 10
    /\ Place["quiesce"] = 11
    /\ Place["suite"] = 12
    /\ Place["loop"] = 13
    /\ Place["create"] = 14
    /\ Place["settle"] = 15
    /\ Place["finalSuite"] = 16
    /\ Place["complete"] = 17
    /\ Place["refused"] = 18
    /\ Place["paused"] = 19
    /\ Place["completed"] = 20
    /\ Place["stopped"] = 21
<1>1. Place["new"] = 1
  <2>1. Stages[1] = "new" /\ 1 \in 1 .. 21
    BY DEF Stages
  <2> QED BY <2>1, PlaceAt DEF PC
<1>2. Place["checked"] = 2
  <2>1. Stages[2] = "checked" /\ 2 \in 1 .. 21
    BY DEF Stages
  <2> QED BY <2>1, PlaceAt DEF PC
<1>3. Place["claimed"] = 3
  <2>1. Stages[3] = "claimed" /\ 3 \in 1 .. 21
    BY DEF Stages
  <2> QED BY <2>1, PlaceAt DEF PC
<1>4. Place["implement"] = 4
  <2>1. Stages[4] = "implement" /\ 4 \in 1 .. 21
    BY DEF Stages
  <2> QED BY <2>1, PlaceAt DEF PC
<1>5. Place["test"] = 5
  <2>1. Stages[5] = "test" /\ 5 \in 1 .. 21
    BY DEF Stages
  <2> QED BY <2>1, PlaceAt DEF PC
<1>6. Place["rebase"] = 6
  <2>1. Stages[6] = "rebase" /\ 6 \in 1 .. 21
    BY DEF Stages
  <2> QED BY <2>1, PlaceAt DEF PC
<1>7. Place["retest"] = 7
  <2>1. Stages[7] = "retest" /\ 7 \in 1 .. 21
    BY DEF Stages
  <2> QED BY <2>1, PlaceAt DEF PC
<1>8. Place["resolve"] = 8
  <2>1. Stages[8] = "resolve" /\ 8 \in 1 .. 21
    BY DEF Stages
  <2> QED BY <2>1, PlaceAt DEF PC
<1>9. Place["ff"] = 9
  <2>1. Stages[9] = "ff" /\ 9 \in 1 .. 21
    BY DEF Stages
  <2> QED BY <2>1, PlaceAt DEF PC
<1>10. Place["record"] = 10
  <2>1. Stages[10] = "record" /\ 10 \in 1 .. 21
    BY DEF Stages
  <2> QED BY <2>1, PlaceAt DEF PC
<1>11. Place["quiesce"] = 11
  <2>1. Stages[11] = "quiesce" /\ 11 \in 1 .. 21
    BY DEF Stages
  <2> QED BY <2>1, PlaceAt DEF PC
<1>12. Place["suite"] = 12
  <2>1. Stages[12] = "suite" /\ 12 \in 1 .. 21
    BY DEF Stages
  <2> QED BY <2>1, PlaceAt DEF PC
<1>13. Place["loop"] = 13
  <2>1. Stages[13] = "loop" /\ 13 \in 1 .. 21
    BY DEF Stages
  <2> QED BY <2>1, PlaceAt DEF PC
<1>14. Place["create"] = 14
  <2>1. Stages[14] = "create" /\ 14 \in 1 .. 21
    BY DEF Stages
  <2> QED BY <2>1, PlaceAt DEF PC
<1>15. Place["settle"] = 15
  <2>1. Stages[15] = "settle" /\ 15 \in 1 .. 21
    BY DEF Stages
  <2> QED BY <2>1, PlaceAt DEF PC
<1>16. Place["finalSuite"] = 16
  <2>1. Stages[16] = "finalSuite" /\ 16 \in 1 .. 21
    BY DEF Stages
  <2> QED BY <2>1, PlaceAt DEF PC
<1>17. Place["complete"] = 17
  <2>1. Stages[17] = "complete" /\ 17 \in 1 .. 21
    BY DEF Stages
  <2> QED BY <2>1, PlaceAt DEF PC
<1>18. Place["refused"] = 18
  <2>1. Stages[18] = "refused" /\ 18 \in 1 .. 21
    BY DEF Stages
  <2> QED BY <2>1, PlaceAt DEF PC
<1>19. Place["paused"] = 19
  <2>1. Stages[19] = "paused" /\ 19 \in 1 .. 21
    BY DEF Stages
  <2> QED BY <2>1, PlaceAt DEF PC
<1>20. Place["completed"] = 20
  <2>1. Stages[20] = "completed" /\ 20 \in 1 .. 21
    BY DEF Stages
  <2> QED BY <2>1, PlaceAt DEF PC
<1>21. Place["stopped"] = 21
  <2>1. Stages[21] = "stopped" /\ 21 \in 1 .. 21
    BY DEF Stages
  <2> QED BY <2>1, PlaceAt DEF PC
<1> QED BY <1>1, <1>2, <1>3, <1>4, <1>5, <1>6, <1>7, <1>8, <1>9, <1>10, <1>11, <1>12, <1>13, <1>14, <1>15, <1>16, <1>17, <1>18, <1>19, <1>20, <1>21

LEMMA ActorAdvances ==
    ASSUME TypeOK, NEW r \in Runs, RunOK(r), Drive(r) \/ Stop(r)
    PROVE  /\ Waiting(r)' \subseteq Waiting(r)
           /\ pc'[r] # pc[r] => Waiting(r)' # Waiting(r) \/ Place[pc[r]] < Place[pc'[r]]
<1>a. pc \in [Runs -> PC] /\ Mine(r)' = Mine(r) /\ Mine(r) \subseteq Steps
  BY OthersFrame DEF TypeOK, Mine, StepsOf
<1>b. ASSUME sched' = sched PROVE Waiting(r)' = Waiting(r)
  BY <1>a, <1>b DEF Waiting
<1>c. ASSUME NEW state \in States \ {"pending"}, Mark(r, cur[r], state), pc[r] \in Working
      PROVE  Waiting(r)' \subseteq Waiting(r)
  <2>1. cur[r] \in Steps
    BY <1>c DEF RunOK, AtStep, Mine, StepsOf
  <2>2. /\ sched'[r][cur[r]] = state
        /\ \A u \in Steps \ {cur[r]} : sched'[r][u] = sched[r][u]
    BY <1>c, <2>1, MarkFacts DEF TypeOK
  <2> QED BY <1>a, <1>c, <2>1, <2>2 DEF Waiting
<1>d. ASSUME NEW A \in PC, Goto(r, A) PROVE pc'[r] = A
  BY <1>a, <1>d, GotoFacts
<1>1. CASE CheckSlot(r)
  <2>1. pc[r] = "new" /\ sched' = sched
    BY <1>1 DEF CheckSlot, mem
  <2>2. Waiting(r)' = Waiting(r)
    BY <1>b, <2>1
  <2>3. Goto(r, "checked")
    BY <1>1 DEF CheckSlot
  <2>4. pc'[r] \in {"checked"}
    BY <1>d, <2>3 DEF PC
  <2> QED BY <2>1, <2>2, <2>4, Places
<1>2. CASE Refuse(r)
  <2>1. pc[r] = "new" /\ sched' = sched
    BY <1>2 DEF Refuse, mem
  <2>2. Waiting(r)' = Waiting(r)
    BY <1>b, <2>1
  <2>3. Goto(r, "refused")
    BY <1>2 DEF Refuse
  <2>4. pc'[r] \in {"refused"}
    BY <1>d, <2>3 DEF PC
  <2> QED BY <2>1, <2>2, <2>4, Places
<1>3. CASE Claim(r)
  <2>1. pc[r] = "checked" /\ sched' = sched
    BY <1>3 DEF Claim, mem
  <2>2. Waiting(r)' = Waiting(r)
    BY <1>b, <2>1
  <2>3. Goto(r, "claimed")
    BY <1>3 DEF Claim
  <2>4. pc'[r] \in {"claimed"}
    BY <1>d, <2>3 DEF PC
  <2> QED BY <2>1, <2>2, <2>4, Places
<1>4. CASE Prepare(r)
  <2>1. pc[r] = "claimed" /\ sched' = sched
    BY <1>4 DEF Prepare, mem
  <2>2. Waiting(r)' = Waiting(r)
    BY <1>b, <2>1
  <2>3. Goto(r, "loop")
    BY <1>4 DEF Prepare
  <2>4. pc'[r] \in {"loop"}
    BY <1>d, <2>3 DEF PC
  <2> QED BY <2>1, <2>2, <2>4, Places
<1>5. CASE NextBatch(r)
  <2>1. pc[r] = "loop" /\ sched' = sched
    BY <1>5 DEF NextBatch
  <2>2. Waiting(r)' = Waiting(r)
    BY <1>b, <2>1
  <2>3. Goto(r, "settle") \/ Goto(r, "create")
    BY <1>5 DEF NextBatch
  <2>4. pc'[r] \in {"settle", "create"}
    BY <1>d, <2>3 DEF PC
  <2> QED BY <2>1, <2>2, <2>4, Places
<1>6. CASE BeginStep(r)
  <2> DEFINE s == First(batch[r])
  <2>1. /\ s \in batch[r] /\ s \in Steps
        /\ sched'[r][s] = "running"
        /\ \A u \in Steps \ {s} : sched'[r][u] = sched[r][u]
    BY <1>6, BeginFacts
  <2>2. s \in Mine(r) /\ sched[r][s] = "pending"
    BY <2>1 DEF RunOK, BatchOK
  <2> HIDE DEF s
  <2>3. Waiting(r)' \subseteq Waiting(r)
    BY <1>a, <2>1 DEF Waiting
  <2>4. s \in Waiting(r) /\ s \notin Waiting(r)'
    BY <2>1, <2>2 DEF Waiting
  <2> QED BY <2>3, <2>4
<1>7. CASE Implement(r)
  <2>1. pc[r] = "implement" /\ Mark(r, cur[r], "testing")
    BY <1>7 DEF Implement
  <2>2. Waiting(r)' \subseteq Waiting(r)
    BY <1>c, <2>1 DEF States, Working
  <2>3. Goto(r, "test")
    BY <1>7 DEF Implement
  <2>4. pc'[r] \in {"test"}
    BY <1>d, <2>3 DEF PC
  <2> QED BY <2>1, <2>2, <2>4, Places
<1>8. CASE AwaitHuman(r)
  <2>1. pc[r] = "implement" /\ Mark(r, cur[r], "awaiting_human")
    BY <1>8 DEF AwaitHuman, Suspend
  <2>2. Waiting(r)' \subseteq Waiting(r)
    BY <1>c, <2>1 DEF States, Working
  <2>3. Goto(r, Onward(r))
    BY <1>8 DEF AwaitHuman, Suspend
  <2>4. pc'[r] \in {Onward(r)}
    BY <1>d, <2>3, OnwardFacts DEF PC
  <2> QED BY <2>1, <2>2, <2>4, Places, OnwardFacts
<1>9. CASE TestsPass(r)
  <2>1. pc[r] = "test" /\ (sched' = sched \/ Mark(r, cur[r], "merging"))
    BY <1>9 DEF TestsPass
  <2>2. Waiting(r)' \subseteq Waiting(r)
    BY <1>b, <1>c, <2>1 DEF States, Working
  <2>3. Goto(r, "record") \/ Goto(r, "rebase")
    BY <1>9 DEF TestsPass
  <2>4. pc'[r] \in {"record", "rebase"}
    BY <1>d, <2>3 DEF PC
  <2> QED BY <2>1, <2>2, <2>4, Places
<1>10. CASE TestsFail(r)
  <2>1. pc[r] = "test" /\ Mark(r, cur[r], "failed")
    BY <1>10 DEF TestsFail
  <2>2. Waiting(r)' \subseteq Waiting(r)
    BY <1>c, <2>1 DEF States, Working
  <2>3. Goto(r, Onward(r))
    BY <1>10 DEF TestsFail
  <2>4. pc'[r] \in {Onward(r)}
    BY <1>d, <2>3, OnwardFacts DEF PC
  <2> QED BY <2>1, <2>2, <2>4, Places, OnwardFacts
<1>11. CASE Rebase(r)
  <2>1. pc[r] = "rebase" /\ sched' = sched
    BY <1>11 DEF Rebase, mem
  <2>2. Waiting(r)' = Waiting(r)
    BY <1>b, <2>1
  <2>3. Goto(r, "retest")
    BY <1>11 DEF Rebase
  <2>4. pc'[r] \in {"retest"}
    BY <1>d, <2>3 DEF PC
  <2> QED BY <2>1, <2>2, <2>4, Places
<1>12. CASE RebaseConflict(r)
  <2>1. pc[r] = "rebase" /\ sched' = sched
    BY <1>12 DEF RebaseConflict, mem
  <2>2. Waiting(r)' = Waiting(r)
    BY <1>b, <2>1
  <2>3. Goto(r, "resolve")
    BY <1>12 DEF RebaseConflict
  <2>4. pc'[r] \in {"resolve"}
    BY <1>d, <2>3 DEF PC
  <2> QED BY <2>1, <2>2, <2>4, Places
<1>13. CASE Retest(r)
  <2>1. pc[r] = "retest" /\ sched' = sched
    BY <1>13 DEF Retest
  <2>2. Waiting(r)' = Waiting(r)
    BY <1>b, <2>1
  <2>3. Goto(r, "ff") \/ Goto(r, "resolve")
    BY <1>13 DEF Retest
  <2>4. pc'[r] \in {"ff", "resolve"}
    BY <1>d, <2>3 DEF PC
  <2> QED BY <2>1, <2>2, <2>4, Places
<1>14. CASE Resolved(r)
  <2>1. pc[r] = "resolve" /\ sched' = sched
    BY <1>14 DEF Resolved
  <2>2. Waiting(r)' = Waiting(r)
    BY <1>b, <2>1
  <2>3. Goto(r, "ff")
    BY <1>14 DEF Resolved
  <2>4. pc'[r] \in {"ff"}
    BY <1>d, <2>3 DEF PC
  <2> QED BY <2>1, <2>2, <2>4, Places
<1>15. CASE Escalate(r)
  <2>1. pc[r] = "resolve" /\ Mark(r, cur[r], "failed")
    BY <1>15 DEF Escalate
  <2>2. Waiting(r)' \subseteq Waiting(r)
    BY <1>c, <2>1 DEF States, Working
  <2>3. Goto(r, Onward(r))
    BY <1>15 DEF Escalate
  <2>4. pc'[r] \in {Onward(r)}
    BY <1>d, <2>3, OnwardFacts DEF PC
  <2> QED BY <2>1, <2>2, <2>4, Places, OnwardFacts
<1>16. CASE FastForward(r)
  <2>1. pc[r] = "ff" /\ sched' = sched
    BY <1>16 DEF FastForward, mem
  <2>2. Waiting(r)' = Waiting(r)
    BY <1>b, <2>1
  <2>3. Goto(r, "record") \/ Goto(r, "stopped")
    BY <1>16 DEF FastForward
  <2>4. pc'[r] \in {"record", "stopped"}
    BY <1>d, <2>3 DEF PC
  <2> QED BY <2>1, <2>2, <2>4, Places
<1>17. CASE Record(r)
  <2>1. pc[r] = "record" /\ Mark(r, cur[r], "merged")
    BY <1>17 DEF Record, RecordFrom
  <2>2. Waiting(r)' \subseteq Waiting(r)
    BY <1>c, <2>1 DEF States, Working
  <2>3. Goto(r, Onward(r))
    BY <1>17 DEF Record, RecordFrom
  <2>4. pc'[r] \in {Onward(r)}
    BY <1>d, <2>3, OnwardFacts DEF PC
  <2> QED BY <2>1, <2>2, <2>4, Places, OnwardFacts
<1>18. CASE Quiesce(r)
  <2>1. pc[r] = "quiesce" /\ sched' = sched
    BY <1>18 DEF Quiesce
  <2>2. Waiting(r)' = Waiting(r)
    BY <1>b, <2>1
  <2>3. Goto(r, "suite") \/ Goto(r, AfterSuite(r))
    BY <1>18 DEF Quiesce
  <2>4. pc'[r] \in {"suite", AfterSuite(r)}
    BY <1>d, <2>3, SuiteFacts DEF PC
  <2> QED BY <2>1, <2>2, <2>4, Places, SuiteFacts
<1>19. CASE RunSuite(r)
  <2>1. pc[r] = "suite" /\ sched' = sched
    BY <1>19 DEF RunSuite
  <2>2. Waiting(r)' = Waiting(r)
    BY <1>b, <2>1
  <2>3. Goto(r, AfterSuite(r)) \/ Goto(r, "settle")
    BY <1>19 DEF RunSuite
  <2>4. pc'[r] \in {AfterSuite(r), "settle"}
    BY <1>d, <2>3, SuiteFacts DEF PC
  <2> QED BY <2>1, <2>2, <2>4, Places, SuiteFacts
<1>20. CASE Settle(r)
  <2>1. pc[r] = "settle" /\ sched' = sched
    BY <1>20 DEF Settle, mem
  <2>2. Waiting(r)' = Waiting(r)
    BY <1>b, <2>1
  <2>3. Goto(r, "paused") \/ Goto(r, "finalSuite") \/ Goto(r, "complete")
    BY <1>20 DEF Settle
  <2>4. pc'[r] \in {"paused", "finalSuite", "complete"}
    BY <1>d, <2>3 DEF PC
  <2> QED BY <2>1, <2>2, <2>4, Places
<1>21. CASE FinalSuite(r)
  <2>1. pc[r] = "finalSuite" /\ sched' = sched
    BY <1>21 DEF FinalSuite
  <2>2. Waiting(r)' = Waiting(r)
    BY <1>b, <2>1
  <2>3. Goto(r, "complete") \/ Goto(r, "paused")
    BY <1>21 DEF FinalSuite
  <2>4. pc'[r] \in {"complete", "paused"}
    BY <1>d, <2>3 DEF PC
  <2> QED BY <2>1, <2>2, <2>4, Places
<1>22. CASE Complete(r)
  <2>1. pc[r] = "complete" /\ sched' = sched
    BY <1>22 DEF Complete, mem
  <2>2. Waiting(r)' = Waiting(r)
    BY <1>b, <2>1
  <2>3. Goto(r, "completed")
    BY <1>22 DEF Complete
  <2>4. pc'[r] \in {"completed"}
    BY <1>d, <2>3 DEF PC
  <2> QED BY <2>1, <2>2, <2>4, Places
<1>23. CASE Stop(r)
  <2>1. pc[r] \notin Over /\ Goto(r, "stopped") /\ sched' = sched
    BY <1>23 DEF Stop, mem
  <2>2. pc[r] \in PC /\ pc'[r] = "stopped"
    BY <1>a, <1>d, <2>1 DEF PC
  <2> QED BY <1>b, <2>1, <2>2, Places DEF PC, Over
<1> QED BY <1>1, <1>2, <1>3, <1>4, <1>5, <1>6, <1>7, <1>8, <1>9, <1>10, <1>11, <1>12, <1>13, <1>14, <1>15, <1>16, <1>17, <1>18, <1>19, <1>20, <1>21, <1>22, <1>23 DEF Drive

\* A run never waits for a step again that it has begun, and never goes back to an
\* earlier stage without having begun one: the driver loop ends.
THEOREM RunsForward == Spec => RunsAdvance
<1> DEFINE Forward == \A r \in Runs :
                        /\ Waiting(r)' \subseteq Waiting(r)
                        /\ pc'[r] # pc[r] => Waiting(r)' # Waiting(r) \/ Place[pc[r]] < Place[pc'[r]]
<1>1. ASSUME IInv, [Next]_vars PROVE Forward
  <2>1. ASSUME NEW t \in Runs, plan' = plan, pc'[t] = pc[t], sched'[t] = sched[t]
        PROVE  Waiting(t)' = Waiting(t) /\ pc'[t] = pc[t]
    BY <2>1 DEF Waiting, Mine
  <2>2. ASSUME NEW r \in Runs, Drive(r) \/ Stop(r), NEW t \in Runs
        PROVE  /\ Waiting(t)' \subseteq Waiting(t)
               /\ pc'[t] # pc[t] => \/ Waiting(t)' # Waiting(t)
                                    \/ Place[pc[t]] < Place[pc'[t]]
    <3>1. TypeOK /\ RunOK(r)
      BY <1>1 DEF IInv, MemInv
    <3>2. CASE t = r
      BY <2>2, <3>1, <3>2, ActorAdvances
    <3>3. CASE t # r
      BY <2>1, <2>2, <3>1, <3>3, OthersFrame DEF Untouched
    <3> QED BY <3>2, <3>3
  <2>3. CASE \E j \in Projects : CommitOutside(j)
    BY <2>1, <2>3 DEF CommitOutside, mem
  <2>4. CASE UNCHANGED vars
    BY <2>1, <2>4 DEF vars, mem
  <2> QED BY <1>1, <2>2, <2>3, <2>4 DEF Next
<1>2. ASSUME IInv, [Next]_vars PROVE [Forward]_vars
  BY <1>1, <1>2
<1> QED BY <1>2, Invariance, PTL DEF Spec, RunsAdvance
=============================================================================
