----------------------------- MODULE PlanExecutor -----------------------------
(***************************************************************************)
(* The plan executor: `cockpit plan run` (commands/plan.rs), the driver    *)
(* loop (engine/exec/mod.rs), the step scheduler (scheduler.rs), the       *)
(* serial merge queue (merge_queue.rs) and the per-step worktrees          *)
(* (worktree.rs) over git (git/mod.rs).                                    *)
(*                                                                         *)
(* Every invocation of `cockpit plan run` is a process of its own; they    *)
(* share the database (plan and step status) and the repository.  What an  *)
(* invocation knows of its steps (the scheduler) is its own memory: it is  *)
(* lost when the process dies or stops on an error, which it may do between*)
(* any two steps.                                                          *)
(*                                                                         *)
(* A history is the sequence of the commits a branch has: a step stands    *)
(* for its commit.  Coders, tests, conflicts and resolvers are external    *)
(* and answer what they like.                                              *)
(***************************************************************************)
EXTENDS Naturals, Sequences, SequencesExt, FiniteSets

CONSTANTS Runs,      \* invocations of `cockpit plan run`
          Plans, Steps, Projects,
          Outside,   \* a commit made by somebody else on the main worktree
          None,      \* no plan, no step, no branch, no tip
          PlanOf,    \* PlanOf[s]: the plan of step s
          Position,  \* Position[s]: its place in the authoring order
          Deps,      \* Deps[s]: the steps it depends on
          ProjectOf, \* ProjectOf[p]: the project, i.e. the repository, of plan p
          Shared,    \* the plans with isolation_mode = shared_tree
          Suite,     \* the plans with branch_stable tests
          BaseIsHead,   \* the plan's base branch is checked out in the main worktree
          AlwaysCommits,\* a coder that exits 0 has committed its work
          HeadMayFail,  \* `git rev-parse HEAD` may fail at a quiescence point
          MayStop,      \* a run may die or stop on an error
          MaxOutside    \* bound: commits made by somebody else

StepsOf(p) == {s \in Steps : PlanOf[s] = p}

ASSUME PlansAssumption ==
    /\ PlanOf \in [Steps -> Plans]
    /\ ProjectOf \in [Plans -> Projects]
    /\ Position \in [Steps -> Nat]
    /\ \A s, u \in Steps : Position[s] = Position[u] /\ PlanOf[s] = PlanOf[u] => s = u
ASSUME DepsAssumption ==
    /\ Deps \in [Steps -> SUBSET Steps]
    /\ \A s \in Steps : \A d \in Deps[s] : PlanOf[d] = PlanOf[s]
ASSUME KindsAssumption == Shared \subseteq Plans /\ Suite \subseteq Plans
ASSUME NoneAssumption == Outside \notin Steps /\ None \notin Steps \cup Plans \cup {Outside}
ASSUME SwitchesAssumption ==
    /\ BaseIsHead \in BOOLEAN /\ AlwaysCommits \in BOOLEAN
    /\ HeadMayFail \in BOOLEAN /\ MayStop \in BOOLEAN
    /\ MaxOutside \in Nat

VARIABLES
    status,     \* plans.status
    stepStatus, \* plan_steps.status
    tip,        \* tip[j]: history of the branch checked out in j's main worktree
    branch,     \* branch[s]: history of the step's branch, or <<None>> if there is none
    worktree,   \* the steps whose worktree exists
    loose,      \* the steps whose work is only in the working tree, not committed
    outside,    \* commits made by somebody else so far
    pc,         \* where each run is
    plan,       \* the plan it runs
    sched,      \* Scheduler.state of the run
    batch,      \* the eligible steps it has not processed yet
    cur,        \* the step it processes
    stableTip,  \* last_stable_tip
    red,        \* branch_stable_failed
    tested,     \* history: the tree on which the run's last green tests ran
    green       \* history: the tip on which the run's last green suite ran

db  == <<status, stepStatus>>
git == <<tip, branch, worktree, loose, outside>>
mem == <<plan, sched, batch, cur, stableTip, red, tested, green>>
vars == <<db, git, pc, mem>>

Coarse == {"pending", "in_progress", "done"}
States == {"pending", "running", "testing", "merging", "merged", "awaiting_human", "failed"}
PC == {"new", "checked", "claimed", "loop", "create", "implement", "test", "rebase",
       "retest", "resolve", "ff", "record", "quiesce", "suite", "settle", "finalSuite",
       "complete", "refused", "paused", "completed", "stopped"}
InWorktree == {"implement", "test", "rebase", "retest", "resolve"}
Over == {"refused", "paused", "completed", "stopped"}

Histories == Seq(Steps \cup {Outside})
NoBranch == <<None>>
NoTip == <<None>>

Repo(r) == ProjectOf[plan[r]]
Tip(r) == tip[Repo(r)]
Mine(r) == StepsOf(plan[r])
InTree(r) == plan[r] \in Shared

Init ==
    /\ status = [p \in Plans |-> "pending"]
    /\ stepStatus = [s \in Steps |-> "pending"]
    /\ tip = [j \in Projects |-> <<>>]
    /\ branch = [s \in Steps |-> NoBranch]
    /\ worktree = {}
    /\ loose = {}
    /\ outside = 0
    /\ pc = [r \in Runs |-> "new"]
    /\ plan \in [Runs -> Plans]
    /\ sched = [r \in Runs |-> [s \in Steps |-> "pending"]]
    /\ batch = [r \in Runs |-> {}]
    /\ cur = [r \in Runs |-> None]
    /\ stableTip = [r \in Runs |-> NoTip]
    /\ red = [r \in Runs |-> FALSE]
    /\ tested = [r \in Runs |-> NoTip]
    /\ green = [r \in Runs |-> NoTip]

-----------------------------------------------------------------------------
(***************************************************************************)
(* The scheduler.                                                          *)
(***************************************************************************)
Finished(state) == state = "merged"
Terminal(state) == state \in {"merged", "failed"}

\* Pending, and every dependency has merged.
Eligible(r, s) ==
    /\ s \in Mine(r)
    /\ sched[r][s] = "pending"
    /\ \A d \in Deps[s] : Finished(sched[r][d])

AllMerged(r) == \A s \in Mine(r) : sched[r][s] = "merged"

\* The steps are processed in authoring order.
First(S) == CHOOSE s \in S : \A u \in S : Position[s] <= Position[u]

\* Where the loop goes when the current step is done with: to the next step of
\* the batch, or to the quiescence point (shared_tree has none).
Onward(r) == IF batch[r] # {} THEN "create" ELSE IF InTree(r) THEN "loop" ELSE "quiesce"

Goto(r, at) == pc' = [pc EXCEPT ![r] = at]
Mark(r, s, state) == sched' = [sched EXCEPT ![r][s] = state]

Persist(s, coarse) == stepStatus' = [stepStatus EXCEPT ![s] = coarse]

-----------------------------------------------------------------------------
(***************************************************************************)
(* cockpit plan run: the slot.                                             *)
(***************************************************************************)

\* can_start: no plan, of whatever project, is in progress.
SlotFree == \A p \in Plans : status[p] # "in_progress"

CheckSlot(r) ==
    /\ pc[r] = "new" /\ SlotFree
    /\ Goto(r, "checked")
    /\ UNCHANGED <<db, git, mem>>

Refuse(r) ==
    /\ pc[r] = "new" /\ ~ SlotFree
    /\ Goto(r, "refused")
    /\ UNCHANGED <<db, git, mem>>

\* The second half of try_claim_slot.
Claim(r) ==
    /\ pc[r] = "checked"
    /\ status' = [status EXCEPT ![plan[r]] = "in_progress"]
    /\ Goto(r, "claimed")
    /\ UNCHANGED <<stepStatus, git, mem>>

\* cleanup_all removes the worktrees of the repository (not their branches);
\* then the run starts with every step pending.
Prepare(r) ==
    /\ pc[r] = "claimed"
    /\ LET gone == {s \in worktree : ProjectOf[PlanOf[s]] = Repo(r)} IN
        /\ worktree' = worktree \ gone
        /\ loose' = loose \ gone
    /\ Goto(r, "loop")
    /\ UNCHANGED <<db, tip, branch, outside, mem>>

-----------------------------------------------------------------------------
(***************************************************************************)
(* The driver loop: run_plan, and run_plan_shared_tree for a plan in Shared.*)
(***************************************************************************)

\* A batch of eligible steps is computed; there is none: the run settles.
NextBatch(r) ==
    /\ pc[r] = "loop"
    /\ batch' = [batch EXCEPT ![r] = {s \in Steps : Eligible(r, s)}]
    /\ Goto(r, IF batch'[r] = {} THEN "settle" ELSE "create")
    /\ UNCHANGED <<db, git, plan, sched, cur, stableTip, red, tested, green>>

\* Faulty variant: every step forks from where the plan started.
BaseOf_Start(r) == <<>>

\* What a worktree forks from: the plan's base branch, which is either checked
\* out in the main worktree or stays where it is.
BaseOf(r) == IF BaseIsHead THEN Tip(r) ELSE <<>>

\* The next step: marked running, persisted, and given a worktree on a fresh
\* branch.  A leftover branch of that name makes `git worktree add` fail.
BeginStep(r) ==
    /\ pc[r] = "create"
    /\ LET s == First(batch[r]) IN
        /\ batch' = [batch EXCEPT ![r] = @ \ {s}]
        /\ cur' = [cur EXCEPT ![r] = s]
        /\ Mark(r, s, "running")
        /\ Persist(s, "in_progress")
        /\ IF InTree(r)
           THEN Goto(r, "implement") /\ UNCHANGED <<branch, worktree>>
           ELSE IF branch[s] # NoBranch
           THEN Goto(r, "stopped") /\ UNCHANGED <<branch, worktree>>
           ELSE /\ branch' = [branch EXCEPT ![s] = BaseOf(r)]
                /\ worktree' = worktree \cup {s}
                /\ Goto(r, "implement")
    /\ UNCHANGED <<status, tip, loose, outside, plan, stableTip, red, tested, green>>

\* The directory the run works in is there.
HasTree(r) == InTree(r) \/ cur[r] \in worktree

\* The coder exits 0: its work is committed on the step's branch, or (if coders
\* may forget) only written to the worktree; in the shared tree it is just there.
Implement(r) ==
    /\ pc[r] = "implement" /\ HasTree(r)
    /\ Mark(r, cur[r], "testing")
    /\ Goto(r, "test")
    /\ \/ /\ InTree(r)
          /\ tip' = [tip EXCEPT ![Repo(r)] = Append(@, cur[r])]
          /\ UNCHANGED <<branch, loose>>
       \/ /\ ~ InTree(r)
          /\ branch' = [branch EXCEPT ![cur[r]] = Append(@, cur[r])]
          /\ UNCHANGED <<tip, loose>>
       \/ /\ ~ InTree(r) /\ ~ AlwaysCommits
          /\ loose' = loose \cup {cur[r]}
          /\ UNCHANGED <<tip, branch>>
    /\ UNCHANGED <<db, worktree, outside, plan, batch, cur, stableTip, red, tested, green>>

\* The coder exits non-zero: a human is needed.  The worktree stays, and so does
\* what the coder has done in the shared tree.
Suspend(r, state) ==
    /\ pc[r] = "implement" /\ HasTree(r)
    /\ Mark(r, cur[r], state)
    /\ Goto(r, Onward(r))
    /\ IF InTree(r) THEN \E part \in {<<>>, <<cur[r]>>} : tip' = [tip EXCEPT ![Repo(r)] = @ \o part]
       ELSE UNCHANGED tip
    /\ UNCHANGED <<db, branch, worktree, loose, outside, plan, batch, cur, stableTip, red, tested, green>>

\* Faulty variant: the step is queued again.
AwaitHuman_Requeues(r) == Suspend(r, "pending")

AwaitHuman(r) == Suspend(r, "awaiting_human")

\* The tree the tests see: the branch and what is not committed.
TreeOf(r) ==
    IF InTree(r) THEN Tip(r)
    ELSE IF cur[r] \in loose THEN Append(branch[cur[r]], cur[r]) ELSE branch[cur[r]]

\* The post_step tests are green, ...
TestsPass(r) ==
    /\ pc[r] = "test" /\ HasTree(r)
    /\ tested' = [tested EXCEPT ![r] = TreeOf(r)]
    /\ IF InTree(r) THEN Goto(r, "record") /\ UNCHANGED sched
       ELSE Goto(r, "rebase") /\ Mark(r, cur[r], "merging")
    /\ UNCHANGED <<db, git, plan, batch, cur, stableTip, red, green>>

\* teardown: the worktree goes, then its branch; the error is ignored, so it may
\* stop anywhere.
Teardown(s) ==
    \/ /\ s \in worktree
       /\ worktree' = worktree \ {s} /\ loose' = loose \ {s}
       /\ \/ branch' = [branch EXCEPT ![s] = NoBranch]
          \/ UNCHANGED branch
    \/ UNCHANGED <<worktree, loose, branch>>

\* ... or red: the step fails and is torn down.
TestsFail(r) ==
    /\ pc[r] = "test" /\ HasTree(r)
    /\ Mark(r, cur[r], "failed")
    /\ Persist(cur[r], "in_progress")
    /\ IF InTree(r) THEN UNCHANGED <<worktree, loose, branch>> ELSE Teardown(cur[r])
    /\ Goto(r, Onward(r))
    /\ UNCHANGED <<status, tip, outside, plan, batch, cur, stableTip, red, tested, green>>

-----------------------------------------------------------------------------
(***************************************************************************)
(* MergeQueue::land.                                                       *)
(***************************************************************************)

\* The branch is on top of the tip.
CanFastForward(r) == IsPrefix(Tip(r), branch[cur[r]])

\* What the branch has beyond its base.
OwnWork(s) == IF s \in ToSet(branch[s]) THEN <<s>> ELSE <<>>

\* Rebased onto the tip of the main worktree ...
Rebase(r) ==
    /\ pc[r] = "rebase" /\ HasTree(r)
    /\ branch' = [branch EXCEPT ![cur[r]] = Tip(r) \o OwnWork(cur[r])]
    /\ Goto(r, "retest")
    /\ UNCHANGED <<db, tip, worktree, loose, outside, mem>>

\* ... or in conflict with what landed since the branch was made (git also
\* refuses when work is not committed): the rebase is aborted and the resolver
\* called.
RebaseConflict(r) ==
    /\ pc[r] = "rebase" /\ HasTree(r)
    /\ ~ CanFastForward(r) \/ cur[r] \in loose
    /\ Goto(r, "resolve")
    /\ UNCHANGED <<db, git, mem>>

\* Faulty variant: a branch that was rebased is landed without testing it again.
Retest_Skips(r) ==
    /\ pc[r] = "retest" /\ HasTree(r)
    /\ Goto(r, "ff")
    /\ UNCHANGED <<db, git, mem>>

\* The post_step tests run again on the rebased tree.
Retest(r) ==
    /\ pc[r] = "retest" /\ HasTree(r)
    /\ \/ /\ tested' = [tested EXCEPT ![r] = TreeOf(r)]
          /\ Goto(r, "ff")
       \/ /\ UNCHANGED tested
          /\ Goto(r, "resolve")
    /\ UNCHANGED <<db, git, plan, sched, batch, cur, stableTip, red, green>>

\* The resolver's coder exits 0, leaves no conflict and its tree passes the
\* tests: it has committed the step on top of the tip, or changed nothing.
Resolved(r) ==
    /\ pc[r] = "resolve" /\ HasTree(r)
    /\ \/ /\ branch' = [branch EXCEPT ![cur[r]] = Append(Tip(r), cur[r])]
          /\ loose' = loose \ {cur[r]}
          /\ tested' = [tested EXCEPT ![r] = Append(Tip(r), cur[r])]
       \/ /\ UNCHANGED <<branch, loose>>
          /\ tested' = [tested EXCEPT ![r] = TreeOf(r)]
    /\ Goto(r, "ff")
    /\ UNCHANGED <<db, tip, worktree, outside, plan, sched, batch, cur, stableTip, red, green>>

\* It could not: the step fails, its worktree stays for a human.
Escalate(r) ==
    /\ pc[r] = "resolve" /\ HasTree(r)
    /\ Mark(r, cur[r], "failed")
    /\ Persist(cur[r], "in_progress")
    /\ Goto(r, Onward(r))
    /\ UNCHANGED <<status, git, plan, batch, cur, stableTip, red, tested, green>>

\* git merge --ff-only; a tip that moved is an error that ends the run.
FastForward(r) ==
    /\ pc[r] = "ff"
    /\ IF CanFastForward(r)
       THEN tip' = [tip EXCEPT ![Repo(r)] = branch[cur[r]]] /\ Goto(r, "record")
       ELSE UNCHANGED tip /\ Goto(r, "stopped")
    /\ UNCHANGED <<db, branch, worktree, loose, outside, mem>>

\* The step has merged: recorded, then torn down.
RecordFrom(r, stages) ==
    /\ pc[r] \in stages
    /\ Mark(r, cur[r], "merged")
    /\ Persist(cur[r], "done")
    /\ IF InTree(r) THEN UNCHANGED <<worktree, loose, branch>> ELSE Teardown(cur[r])
    /\ Goto(r, Onward(r))
    /\ UNCHANGED <<status, tip, outside, plan, batch, cur, stableTip, red, tested, green>>

\* Faulty variant: the step is recorded before its branch has landed.
Record_Early(r) == RecordFrom(r, {"ff", "record"})

Record(r) == RecordFrom(r, {"record"})

-----------------------------------------------------------------------------
(***************************************************************************)
(* The gates.                                                              *)
(***************************************************************************)

\* The loop stops at a quiescence point when nothing is eligible any more.
AfterSuite(r) == IF \E s \in Steps : Eligible(r, s) THEN "loop" ELSE "settle"

\* The batch is through.  The suite is due when the tip advanced since its last
\* run (reading the tip may fail: `.ok()`).
Quiesce(r) ==
    /\ pc[r] = "quiesce"
    /\ \E t \in {Tip(r)} \cup (IF HeadMayFail THEN {NoTip} ELSE {}) :
        IF plan[r] \in Suite /\ t # stableTip[r]
        THEN stableTip' = [stableTip EXCEPT ![r] = t] /\ Goto(r, "suite")
        ELSE UNCHANGED stableTip /\ Goto(r, AfterSuite(r))
    /\ UNCHANGED <<db, git, plan, sched, batch, cur, red, tested, green>>

\* branch_stable on the main worktree; red ends the loop.
RunSuite(r) ==
    /\ pc[r] = "suite"
    /\ \/ /\ green' = [green EXCEPT ![r] = Tip(r)]
          /\ Goto(r, AfterSuite(r))
          /\ UNCHANGED red
       \/ /\ red' = [red EXCEPT ![r] = TRUE]
          /\ Goto(r, "settle")
          /\ UNCHANGED green
    /\ UNCHANGED <<db, git, plan, sched, batch, cur, stableTip, tested>>

\* Every step merged and the suite was not red: the plan is done.  In the shared
\* tree the suite runs here, once.
Settle(r) ==
    /\ pc[r] = "settle"
    /\ Goto(r, IF ~ AllMerged(r) \/ red[r] THEN "paused"
               ELSE IF InTree(r) /\ plan[r] \in Suite THEN "finalSuite" ELSE "complete")
    /\ UNCHANGED <<db, git, mem>>

FinalSuite(r) ==
    /\ pc[r] = "finalSuite"
    /\ \/ green' = [green EXCEPT ![r] = Tip(r)] /\ UNCHANGED red /\ Goto(r, "complete")
       \/ red' = [red EXCEPT ![r] = TRUE] /\ UNCHANGED green /\ Goto(r, "paused")
    /\ UNCHANGED <<db, git, plan, sched, batch, cur, stableTip, tested>>

Complete(r) ==
    /\ pc[r] = "complete"
    /\ status' = [status EXCEPT ![plan[r]] = "done"]
    /\ Goto(r, "completed")
    /\ UNCHANGED <<stepStatus, git, mem>>

-----------------------------------------------------------------------------
\* The process dies, or a database, git or spawn error ends it (`?`): nothing is
\* undone.  A run whose worktree was removed under it ends that way, too.
Stop(r) ==
    /\ pc[r] \notin Over
    /\ MayStop \/ (pc[r] \in InWorktree /\ ~ HasTree(r))
    /\ Goto(r, "stopped")
    /\ UNCHANGED <<db, git, mem>>

\* Somebody commits on the branch that is checked out in the main worktree.
CommitOutside(j) ==
    /\ outside < MaxOutside
    /\ outside' = outside + 1
    /\ tip' = [tip EXCEPT ![j] = Append(@, Outside)]
    /\ UNCHANGED <<db, branch, worktree, loose, pc, mem>>

Drive(r) ==
    \/ CheckSlot(r) \/ Refuse(r) \/ Claim(r) \/ Prepare(r)
    \/ NextBatch(r) \/ BeginStep(r) \/ Implement(r) \/ AwaitHuman(r)
    \/ TestsPass(r) \/ TestsFail(r)
    \/ Rebase(r) \/ RebaseConflict(r) \/ Retest(r) \/ Resolved(r) \/ Escalate(r)
    \/ FastForward(r) \/ Record(r)
    \/ Quiesce(r) \/ RunSuite(r) \/ Settle(r) \/ FinalSuite(r) \/ Complete(r)

Next ==
    \/ \E r \in Runs : Drive(r) \/ Stop(r)
    \/ \E j \in Projects : CommitOutside(j)

Spec == Init /\ [][Next]_vars

\* A process that was started goes on, and coders, tests and git come back.
FairSpec == Spec /\ \A r \in Runs : WF_vars(Drive(r) \/ Stop(r))

-----------------------------------------------------------------------------
(***************************************************************************)
(* Properties.                                                             *)
(***************************************************************************)

\* The shape of the state.
TypeOK ==
    /\ status \in [Plans -> Coarse]
    /\ stepStatus \in [Steps -> Coarse]
    /\ tip \in [Projects -> Histories]
    /\ branch \in [Steps -> Histories \cup {NoBranch}]
    /\ worktree \subseteq Steps
    /\ loose \subseteq Steps
    /\ outside \in Nat
    /\ pc \in [Runs -> PC]
    /\ plan \in [Runs -> Plans]
    /\ sched \in [Runs -> [Steps -> States]]
    /\ batch \in [Runs -> SUBSET Steps]
    /\ cur \in [Runs -> Steps \cup {None}]
    /\ stableTip \in [Runs -> Histories \cup {NoTip}]
    /\ red \in [Runs -> BOOLEAN]
    /\ tested \in [Runs -> Histories \cup {NoTip}]
    /\ green \in [Runs -> Histories \cup {NoTip}]

Landed(s) == s \in ToSet(tip[ProjectOf[PlanOf[s]]])

\* "A step's work is not truly done until its branch has landed on the plan's
\* main worktree" (scheduler.rs): what the database calls done, and what a run
\* counts as merged, is in the history of the main worktree, whatever runs, dies
\* and is started again.
DoneStepsLanded ==
    \A s \in Steps :
        stepStatus[s] = "done" \/ (\E r \in Runs : sched[r][s] = "merged") => Landed(s)

\* "Post-rebase testing is non-negotiable" (merge_queue.rs): the main worktree
\* only ever advances to a commit whose tree was green as a whole, including
\* what others landed meanwhile, on the rebase path and on the resolver path.
LandsWhatItTested ==
    [][\A r \in Runs : pc[r] = "ff" /\ pc'[r] = "record" => tip'[Repo(r)] = tested[r]]_vars

\* A coder starts on top of the work its step depends on: a step branch has the
\* commits of all dependencies, from its creation on and also when a dead run
\* left it behind.
BuildsOnDependencies ==
    \A s \in Steps : branch[s] # NoBranch => Deps[s] \subseteq ToSet(branch[s])

\* The plan-completion gate: a plan becomes done when every step is landed and,
\* if it has branch_stable tests, the last green suite ran on a tip with the work
\* of the whole plan (others may have moved the tip since).
CompletesOnGreenTip ==
    [][\A r \in Runs : pc[r] = "complete" /\ pc'[r] = "completed" =>
         /\ \A s \in Mine(r) : Landed(s)
         /\ plan[r] \in Suite => Mine(r) \subseteq ToSet(green[r])]_vars

\* A run that ends without an error and without completing its plan has a reason
\* a human can act on: a failed step, one that waits for an answer, a red suite.
\* Nothing is left pending by the scheduler alone.
PausesForAReason ==
    \A r \in Runs : pc[r] = "paused" =>
        red[r] \/ \E s \in Mine(r) : sched[r][s] \in {"failed", "awaiting_human"}

\* Every run ends, because it only goes forward: each of its steps takes a plan
\* step out of the waiting ones or moves to a later stage of the driver loop, so
\* the loop cannot spin, whatever coders, tests, resolvers and other runs do.
Stages == <<"new", "checked", "claimed", "implement", "test", "rebase", "retest",
            "resolve", "ff", "record", "quiesce", "suite", "loop", "create", "settle",
            "finalSuite", "complete", "refused", "paused", "completed", "stopped">>
Place == [at \in PC |-> CHOOSE i \in DOMAIN Stages : Stages[i] = at]
Waiting(r) == {s \in Mine(r) : sched[r][s] = "pending"}
RunsAdvance ==
    [][\A r \in Runs :
         /\ Waiting(r)' \subseteq Waiting(r)
         /\ pc'[r] # pc[r] => Waiting(r)' # Waiting(r) \/ Place[pc[r]] < Place[pc'[r]]]_vars

\* The same as a liveness property.
RunEnds == \A r \in Runs : pc[r] # "new" ~> pc[r] \in Over

\* "The single execution slot per project (one plan in progress at a time)".
OnePlanAtATime ==
    \A p, q \in Plans :
        status[p] = "in_progress" /\ status[q] = "in_progress" /\ ProjectOf[p] = ProjectOf[q]
            => p = q

\* A plan is queued only behind a plan of its own project.
RefusedWithinProject ==
    [][\A r \in Runs : pc[r] = "new" /\ pc'[r] = "refused" =>
         \E p \in Plans : status[p] = "in_progress" /\ ProjectOf[p] = Repo(r)]_vars

\* "release it so a later run can resume": a run is refused only while another
\* invocation is executing a plan.
RefusedOnlyWhileRunning ==
    [][\A r \in Runs : pc[r] = "new" /\ pc'[r] = "refused" =>
         \E q \in Runs \ {r} : pc[q] \notin Over \cup {"new"}]_vars

\* "By construction it always is [possible] here, because the source branch was
\* just rebased onto this exact tip" (fast_forward).
FastForwardPossible == \A r \in Runs : pc[r] = "ff" => CanFastForward(r)

\* "A cancelled run cleans up its leftover worktrees too" (worktree.rs): a step
\* finds no branch of an earlier run in its way.
StartsFresh ==
    \A r \in Runs : pc[r] = "create" /\ ~ InTree(r) => branch[First(batch[r])] = NoBranch
=============================================================================
