------------------------------- MODULE PlanStore -------------------------------
(***************************************************************************)
(* Stored plans and what reads them while others write: the authoring tools*)
(* (tools/plan.rs over db/plans.rs), `cockpit plan duplicate`, and `cockpit*)
(* plan run` (commands/plan.rs), which reads a plan in several statements  *)
(* and then works on what it has read (engine/exec/mod.rs and scheduler.rs)*)
(*                                                                         *)
(* A plan is its slug.  A tool call is one transaction after its references*)
(* are resolved, and nothing here deletes a plan or a step, so that what   *)
(* was resolved stays true; only the free slug of a duplicate may be gone  *)
(* when it is used.  Titles, packets, branches and timings carry no control*)
(* and are left out.  How a step is worked on and landed is the module     *)
(* PlanExecutor.                                                           *)
(***************************************************************************)
EXTENDS Naturals, FiniteSets

CONSTANTS Plans,
          Steps,    \* step ids: bounds how many are created
          Commands, \* processes of `plan duplicate`, one call each
          Runs,     \* processes of `plan run`, one call each
          MaxEdges  \* bounds how many edges the tools add

ASSUME PlanStoreAssumption ==
    "none" \notin Plans \cup Steps /\ MaxEdges \in Nat

VARIABLES
    status,     \* status[p]: plans.status, "absent" before it is created
    owner,      \* owner[s]: plan_steps.plan_id
    stepStatus, \* stepStatus[s]: plan_steps.status, pending and in_progress one
    deps,       \* plan_step_deps: <<f, t>> says that f runs after t
    copy,       \* copy[c]: the duplication c is in the middle of
    stage,      \* stage[r]: how far run r has come
    plan,       \* plan[r]: the plan it runs
    known,      \* known[r]: the steps of its scheduler
    edges,      \* edges[r]: the edges of its scheduler
    state,      \* state[r]: StepState of each step of its scheduler
    late        \* late[r]: the steps created after it read packets and tests

rows == <<status, owner, stepStatus, deps>>
reads == <<known, edges, state>>
vars == <<rows, copy, stage, plan, reads, late>>

Stages == {"off", "free", "claimed", "rows", "steps", "working", "ended"}
Reading == {"rows", "steps", "working"}
NoCopy == [source |-> "none", slug |-> "none"]

TypeOK ==
    /\ status \in [Plans -> {"absent", "pending", "in_progress", "done"}]
    /\ owner \in [Steps -> Plans \cup {"none"}]
    /\ stepStatus \in [Steps -> {"open", "done"}]
    /\ deps \subseteq Steps \X Steps
    /\ copy \in [Commands -> {NoCopy} \cup [source : Plans, slug : Plans]]
    /\ stage \in [Runs -> Stages]
    /\ plan \in [Runs -> Plans \cup {"none"}]
    /\ {known, late} \subseteq [Runs -> SUBSET Steps]
    /\ edges \in [Runs -> SUBSET (Steps \X Steps)]
    /\ state \in [Runs -> [Steps ->
                    {"Pending", "Running", "Merged", "Stopped"}]]

Init ==
    /\ status = [p \in Plans |-> "absent"]
    /\ owner = [s \in Steps |-> "none"]
    /\ stepStatus = [s \in Steps |-> "open"]
    /\ deps = {}
    /\ copy = [c \in Commands |-> NoCopy]
    /\ stage = [r \in Runs |-> "off"]
    /\ plan = [r \in Runs |-> "none"]
    /\ known = [r \in Runs |-> {}]
    /\ edges = known /\ late = known
    /\ state = [r \in Runs |-> [s \in Steps |-> "Pending"]]

StepsOf(p) == {s \in Steps : owner[s] = p}
EdgesOf(p) == {e \in deps : owner[e[1]] = p}

(* The runs that have read the packets of p when steps are added to it. *)
Arrive(p, new) ==
    late' = [r \in Runs |-> IF plan[r] = p /\ stage[r] \in Reading
                            THEN late[r] \cup new ELSE late[r]]

-----------------------------------------------------------------------------
(* Authoring *)

CreatePlan(p) ==
    /\ status[p] = "absent"
    /\ status' = [status EXCEPT ![p] = "pending"]
    /\ UNCHANGED <<owner, stepStatus, deps, copy, stage, plan, reads, late>>

(* add_step: a new step, its edges to steps of the same plan. *)
AddStep(p, s, on) ==
    /\ status[p] # "absent" /\ owner[s] = "none"
    /\ on \subseteq StepsOf(p)
    /\ Cardinality(deps) + Cardinality(on) <= MaxEdges
    /\ owner' = [owner EXCEPT ![s] = p]
    /\ deps' = deps \cup ({s} \X on)
    /\ Arrive(p, {s})
    /\ UNCHANGED <<status, stepStatus, copy, stage, plan, reads>>

(* find_path over the edges of a plan: goal is in every set of steps that  *)
(* holds start and whatever its members depend on.                         *)
FindPath(es, start, goal) ==
    \A S \in SUBSET Steps :
        start \in S /\ (\A e \in es : e[1] \in S => e[2] \in S) => goal \in S

\* Bug: the path is sought from the step that gets the dependency.
ClosesBackwards(p, f, t) == FindPath(EdgesOf(p), f, t)

ClosesCycle(p, f, t) == FindPath(EdgesOf(p), t, f)

AddDependency(p, f, t) ==
    /\ f # t /\ {f, t} \subseteq StepsOf(p)
    /\ Cardinality(deps) < MaxEdges
    /\ <<f, t>> \notin deps /\ ~ClosesCycle(p, f, t)
    /\ deps' = deps \cup {<<f, t>>}
    /\ UNCHANGED <<status, owner, stepStatus, copy, stage, plan, reads, late>>

-----------------------------------------------------------------------------
(* Duplication: a free slug, then one transaction. *)

FindSlug(c, p, slug) ==
    /\ copy[c] = NoCopy /\ status[p] # "absent" /\ status[slug] = "absent"
    /\ copy' = [copy EXCEPT ![c] = [source |-> p, slug |-> slug]]
    /\ UNCHANGED <<rows, stage, plan, reads, late>>

(* id_map sends the steps of the source to new ones. *)
Copies(p, to) ==
    /\ \A s \in StepsOf(p) : owner[to[s]] = "none"
    /\ \A s, t \in StepsOf(p) : to[s] = to[t] => s = t

CopiedEdges(p, to) == {<<to[e[1]], to[e[2]]>> : e \in EdgesOf(p)}

Duplicate(c) ==
    LET p == copy[c].source
        slug == copy[c].slug
    IN
    /\ copy[c] # NoCopy
    /\ copy' = [copy EXCEPT ![c] = NoCopy]
    /\ IF status[slug] # "absent" THEN UNCHANGED rows
       ELSE \E to \in [StepsOf(p) -> Steps] :
            /\ Copies(p, to)
            /\ status' = [status EXCEPT ![slug] = "pending"]
            /\ owner' = [s \in Steps |->
                           IF \E t \in StepsOf(p) : to[t] = s THEN slug
                           ELSE owner[s]]
            /\ deps' = deps \cup CopiedEdges(p, to)
            /\ UNCHANGED stepStatus
    /\ UNCHANGED <<stage, plan, reads, late>>

-----------------------------------------------------------------------------
(* `plan run`: the slot, then what it reads. *)

(* can_start looks for any plan in progress, the one to run included. *)
FindSlot(r, p) ==
    /\ stage[r] = "off" /\ status[p] # "absent"
    /\ \A q \in Plans : status[q] # "in_progress"
    /\ stage' = [stage EXCEPT ![r] = "free"]
    /\ plan' = [plan EXCEPT ![r] = p]
    /\ UNCHANGED <<rows, copy, reads, late>>

Claim(r) ==
    /\ stage[r] = "free"
    /\ stage' = [stage EXCEPT ![r] = "claimed"]
    /\ status' = [status EXCEPT ![plan[r]] = "in_progress"]
    /\ UNCHANGED <<owner, stepStatus, deps, copy, plan, reads, late>>

Advance(r, from, to) == stage[r] = from /\ stage' = [stage EXCEPT ![r] = to]

ReadRows(r) ==
    /\ Advance(r, "claimed", "rows")
    /\ UNCHANGED <<rows, copy, plan, reads, late>>

(* scheduler_for: the steps again, every one Pending whatever the database *)
(* says of it, and then the edges.                                         *)
ReadSteps(r) ==
    /\ Advance(r, "rows", "steps")
    /\ known' = [known EXCEPT ![r] = StepsOf(plan[r])]
    /\ UNCHANGED <<rows, copy, plan, edges, state, late>>

ReadEdges(r) ==
    /\ Advance(r, "steps", "working")
    /\ edges' = [edges EXCEPT ![r] = EdgesOf(plan[r])]
    /\ UNCHANGED <<rows, copy, plan, known, state, late>>

Reads(r) == ReadRows(r) \/ ReadSteps(r) \/ ReadEdges(r)

-----------------------------------------------------------------------------
(* The work on the steps, one at a time. *)

\* Bug: a dependency that has merged is not struck off.
EligibleRoots(r) ==
    {s \in known[r] : state[r][s] = "Pending" /\ \A e \in edges[r] : e[1] # s}

(* Unknown dependencies are never finished. *)
Eligible(r) ==
    {s \in known[r] : state[r][s] = "Pending" /\
        \A e \in edges[r] : e[1] = s =>
            e[2] \in known[r] /\ state[r][e[2]] = "Merged"}

Busy(r) == \E s \in known[r] : state[r][s] = "Running"

Begin(r, s) ==
    /\ stage[r] = "working" /\ ~Busy(r) /\ s \in Eligible(r)
    /\ state' = [state EXCEPT ![r][s] = "Running"]
    /\ stepStatus' = [stepStatus EXCEPT ![s] = "open"]
    /\ UNCHANGED <<status, owner, deps, copy, stage, plan, known,
                   edges, late>>

(* Merged, or stopped: red, rejected, or left for a human. *)
End(r, s, outcome) ==
    /\ stage[r] = "working" /\ s \in known[r] /\ state[r][s] = "Running"
    /\ state' = [state EXCEPT ![r][s] = outcome]
    /\ stepStatus' = [stepStatus EXCEPT ![s] =
                        IF outcome = "Merged" THEN "done" ELSE "open"]
    /\ UNCHANGED <<status, owner, deps, copy, stage, plan, known,
                   edges, late>>

\* Bug: a step that failed counts as finished.
AllTerminal(r) == \A s \in known[r] : state[r][s] \in {"Merged", "Stopped"}

AllMerged(r) == \A s \in known[r] : state[r][s] = "Merged"

Forgets(r) ==
    /\ known' = [known EXCEPT ![r] = {}]
    /\ edges' = [edges EXCEPT ![r] = {}]
    /\ state' = [state EXCEPT ![r] = [s \in Steps |-> "Pending"]]
    /\ late' = [late EXCEPT ![r] = {}]

(* Nothing is eligible: the plan is done if all has merged and the suite   *)
(* is green, and stays in progress otherwise.                              *)
Settle(r, green) ==
    /\ stage[r] = "working" /\ ~Busy(r) /\ Eligible(r) = {}
    /\ stage' = [stage EXCEPT ![r] = "ended"]
    /\ status' = IF AllMerged(r) /\ green
                 THEN [status EXCEPT ![plan[r]] = "done"] ELSE status
    /\ Forgets(r)
    /\ UNCHANGED <<owner, stepStatus, deps, copy, plan>>

(* The process dies, or a statement or command fails. *)
Die(r) ==
    /\ stage[r] \notin {"off", "ended"}
    /\ stage' = [stage EXCEPT ![r] = "ended"]
    /\ Forgets(r)
    /\ UNCHANGED <<rows, copy, plan>>

RunStep(r) ==
    \/ Claim(r) \/ Reads(r)
    \/ \E s \in Steps : Begin(r, s)
    \/ \E s \in Steps, o \in {"Merged", "Stopped"} : End(r, s, o)
    \/ \E green \in BOOLEAN : Settle(r, green)

Next ==
    \/ \E p \in Plans : CreatePlan(p)
    \/ \E p \in Plans, s \in Steps, on \in SUBSET Steps : AddStep(p, s, on)
    \/ \E p \in Plans, f, t \in Steps : AddDependency(p, f, t)
    \/ \E c \in Commands, p, slug \in Plans : FindSlug(c, p, slug)
    \/ \E c \in Commands : Duplicate(c)
    \/ \E r \in Runs, p \in Plans : FindSlot(r, p)
    \/ \E r \in Runs : RunStep(r) \/ Die(r)

Spec == Init /\ [][Next]_vars

-----------------------------------------------------------------------------
(* Properties *)

(* "Steps + edges form a DAG" (0014_plans.sql:60): no edge leaves its plan,*)
(* and among any steps one depends on none of the others.  Three ways lead *)
(* to an edge and one of them looks for a cycle, in the edges of one plan. *)
Acyclic ==
    /\ \A e \in deps : owner[e[1]] = owner[e[2]] /\ owner[e[1]] # "none"
    /\ \A S \in (SUBSET Steps) \ {{}} :
         \E s \in S : \A t \in S : <<s, t>> \notin deps

(* A run that finds nothing to do has merged what it knows, or a step has  *)
(* failed or waits for a human, or somebody made a step depend on one that *)
(* was created while the run was reading the plan.                         *)
StallsForAReason ==
    \A r \in Runs : stage[r] = "working" /\ ~Busy(r) /\ Eligible(r) = {} =>
        \/ AllMerged(r)
        \/ \E s \in known[r] : state[r][s] = "Stopped"
        \/ \E e \in edges[r] : e[1] \in known[r] /\ e[2] \in late[r]

(* complete_plan is for a plan of which "every step has merged" (exec/mod. *)
(* rs:726): when a run marks it done, so are its steps, save those created *)
(* after the run read the packets, unless two processes took the plan.     *)
DoneMeansDone ==
    [][\A r \in Runs : stage[r] = "working" /\ stage'[r] = "ended"
                       /\ status[plan[r]] # status'[plan[r]] =>
         \A s \in StepsOf(plan[r]) \ late[r] :
             \/ stepStatus[s] = "done"
             \/ \E q \in Runs \ {r} : plan[q] = plan[r]]_vars

(* Not kept by the code (see the README): a step is worked on with the     *)
(* packet and the tests it was created with.                               *)
KnowsItsPacket ==
    \A r \in Runs : \A s \in known[r] :
        state[r][s] = "Running" => s \notin late[r]
=============================================================================
