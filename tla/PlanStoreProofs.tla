--------------------------- MODULE PlanStoreProofs ----------------------------
(***************************************************************************)
(* Machine-checked proofs about stored plans, for any plans, steps,        *)
(* duplications and runs, and any number of edges.                         *)
(*                                                                         *)
(* Acyclic is inductive as it stands: a new step has no edges yet, a copy  *)
(* has the shape of its source, and the path search of add_dependency      *)
(* yields a set that the new edge cannot lead back from.  What a run knows *)
(* is compared with the store, which others change meanwhile, by RunOK: the*)
(* steps it does not know came while it was reading, its edges are stored  *)
(* ones, and a step it has merged is done unless another run of the plan   *)
(* opened it again.                                                        *)
(***************************************************************************)
EXTENDS PlanStore, ClientView, SequenceTheorems, WellFoundedInduction, FiniteSetTheorems, TLAPS

Kept(r, s) ==
    \/ stepStatus[s] = "done"
    \/ \E q \in Runs \ {r} : plan[q] = plan[r]

RunOK(r) ==
    /\ stage[r] = "off" <=> plan[r] = "none"
    /\ stage[r] # "off" => status[plan[r]] # "absent"
    /\ stage[r] \in {"steps", "working"} =>
         /\ known[r] \subseteq StepsOf(plan[r])
         /\ StepsOf(plan[r]) \subseteq known[r] \cup late[r]
    /\ stage[r] \notin {"steps", "working"} => known[r] = {}
    /\ stage[r] # "working" => \A s \in Steps : state[r][s] = "Pending"
    /\ edges[r] \subseteq EdgesOf(plan[r])
    /\ \A s \in known[r] : state[r][s] = "Merged" => Kept(r, s)
RunsOK == \A r \in Runs : RunOK(r)

\* The two parts of Acyclic.
OwnPlan == \A e \in deps : owner[e[1]] = owner[e[2]] /\ owner[e[1]] # "none"
Minimal(S) == \E s \in S : \A t \in S : <<s, t>> \notin deps

IInv == TypeOK /\ Acyclic /\ RunsOK

LEMMA AcyclicParts == Acyclic <=> OwnPlan /\ \A S \in (SUBSET Steps) \ {{}} : Minimal(S)
  BY DEF Acyclic, OwnPlan, Minimal

-----------------------------------------------------------------------------
(***************************************************************************)
(* The types.                                                              *)
(***************************************************************************)
LEMMA TypeStep ==
    ASSUME TypeOK, OwnPlan, [Next]_vars
    PROVE  TypeOK'
<1>a. /\ status \in [Plans -> {"absent", "pending", "in_progress", "done"}]
      /\ owner \in [Steps -> Plans \cup {"none"}]
      /\ stepStatus \in [Steps -> {"open", "done"}]
      /\ deps \subseteq Steps \X Steps
      /\ copy \in [Commands -> {NoCopy} \cup [source : Plans, slug : Plans]]
      /\ stage \in [Runs -> Stages]
      /\ plan \in [Runs -> Plans \cup {"none"}]
      /\ known \in [Runs -> SUBSET Steps] /\ late \in [Runs -> SUBSET Steps]
      /\ edges \in [Runs -> SUBSET (Steps \X Steps)]
      /\ state \in [Runs -> [Steps -> {"Pending", "Running", "Merged", "Stopped"}]]
  BY DEF TypeOK
<1>b. ASSUME NEW p \in Plans, NEW new \in SUBSET Steps, Arrive(p, new)
      PROVE  late' \in [Runs -> SUBSET Steps]
  BY <1>a, <1>b DEF Arrive
<1>c. ASSUME NEW r \in Runs, Forgets(r)
      PROVE  /\ known' \in [Runs -> SUBSET Steps] /\ late' \in [Runs -> SUBSET Steps]
             /\ edges' \in [Runs -> SUBSET (Steps \X Steps)]
             /\ state' \in [Runs -> [Steps -> {"Pending", "Running", "Merged", "Stopped"}]]
  BY <1>a, <1>c DEF Forgets
<1> USE DEF rows, reads
<1>1. ASSUME NEW p \in Plans, CreatePlan(p) PROVE TypeOK'
  BY <1>1 DEF TypeOK, CreatePlan
<1>2. ASSUME NEW p \in Plans, NEW s \in Steps, NEW on \in SUBSET Steps, AddStep(p, s, on)
      PROVE  TypeOK'
  <2>1. /\ owner' = [owner EXCEPT ![s] = p] /\ deps' = deps \cup ({s} \X on)
        /\ Arrive(p, {s})
        /\ UNCHANGED <<status, stepStatus, copy, stage, plan, reads>>
    BY <1>2 DEF AddStep
  <2>2. late' \in [Runs -> SUBSET Steps]
    BY <1>b, <2>1
  <2>3. owner' \in [Steps -> Plans \cup {"none"}]
    BY <1>a, <2>1
  <2>4. deps' \subseteq Steps \X Steps
    BY <1>a, <2>1
  <2> QED BY <2>1, <2>2, <2>3, <2>4 DEF TypeOK
<1>3. ASSUME NEW p \in Plans, NEW f \in Steps, NEW t \in Steps, AddDependency(p, f, t)
      PROVE  TypeOK'
  BY <1>3 DEF TypeOK, AddDependency
<1>4. ASSUME NEW c \in Commands, NEW p \in Plans, NEW slug \in Plans, FindSlug(c, p, slug)
      PROVE  TypeOK'
  BY <1>4 DEF TypeOK, FindSlug
<1>5. ASSUME NEW c \in Commands, Duplicate(c) PROVE TypeOK'
  <2> DEFINE p == copy[c].source
             slug == copy[c].slug
  <2>1. copy[c] # NoCopy /\ copy' = [copy EXCEPT ![c] = NoCopy]
        /\ UNCHANGED <<stage, plan, reads, late>>
    BY <1>5 DEF Duplicate
  <2>2. slug \in Plans
    BY <1>a, <2>1
  <2>3. copy' \in [Commands -> {NoCopy} \cup [source : Plans, slug : Plans]]
    BY <1>a, <2>1
  <2>4. CASE status[slug] # "absent"
    BY <1>5, <2>1, <2>3, <2>4 DEF TypeOK, Duplicate
  <2>5. CASE status[slug] = "absent"
    <3>1. PICK to \in [StepsOf(p) -> Steps] :
            /\ status' = [status EXCEPT ![slug] = "pending"]
            /\ owner' = [s \in Steps |->
                           IF \E t \in StepsOf(p) : to[t] = s THEN slug ELSE owner[s]]
            /\ deps' = deps \cup CopiedEdges(p, to)
            /\ UNCHANGED stepStatus
      BY <1>5, <2>5 DEF Duplicate
    <3>2. owner' \in [Steps -> Plans \cup {"none"}]
      BY <1>a, <2>2, <3>1
    <3>3. status' \in [Plans -> {"absent", "pending", "in_progress", "done"}]
      BY <1>a, <2>2, <3>1
    <3>4. CopiedEdges(p, to) \subseteq Steps \X Steps
      <4>1. ASSUME NEW e \in EdgesOf(p) PROVE e[1] \in StepsOf(p) /\ e[2] \in StepsOf(p)
        BY <1>a, <4>1 DEF EdgesOf, StepsOf, OwnPlan
      <4> QED BY <4>1 DEF CopiedEdges
    <3> QED BY <2>1, <2>3, <3>1, <3>2, <3>3, <3>4 DEF TypeOK
  <2> QED BY <2>4, <2>5
<1>6. ASSUME NEW r \in Runs, NEW p \in Plans, FindSlot(r, p) PROVE TypeOK'
  BY <1>6 DEF TypeOK, FindSlot, Stages
<1>7. ASSUME NEW r \in Runs, Claim(r) PROVE TypeOK'
  BY <1>7 DEF TypeOK, Claim, Stages
<1>8. ASSUME NEW r \in Runs, Reads(r) PROVE TypeOK'
  <2>1. stage' \in [Runs -> Stages]
    BY <1>a, <1>8 DEF Reads, ReadRows, ReadSteps, ReadEdges, Advance, Stages
  <2>2. StepsOf(plan[r]) \subseteq Steps /\ EdgesOf(plan[r]) \subseteq Steps \X Steps
    BY <1>a DEF StepsOf, EdgesOf
  <2>3. /\ known' \in [Runs -> SUBSET Steps]
        /\ edges' \in [Runs -> SUBSET (Steps \X Steps)]
    BY <1>a, <1>8, <2>2 DEF Reads, ReadRows, ReadSteps, ReadEdges
  <2>4. UNCHANGED <<rows, copy, plan, state, late>>
    BY <1>8 DEF Reads, ReadRows, ReadSteps, ReadEdges
  <2> QED BY <2>1, <2>3, <2>4 DEF TypeOK
<1>9. ASSUME NEW r \in Runs, NEW s \in Steps,
             Begin(r, s) \/ End(r, s, "Merged") \/ End(r, s, "Stopped")
      PROVE  TypeOK'
  <2>1. \E at \in {"Pending", "Running", "Merged", "Stopped"}, was \in {"open", "done"} :
            /\ state' = [state EXCEPT ![r][s] = at]
            /\ stepStatus' = [stepStatus EXCEPT ![s] = was]
    BY <1>9 DEF Begin, End
  <2>2. /\ state' \in [Runs -> [Steps -> {"Pending", "Running", "Merged", "Stopped"}]]
        /\ stepStatus' \in [Steps -> {"open", "done"}]
    BY <1>a, <2>1
  <2>3. UNCHANGED <<status, owner, deps, copy, stage, plan, known, edges, late>>
    BY <1>9 DEF Begin, End
  <2> QED BY <2>2, <2>3 DEF TypeOK
<1>10. ASSUME NEW r \in Runs, NEW green \in BOOLEAN, Settle(r, green) PROVE TypeOK'
  <2>1. status' \in [Plans -> {"absent", "pending", "in_progress", "done"}]
    BY <1>a, <1>10 DEF Settle
  <2>2. stage' \in [Runs -> Stages]
    BY <1>a, <1>10 DEF Settle, Stages
  <2> QED BY <1>c, <1>10, <2>1, <2>2 DEF TypeOK, Settle
<1>11. ASSUME NEW r \in Runs, Die(r) PROVE TypeOK'
  <2>1. stage' \in [Runs -> Stages]
    BY <1>a, <1>11 DEF Die, Stages
  <2> QED BY <1>c, <1>11, <2>1 DEF TypeOK, Die
<1>12. CASE UNCHANGED vars
  BY <1>12 DEF TypeOK, vars
<1> QED BY <1>1, <1>2, <1>3, <1>4, <1>5, <1>6, <1>7, <1>8, <1>9, <1>10, <1>11, <1>12
       DEF Next, RunStep

-----------------------------------------------------------------------------
(***************************************************************************)
(* The edges of a plan have no cycle.                                      *)
(***************************************************************************)

\* The store's part of a step: nothing, or one of the three ways to an edge.
LEMMA StoreStep ==
    ASSUME TypeOK, [Next]_vars
    PROVE  \/ UNCHANGED <<owner, deps>>
           \/ \E p \in Plans, s \in Steps, on \in SUBSET Steps : AddStep(p, s, on)
           \/ \E p \in Plans, f, t \in Steps : AddDependency(p, f, t)
           \/ \E c \in Commands : Duplicate(c)
  BY DEF Next, RunStep, Reads, CreatePlan, FindSlug, FindSlot, Claim, ReadRows, ReadSteps,
         ReadEdges, Begin, End, Settle, Die, rows, vars

\* An edge joins steps of one plan.
LEMMA Ends ==
    ASSUME TypeOK, OwnPlan, NEW a, NEW b, <<a, b>> \in deps
    PROVE  a \in Steps /\ b \in Steps /\ owner[a] = owner[b] /\ owner[a] # "none"
<1>1. PICK e \in deps : e = <<a, b>>
  OBVIOUS
<1>2. e[1] = a /\ e[2] = b
  BY <1>1
<1>3. owner[e[1]] = owner[e[2]] /\ owner[e[1]] # "none"
  BY DEF OwnPlan
<1>4. e \in Steps \X Steps
  BY DEF TypeOK
<1> QED BY <1>2, <1>3, <1>4

LEMMA AddStepAcyclic ==
    ASSUME TypeOK, OwnPlan, \A S \in (SUBSET Steps) \ {{}} : Minimal(S),
           NEW p \in Plans, NEW s \in Steps, NEW on \in SUBSET Steps, AddStep(p, s, on)
    PROVE  OwnPlan' /\ \A S \in (SUBSET Steps) \ {{}} : Minimal(S)'
<1>1. /\ owner[s] = "none" /\ on \subseteq StepsOf(p)
      /\ owner' = [owner EXCEPT ![s] = p] /\ deps' = deps \cup ({s} \X on)
      /\ owner \in [Steps -> Plans \cup {"none"}]
      /\ deps \subseteq Steps \X Steps
      /\ "none" \notin Plans
  BY PlanStoreAssumption DEF AddStep, TypeOK
<1>2. owner'[s] = p /\ \A t \in Steps \ {s} : owner'[t] = owner[t]
  BY <1>1
<1>3. \A t \in on : t \in Steps /\ owner[t] = p /\ t # s
  BY <1>1 DEF StepsOf
<1>4. \A e \in deps : e[1] # s /\ e[2] # s /\ e[1] \in Steps /\ e[2] \in Steps
  BY <1>1 DEF OwnPlan
<1>5. \A a, b : <<a, b>> \in deps' => <<a, b>> \in deps \/ (a = s /\ b \in on)
  <2> SUFFICES ASSUME NEW a, NEW b, <<a, b>> \in deps', <<a, b>> \notin deps
               PROVE  a = s /\ b \in on
    OBVIOUS
  <2>1. PICK e \in {s} \X on : e = <<a, b>>
    BY <1>1
  <2> QED BY <2>1
<1>6. OwnPlan'
  <2> SUFFICES ASSUME NEW e \in deps' PROVE owner'[e[1]] = owner'[e[2]] /\ owner'[e[1]] # "none"
    BY DEF OwnPlan
  <2>1. CASE e \in deps
    BY <1>2, <1>4, <2>1 DEF OwnPlan
  <2>2. CASE e \in {s} \X on
    <3>1. e[1] = s /\ e[2] \in on
      BY <2>2
    <3> QED BY <1>1, <1>2, <1>3, <3>1
  <2> QED BY <1>1, <2>1, <2>2
<1>7. ASSUME NEW S \in (SUBSET Steps) \ {{}} PROVE Minimal(S)'
  <2>1. CASE S \ {s} = {}
    <3>1. S = {s} /\ <<s, s>> \notin deps'
      <4>1. ~ (<<s, s>> \in deps)
        BY <1>1, Ends
      <4> QED BY <1>3, <1>5, <2>1, <4>1
    <3> QED BY <3>1 DEF Minimal
  <2>2. CASE S \ {s} # {}
    <3>1. PICK m \in S \ {s} : \A t \in S \ {s} : <<m, t>> \notin deps
      BY <2>2 DEF Minimal
    <3>2. <<m, s>> \notin deps
      BY <1>4
    <3>3. \A t \in S : <<m, t>> \notin deps'
      BY <1>5, <3>1, <3>2
    <3> QED BY <3>1, <3>3 DEF Minimal
  <2> QED BY <2>1, <2>2
<1> QED BY <1>6, <1>7

LEMMA AddDependencyAcyclic ==
    ASSUME TypeOK, OwnPlan, \A S \in (SUBSET Steps) \ {{}} : Minimal(S),
           NEW p \in Plans, NEW f \in Steps, NEW t \in Steps, AddDependency(p, f, t)
    PROVE  OwnPlan' /\ \A S \in (SUBSET Steps) \ {{}} : Minimal(S)'
<1>1. /\ f # t /\ owner[f] = p /\ owner[t] = p
      /\ deps' = deps \cup {<<f, t>>} /\ owner' = owner
      /\ ~ ClosesCycle(p, f, t)
      /\ owner \in [Steps -> Plans \cup {"none"}]
      /\ deps \subseteq Steps \X Steps
      /\ "none" \notin Plans
  BY PlanStoreAssumption DEF AddDependency, TypeOK, StepsOf
<1>2. OwnPlan'
  BY <1>1 DEF OwnPlan
\* What t depends on, and not f.
<1>3. PICK C \in SUBSET Steps :
          t \in C /\ f \notin C /\ \A e \in EdgesOf(p) : e[1] \in C => e[2] \in C
  BY <1>1 DEF ClosesCycle, FindPath
<1>4. ASSUME NEW S \in (SUBSET Steps) \ {{}} PROVE Minimal(S)'
  <2>1. CASE t \notin S
    <3>1. PICK m \in S : \A x \in S : <<m, x>> \notin deps
      BY DEF Minimal
    <3>2. \A x \in S : <<m, x>> \notin deps'
      BY <1>1, <2>1, <3>1
    <3> QED BY <3>2 DEF Minimal
  <2>2. CASE t \in S
    <3> DEFINE T == {x \in S : x \in C /\ owner[x] = p}
    <3>1. T \in (SUBSET Steps) \ {{}}
      BY <1>1, <1>3, <2>2
    <3>2. PICK m \in T : \A x \in T : <<m, x>> \notin deps
      BY <3>1 DEF Minimal
    <3>3. ASSUME NEW x \in S, <<m, x>> \in deps PROVE FALSE
      <4>1. <<m, x>> \in EdgesOf(p) /\ owner[x] = p
        <5>1. <<m, x>>[1] = m /\ <<m, x>>[2] = x
          OBVIOUS
        <5> QED BY <3>2, <3>3, <5>1 DEF OwnPlan, EdgesOf
      <4>2. x \in C
        BY <1>3, <3>2, <4>1
      <4> QED BY <3>2, <3>3, <4>1, <4>2
    <3>4. \A x \in S : <<m, x>> \notin deps'
      BY <1>1, <1>3, <3>2, <3>3
    <3> QED BY <3>2, <3>4 DEF Minimal
  <2> QED BY <2>1, <2>2
<1> QED BY <1>2, <1>4

LEMMA DuplicateAcyclic ==
    ASSUME TypeOK, OwnPlan, \A S \in (SUBSET Steps) \ {{}} : Minimal(S),
           NEW c \in Commands, Duplicate(c)
    PROVE  OwnPlan' /\ \A S \in (SUBSET Steps) \ {{}} : Minimal(S)'
<1>1. PICK p \in Plans, slug \in Plans : copy[c] = [source |-> p, slug |-> slug]
  BY DEF Duplicate, TypeOK
<1>2. CASE status[slug] # "absent"
  <2>1. UNCHANGED <<owner, deps>>
    BY <1>1, <1>2 DEF Duplicate, rows
  <2> QED BY <2>1 DEF OwnPlan, Minimal
<1>3. CASE status[slug] = "absent"
  <2>1. PICK to \in [StepsOf(p) -> Steps] :
          /\ Copies(p, to)
          /\ owner' = [s \in Steps |->
                         IF \E t \in StepsOf(p) : to[t] = s THEN slug ELSE owner[s]]
          /\ deps' = deps \cup CopiedEdges(p, to)
    BY <1>1, <1>3 DEF Duplicate
  <2>2. /\ owner \in [Steps -> Plans \cup {"none"}] /\ deps \subseteq Steps \X Steps
        /\ "none" \notin Plans
    BY PlanStoreAssumption DEF TypeOK
  <2>3. /\ \A t \in StepsOf(p) : to[t] \in Steps /\ owner[to[t]] = "none" /\ owner'[to[t]] = slug
        /\ \A s, t \in StepsOf(p) : to[s] = to[t] => s = t
        /\ \A s \in Steps : owner[s] # "none" => owner'[s] = owner[s]
    BY <2>1 DEF Copies
  <2>4. \A e \in EdgesOf(p) : e = <<e[1], e[2]>> /\ e[1] \in StepsOf(p) /\ e[2] \in StepsOf(p)
    BY <2>2 DEF EdgesOf, StepsOf, OwnPlan
  <2>5. \A e \in deps : /\ e[1] \in Steps /\ e[2] \in Steps
                        /\ owner[e[1]] # "none" /\ owner[e[2]] # "none"
    BY <2>2 DEF OwnPlan
  <2>6. OwnPlan'
    <3> SUFFICES ASSUME NEW e \in deps'
                 PROVE  owner'[e[1]] = owner'[e[2]] /\ owner'[e[1]] # "none"
      BY DEF OwnPlan
    <3>1. CASE e \in deps
      BY <2>3, <2>5, <3>1 DEF OwnPlan
    <3>2. CASE e \in CopiedEdges(p, to)
      <4>1. PICK d \in EdgesOf(p) : e = <<to[d[1]], to[d[2]]>>
        BY <3>2 DEF CopiedEdges
      <4>2. e[1] = to[d[1]] /\ e[2] = to[d[2]]
        BY <4>1
      <4> QED BY <2>2, <2>3, <2>4, <4>2
    <3> QED BY <2>1, <3>1, <3>2
  <2>7. ASSUME NEW S \in (SUBSET Steps) \ {{}} PROVE Minimal(S)'
    <3> DEFINE T == {t \in StepsOf(p) : to[t] \in S}
    <3>1. CASE T = {}
      <4>1. PICK m \in S : \A x \in S : <<m, x>> \notin deps
        BY DEF Minimal
      <4>2. ASSUME NEW x \in S, <<m, x>> \in CopiedEdges(p, to) PROVE FALSE
        <5>1. PICK d \in EdgesOf(p) : <<m, x>> = <<to[d[1]], to[d[2]]>>
          BY <4>2 DEF CopiedEdges
        <5>2. m = to[d[1]]
          BY <5>1
        <5> QED BY <2>4, <3>1, <5>2
      <4>3. \A x \in S : <<m, x>> \notin deps'
        BY <2>1, <4>1, <4>2
      <4> QED BY <4>3 DEF Minimal
    <3>2. CASE T # {}
      <4>1. T \in (SUBSET Steps) \ {{}}
        BY <3>2 DEF StepsOf
      <4>2. PICK m \in T : \A x \in T : <<m, x>> \notin deps
        BY <4>1 DEF Minimal
      <4>3. ASSUME NEW x \in S, <<to[m], x>> \in deps PROVE FALSE
        <5>1. owner[<<to[m], x>>[1]] # "none"
          BY <2>5, <4>3
        <5> QED BY <2>3, <4>2, <5>1
      <4>4. ASSUME NEW x \in S, <<to[m], x>> \in CopiedEdges(p, to) PROVE FALSE
        <5>1. PICK d \in EdgesOf(p) : <<to[m], x>> = <<to[d[1]], to[d[2]]>>
          BY <4>4 DEF CopiedEdges
        <5>2. to[m] = to[d[1]] /\ x = to[d[2]]
          BY <5>1
        <5>3. m = d[1] /\ d[2] \in T
          BY <2>3, <2>4, <4>2, <5>2
        <5>4. <<m, d[2]>> \in deps
          BY <2>4, <5>3 DEF EdgesOf
        <5> QED BY <4>2, <5>3, <5>4
      <4>5. to[m] \in S /\ \A x \in S : <<to[m], x>> \notin deps'
        BY <2>1, <4>2, <4>3, <4>4
      <4> QED BY <4>5 DEF Minimal
    <3> QED BY <3>1, <3>2
  <2> QED BY <2>6, <2>7
<1> QED BY <1>2, <1>3

LEMMA AcyclicStep ==
    ASSUME TypeOK, Acyclic, [Next]_vars
    PROVE  Acyclic'
<1>a. OwnPlan /\ \A S \in (SUBSET Steps) \ {{}} : Minimal(S)
  BY AcyclicParts
<1>1. OwnPlan' /\ \A S \in (SUBSET Steps) \ {{}} : Minimal(S)'
  <2>1. CASE UNCHANGED <<owner, deps>>
    BY <1>a, <2>1 DEF OwnPlan, Minimal
  <2> QED BY <1>a, <2>1, StoreStep, AddStepAcyclic, AddDependencyAcyclic, DuplicateAcyclic
<1> QED BY <1>1 DEF Acyclic, OwnPlan, Minimal

-----------------------------------------------------------------------------
(***************************************************************************)
(* What a run knows of its plan.                                           *)
(***************************************************************************)

\* Others may add steps, edges and plans to the store, and r keeps what it knows.
LEMMA RunKept ==
    ASSUME NEW r \in Runs, RunOK(r),
           stage'[r] = stage[r], plan'[r] = plan[r], known'[r] = known[r],
           edges'[r] = edges[r], state'[r] = state[r], late[r] \subseteq late'[r],
           stage[r] # "off" => status'[plan[r]] # "absent",
           stage[r] # "off" => StepsOf(plan[r]) \subseteq StepsOf(plan[r])',
           stage[r] \in {"steps", "working"} =>
               StepsOf(plan[r])' \subseteq StepsOf(plan[r]) \cup late'[r],
           EdgesOf(plan[r]) \subseteq EdgesOf(plan[r])',
           \A s \in known[r] : state[r][s] = "Merged" /\ Kept(r, s) => Kept(r, s)'
    PROVE  RunOK(r)'
  BY DEF RunOK

\* A run that is not on its way knows nothing.
LEMMA Forgotten ==
    ASSUME NEW r \in Runs, stage'[r] = "ended", plan'[r] = plan[r], plan[r] # "none",
           known'[r] = {}, edges'[r] = {}, \A s \in Steps : state'[r][s] = "Pending",
           status'[plan[r]] # "absent"
    PROVE  RunOK(r)'
  BY DEF RunOK

\* The database of a store that others write: what a run may rely on.
LEMMA StoreGrows ==
    ASSUME TypeOK, OwnPlan, RunsOK, NEW r \in Runs,
           \/ \E p \in Plans : CreatePlan(p)
           \/ \E p \in Plans, s \in Steps, on \in SUBSET Steps : AddStep(p, s, on)
           \/ \E p \in Plans, f, t \in Steps : AddDependency(p, f, t)
           \/ \E c \in Commands, p, slug \in Plans : FindSlug(c, p, slug)
           \/ \E c \in Commands : Duplicate(c)
    PROVE  RunOK(r)'
<1>a. /\ status \in [Plans -> {"absent", "pending", "in_progress", "done"}]
      /\ owner \in [Steps -> Plans \cup {"none"}]
      /\ deps \subseteq Steps \X Steps
      /\ stage \in [Runs -> Stages]
      /\ plan \in [Runs -> Plans \cup {"none"}]
      /\ known \in [Runs -> SUBSET Steps] /\ late \in [Runs -> SUBSET Steps]
      /\ "none" \notin Plans
  BY PlanStoreAssumption DEF TypeOK
<1>b. RunOK(r) /\ (stage[r] # "off" => plan[r] \in Plans /\ status[plan[r]] # "absent")
  BY <1>a DEF RunsOK, RunOK
\* The run keeps its place; plans, steps and edges come and none goes.
<1>c. ASSUME UNCHANGED <<stepStatus, stage, plan, reads>>,
             \A p \in Plans : status[p] # "absent" => status'[p] # "absent",
             \A s \in Steps : owner[s] # "none" => owner'[s] = owner[s],
             \A s \in Steps : owner'[s] = plan[r] /\ stage[r] \in {"steps", "working"} =>
                 owner[s] = plan[r] \/ s \in late'[r],
             deps \subseteq deps', late[r] \subseteq late'[r]
      PROVE  RunOK(r)'
  <2>1. stage[r] # "off" =>
            status'[plan[r]] # "absent" /\ StepsOf(plan[r]) \subseteq StepsOf(plan[r])'
    BY <1>a, <1>b, <1>c DEF StepsOf
  <2>2. stage[r] \in {"steps", "working"} =>
            StepsOf(plan[r])' \subseteq StepsOf(plan[r]) \cup late'[r]
    BY <1>c DEF StepsOf
  <2>3. EdgesOf(plan[r]) \subseteq EdgesOf(plan[r])'
    BY <1>a, <1>c DEF EdgesOf, OwnPlan
  <2>4. \A s \in known[r] : Kept(r, s) => Kept(r, s)'
    BY <1>c DEF Kept
  <2> QED BY <1>b, <1>c, <2>1, <2>2, <2>3, <2>4, RunKept DEF reads
<1>1. ASSUME NEW p \in Plans, CreatePlan(p) PROVE RunOK(r)'
  <2>1. /\ status' = [status EXCEPT ![p] = "pending"]
        /\ UNCHANGED <<owner, stepStatus, deps, copy, stage, plan, reads, late>>
    BY <1>1 DEF CreatePlan
  <2>2. \A q \in Plans : status[q] # "absent" => status'[q] # "absent"
    BY <1>a, <2>1
  <2> QED BY <1>c, <2>1, <2>2
<1>2. ASSUME NEW p \in Plans, NEW s \in Steps, NEW on \in SUBSET Steps, AddStep(p, s, on)
      PROVE  RunOK(r)'
  <2>1. /\ owner[s] = "none" /\ owner' = [owner EXCEPT ![s] = p]
        /\ deps' = deps \cup ({s} \X on)
        /\ late' = [q \in Runs |-> IF plan[q] = p /\ stage[q] \in Reading
                                   THEN late[q] \cup {s} ELSE late[q]]
        /\ UNCHANGED <<status, stepStatus, copy, stage, plan, reads>>
    BY <1>2 DEF AddStep, Arrive
  <2>2. owner'[s] = p /\ \A t \in Steps \ {s} : owner'[t] = owner[t]
    BY <1>a, <2>1
  <2>3. /\ late[r] \subseteq late'[r]
        /\ plan[r] = p /\ stage[r] \in {"steps", "working"} => s \in late'[r]
    BY <2>1 DEF Reading
  <2>4. /\ \A t \in Steps : owner[t] # "none" => owner'[t] = owner[t]
        /\ \A t \in Steps : owner'[t] = plan[r] /\ stage[r] \in {"steps", "working"} =>
               owner[t] = plan[r] \/ t \in late'[r]
    BY <2>1, <2>2, <2>3
  <2>5. deps \subseteq deps' /\ \A q \in Plans : status[q] # "absent" => status'[q] # "absent"
    BY <2>1
  <2> QED BY <1>c, <2>1, <2>3, <2>4, <2>5
<1>3. ASSUME NEW p \in Plans, NEW f \in Steps, NEW t \in Steps, AddDependency(p, f, t)
      PROVE  RunOK(r)'
  BY <1>3, <1>c DEF AddDependency
<1>4. ASSUME NEW c \in Commands, NEW p \in Plans, NEW slug \in Plans, FindSlug(c, p, slug)
      PROVE  RunOK(r)'
  BY <1>4, <1>c DEF FindSlug, rows
<1>5. ASSUME NEW c \in Commands, Duplicate(c) PROVE RunOK(r)'
  <2>1. PICK p \in Plans, slug \in Plans : copy[c] = [source |-> p, slug |-> slug]
    BY <1>5 DEF Duplicate, TypeOK
  <2>2. UNCHANGED <<stage, plan, reads, late>>
    BY <1>5 DEF Duplicate
  <2>3. CASE status[slug] # "absent"
    <3>1. UNCHANGED rows
      BY <1>5, <2>1, <2>3 DEF Duplicate
    <3> QED BY <1>c, <2>2, <3>1 DEF rows
  <2>4. CASE status[slug] = "absent"
    <3>1. PICK to \in [StepsOf(p) -> Steps] :
            /\ Copies(p, to)
            /\ status' = [status EXCEPT ![slug] = "pending"]
            /\ owner' = [s \in Steps |->
                           IF \E t \in StepsOf(p) : to[t] = s THEN slug ELSE owner[s]]
            /\ deps' = deps \cup CopiedEdges(p, to)
            /\ UNCHANGED stepStatus
      BY <1>5, <2>1, <2>4 DEF Duplicate
    <3>2. \A s \in Steps : owner'[s] = owner[s] \/ (owner[s] = "none" /\ owner'[s] = slug)
      BY <3>1 DEF Copies
    <3>3. stage[r] # "off" => plan[r] # slug
      BY <1>b, <2>4
    <3>4. \A q \in Plans : status[q] # "absent" => status'[q] # "absent"
      BY <1>a, <3>1
    <3>5. /\ \A s \in Steps : owner[s] # "none" => owner'[s] = owner[s]
          /\ \A s \in Steps : owner'[s] = plan[r] /\ stage[r] \in {"steps", "working"} =>
                 owner[s] = plan[r] \/ s \in late'[r]
      BY <3>2, <3>3
    <3> QED BY <1>c, <2>2, <3>1, <3>4, <3>5
  <2> QED BY <2>3, <2>4
<1> QED BY <1>1, <1>2, <1>3, <1>4, <1>5

\* Run x takes a step: what that is to x, and to another run r.
LEMMA RunMoves ==
    ASSUME TypeOK, OwnPlan, RunsOK, NEW x \in Runs,
           RunStep(x) \/ Die(x) \/ (\E p \in Plans : FindSlot(x, p)),
           NEW r \in Runs
    PROVE  RunOK(r)'
<1>a. /\ status \in [Plans -> {"absent", "pending", "in_progress", "done"}]
      /\ owner \in [Steps -> Plans \cup {"none"}]
      /\ stepStatus \in [Steps -> {"open", "done"}]
      /\ stage \in [Runs -> Stages]
      /\ plan \in [Runs -> Plans \cup {"none"}]
      /\ known \in [Runs -> SUBSET Steps] /\ late \in [Runs -> SUBSET Steps]
      /\ edges \in [Runs -> SUBSET (Steps \X Steps)]
      /\ state \in [Runs -> [Steps -> {"Pending", "Running", "Merged", "Stopped"}]]
      /\ "none" \notin Plans
  BY PlanStoreAssumption DEF TypeOK
<1>b. \A q \in Runs : RunOK(q) /\ (stage[q] # "off" => plan[q] \in Plans)
  BY <1>a DEF RunsOK, RunOK
<1>c. UNCHANGED <<owner, deps>>
  BY DEF RunStep, Reads, FindSlot, Claim, ReadRows, ReadSteps, ReadEdges, Begin, End,
         Settle, Die, rows
\* The others keep what they know, unless x opens a step of their plan again.
<1>d. ASSUME r # x,
             UNCHANGED <<stage[r], plan[r], known[r], edges[r], state[r], late[r]>>,
             \A p \in Plans : status[p] # "absent" => status'[p] # "absent",
             \A s \in known[r] : Kept(r, s) => Kept(r, s)'
      PROVE  RunOK(r)'
  <2>1. stage[r] # "off" =>
            status'[plan[r]] # "absent" /\ StepsOf(plan[r]) \subseteq StepsOf(plan[r])'
    BY <1>b, <1>c, <1>d DEF StepsOf, RunOK
  <2>2. /\ StepsOf(plan[r])' \subseteq StepsOf(plan[r])
        /\ EdgesOf(plan[r]) \subseteq EdgesOf(plan[r])'
    BY <1>c, <1>d DEF StepsOf, EdgesOf
  <2> QED BY <1>b, <1>d, <2>1, <2>2, RunKept
<1>e. ASSUME plan' = plan, stepStatus' = stepStatus
      PROVE  \A s \in known[r] : Kept(r, s) => Kept(r, s)'
  BY <1>e DEF Kept
<1> USE DEF rows, reads
<1>1. ASSUME NEW p \in Plans, FindSlot(x, p) PROVE RunOK(r)'
  <2>1. /\ stage[x] = "off" /\ status[p] # "absent"
        /\ stage' = [stage EXCEPT ![x] = "free"] /\ plan' = [plan EXCEPT ![x] = p]
        /\ UNCHANGED <<rows, copy, reads, late>>
    BY <1>1 DEF FindSlot
  <2>2. plan[x] = "none" /\ \A q \in Runs \ {x} : plan'[q] = plan[q] /\ stage'[q] = stage[q]
    BY <1>a, <1>b, <2>1 DEF RunOK
  <2>3. CASE r # x
    <3>1. \A s \in known[r] : plan[r] # "none"
      BY <1>b DEF RunOK
    <3>2. \A s \in known[r] : Kept(r, s) => Kept(r, s)'
      BY <2>1, <2>2, <2>3, <3>1 DEF Kept
    <3> QED BY <1>d, <2>1, <2>2, <2>3, <3>2
  <2>4. CASE r = x
    <3>1. stage'[r] = "free" /\ plan'[r] = p
      BY <1>a, <2>1, <2>4
    <3>2. known[r] = {} /\ \A s \in Steps : state[r][s] = "Pending"
      BY <1>b, <2>1, <2>4 DEF RunOK
    <3>3. edges[r] = {}
      BY <1>b, <2>2, <2>4 DEF RunOK, EdgesOf, OwnPlan
    <3> QED BY <1>a, <2>1, <3>1, <3>2, <3>3 DEF RunOK
  <2> QED BY <2>3, <2>4
<1>2. CASE Claim(x)
  <2>1. /\ stage[x] = "free" /\ stage' = [stage EXCEPT ![x] = "claimed"]
        /\ status' = [status EXCEPT ![plan[x]] = "in_progress"]
        /\ UNCHANGED <<owner, stepStatus, deps, copy, plan, reads, late>>
    BY <1>2 DEF Claim
  <2>2. \A p \in Plans : status[p] # "absent" => status'[p] # "absent"
    BY <1>a, <2>1
  <2>3. CASE r # x
    <3>1. stage'[r] = stage[r]
      BY <1>a, <2>1, <2>3
    <3> QED BY <1>d, <1>e, <2>1, <2>2, <2>3, <3>1
  <2>4. CASE r = x
    <3>1. stage'[r] = "claimed" /\ plan'[r] = plan[r] /\ status'[plan[r]] # "absent"
      BY <1>a, <1>b, <2>1, <2>2, <2>4 DEF RunOK
    <3>2. EdgesOf(plan[r]) \subseteq EdgesOf(plan[r])'
      BY <2>1 DEF EdgesOf
    <3> QED BY <1>b, <2>1, <2>4, <3>1, <3>2 DEF RunOK
  <2> QED BY <2>3, <2>4
<1>3. CASE Reads(x)
  <2>1. /\ \E from \in {<<"claimed", "rows">>, <<"rows", "steps">>, <<"steps", "working">>} :
               stage[x] = from[1] /\ stage' = [stage EXCEPT ![x] = from[2]]
        /\ known' = known \/ known' = [known EXCEPT ![x] = StepsOf(plan[x])]
        /\ edges' = edges \/ edges' = [edges EXCEPT ![x] = EdgesOf(plan[x])]
        /\ UNCHANGED <<rows, copy, plan, state, late>>
    BY <1>3 DEF Reads, ReadRows, ReadSteps, ReadEdges, Advance
  <2>2. CASE r # x
    <3>1. stage'[r] = stage[r] /\ known'[r] = known[r] /\ edges'[r] = edges[r]
      BY <1>a, <2>1, <2>2
    <3> QED BY <1>d, <1>e, <2>1, <2>2, <3>1
  <2>3. CASE r = x
    <3>a. /\ stage[r] # "off" /\ stage[r] # "working" /\ RunOK(r)
          /\ stage'[r] \in {"rows", "steps", "working"}
      BY <1>a, <1>b, <2>1, <2>3
    <3>b. /\ plan'[r] = plan[r] /\ status'[plan[r]] # "absent"
          /\ StepsOf(plan[r])' = StepsOf(plan[r]) /\ EdgesOf(plan[r])' = EdgesOf(plan[r])
          /\ \A s \in Steps : state'[r][s] = "Pending"
      BY <2>1, <3>a DEF RunOK, StepsOf, EdgesOf
    <3>1. CASE ReadRows(x)
      <4>1. stage[r] = "claimed" /\ stage'[r] = "rows" /\ UNCHANGED <<known, edges>>
        BY <1>a, <2>3, <3>1 DEF ReadRows, Advance
      <4> QED BY <3>a, <3>b, <4>1 DEF RunOK
    <3>2. CASE ReadSteps(x)
      <4>1. /\ stage[r] = "rows" /\ stage'[r] = "steps" /\ edges' = edges
            /\ known'[r] = StepsOf(plan[r])
        <5>1. StepsOf(plan[r]) \in SUBSET Steps
          BY DEF StepsOf
        <5> QED BY <1>a, <2>3, <3>2, <5>1 DEF ReadSteps, Advance
      <4>2. \A s \in known'[r] : s \in Steps
        BY <4>1 DEF StepsOf
      <4> QED BY <3>a, <3>b, <4>1, <4>2 DEF RunOK
    <3>3. CASE ReadEdges(x)
      <4>1. /\ stage[r] = "steps" /\ stage'[r] = "working" /\ known' = known
            /\ edges'[r] = EdgesOf(plan[r])
        BY <1>a, <2>3, <3>3 DEF ReadEdges, Advance
      <4>2. late' = late /\ \A s \in known'[r] : s \in Steps
        BY <1>a, <2>1, <4>1
      <4> QED BY <3>a, <3>b, <4>1, <4>2 DEF RunOK
    <3> QED BY <1>3, <3>1, <3>2, <3>3 DEF Reads
  <2> QED BY <2>2, <2>3
<1>4. ASSUME NEW s \in Steps, Begin(x, s) \/ (\E o \in {"Merged", "Stopped"} : End(x, s, o))
      PROVE  RunOK(r)'
  <2>1. PICK at \in {"Running", "Merged", "Stopped"} :
          /\ stage[x] = "working" /\ s \in known[x]
          /\ state' = [state EXCEPT ![x][s] = at]
          /\ stepStatus' = [stepStatus EXCEPT ![s] = IF at = "Merged" THEN "done" ELSE "open"]
          /\ UNCHANGED <<status, owner, deps, copy, stage, plan, known, edges, late>>
    BY <1>4 DEF Begin, End, Eligible
  <2>2. owner[s] = plan[x]
    BY <1>b, <2>1 DEF RunOK, StepsOf
  <2>3. \A t \in Steps \ {s} : stepStatus'[t] = stepStatus[t]
    BY <1>a, <2>1
  <2>4. CASE r # x
    <3>1. state'[r] = state[r]
      BY <1>a, <2>1, <2>4
    <3>2. ASSUME NEW t \in known[r], Kept(r, t) PROVE Kept(r, t)'
      <4>1. CASE t = s
        <5>1. owner[s] = plan[r]
          BY <1>b, <3>2, <4>1 DEF RunOK, StepsOf
        <5> QED BY <2>1, <2>2, <2>4, <5>1 DEF Kept
      <4>2. CASE t # s
        <5>1. t \in Steps
          BY <1>a
        <5> QED BY <2>1, <2>3, <3>2, <4>2, <5>1 DEF Kept
      <4> QED BY <4>1, <4>2
    <3> QED BY <1>d, <2>1, <2>4, <3>1, <3>2
  <2>5. CASE r = x
    <3>1. /\ state'[r][s] = at /\ \A t \in Steps \ {s} : state'[r][t] = state[r][t]
          /\ stepStatus'[s] = IF at = "Merged" THEN "done" ELSE "open"
      BY <1>a, <2>1, <2>5
    <3>2. ASSUME NEW t \in known[r], state'[r][t] = "Merged" PROVE Kept(r, t)'
      <4>1. CASE t = s
        BY <3>1, <3>2, <4>1 DEF Kept
      <4>2. CASE t # s
        <5>1. t \in Steps
          BY <1>a
        <5>2. Kept(r, t)
          BY <1>b, <3>1, <3>2, <4>2, <5>1 DEF RunOK
        <5> QED BY <2>1, <2>3, <4>2, <5>1, <5>2 DEF Kept
      <4> QED BY <4>1, <4>2
    <3>3. /\ StepsOf(plan[r])' = StepsOf(plan[r]) /\ EdgesOf(plan[r])' = EdgesOf(plan[r])
      BY <2>1 DEF StepsOf, EdgesOf
    <3> QED BY <1>b, <2>1, <2>5, <3>2, <3>3 DEF RunOK
  <2> QED BY <2>4, <2>5
<1>5. ASSUME Forgets(x), stage[x] # "off", stage' = [stage EXCEPT ![x] = "ended"],
             UNCHANGED <<owner, stepStatus, deps, plan>>,
             \A p \in Plans : status[p] # "absent" => status'[p] # "absent"
      PROVE  RunOK(r)'
  <2>1. CASE r # x
    <3>1. UNCHANGED <<stage[r], plan[r], known[r], edges[r], state[r], late[r]>>
      BY <1>a, <1>5, <2>1 DEF Forgets
    <3> QED BY <1>d, <1>e, <1>5, <2>1, <3>1
  <2>2. CASE r = x
    <3>1. /\ stage'[r] = "ended" /\ known'[r] = {} /\ edges'[r] = {}
          /\ \A s \in Steps : state'[r][s] = "Pending"
      BY <1>a, <1>5, <2>2 DEF Forgets
    <3>2. plan'[r] = plan[r] /\ plan[r] # "none" /\ status'[plan[r]] # "absent"
      BY <1>a, <1>b, <1>5, <2>2 DEF RunOK
    <3> QED BY <3>1, <3>2, Forgotten
  <2> QED BY <2>1, <2>2
<1>6. ASSUME NEW green \in BOOLEAN, Settle(x, green) PROVE RunOK(r)'
  <2>1. \A p \in Plans : status[p] # "absent" => status'[p] # "absent"
    BY <1>a, <1>6 DEF Settle
  <2> QED BY <1>5, <1>6, <2>1 DEF Settle
<1>7. CASE Die(x)
  BY <1>5, <1>7 DEF Die
<1> QED BY <1>1, <1>2, <1>3, <1>4, <1>6, <1>7 DEF RunStep

LEMMA RunsStep ==
    ASSUME TypeOK, Acyclic, RunsOK, [Next]_vars
    PROVE  RunsOK'
<1>a. OwnPlan
  BY AcyclicParts
<1> SUFFICES ASSUME NEW r \in Runs PROVE RunOK(r)'
  BY DEF RunsOK
<1>1. CASE UNCHANGED vars
  BY <1>1 DEF RunsOK, RunOK, Kept, StepsOf, EdgesOf, vars, rows, reads
<1>2. CASE Next
  BY <1>a, <1>2, StoreGrows, RunMoves DEF Next
<1> QED BY <1>1, <1>2

-----------------------------------------------------------------------------
(***************************************************************************)
(* The invariant and what follows from it.                                 *)
(***************************************************************************)
LEMMA InitIInv == Init => IInv
<1> SUFFICES ASSUME Init PROVE IInv
  OBVIOUS
<1>1. TypeOK
  BY DEF Init, TypeOK, Stages
<1>2. Acyclic
  BY DEF Init, Acyclic
<1>3. RunsOK
  BY DEF Init, RunsOK, RunOK
<1> QED BY <1>1, <1>2, <1>3 DEF IInv

LEMMA NextIInv == IInv /\ [Next]_vars => IInv'
  BY AcyclicParts, TypeStep, AcyclicStep, RunsStep DEF IInv

\* The inductive invariant of the store and of the runs that read it.
THEOREM Invariance == Spec => []IInv
<1> QED BY InitIInv, NextIInv, PTL DEF Spec

\* Every variable keeps its type.
THEOREM TypeCorrect == Spec => []TypeOK
<1>1. IInv => TypeOK
  BY DEF IInv
<1> QED BY <1>1, Invariance, PTL

\* "Steps + edges form a DAG" (0014_plans.sql): no edge leaves its plan, and among
\* any steps one depends on none of the others.
THEOREM StaysAcyclic == Spec => []Acyclic
<1>1. IInv => Acyclic
  BY DEF IInv
<1> QED BY <1>1, Invariance, PTL

\* A run with nothing to do (scheduler.rs) has merged all it knows, or a step was
\* stopped, or one waits for a step that was created while the run was reading.
LEMMA NoneEligible ==
    ASSUME IInv, NEW r \in Runs, stage[r] = "working", ~ Busy(r), Eligible(r) = {}
    PROVE  \/ AllMerged(r)
           \/ \E s \in known[r] : state[r][s] = "Stopped"
           \/ \E e \in edges[r] : e[1] \in known[r] /\ e[2] \in late[r]
<1>a. /\ RunOK(r) /\ OwnPlan /\ known[r] \subseteq Steps
      /\ \A S \in (SUBSET Steps) \ {{}} : Minimal(S)
      /\ state[r] \in [Steps -> {"Pending", "Running", "Merged", "Stopped"}]
      /\ edges[r] \subseteq Steps \X Steps
  BY AcyclicParts DEF IInv, RunsOK, TypeOK
<1> DEFINE T == {s \in known[r] : state[r][s] = "Pending"}
<1>1. CASE T = {}
  <2>1. \A s \in known[r] : state[r][s] \in {"Merged", "Stopped"}
    BY <1>a, <1>1 DEF Busy
  <2> QED BY <2>1 DEF AllMerged
<1>2. CASE T # {}
  <2>1. T \in (SUBSET Steps) \ {{}}
    BY <1>a, <1>2
  <2>2. PICK s \in T : \A t \in T : <<s, t>> \notin deps
    BY <1>a, <2>1 DEF Minimal
  <2>3. PICK e \in edges[r] : e[1] = s /\ ~ (e[2] \in known[r] /\ state[r][e[2]] = "Merged")
    BY <2>2 DEF Eligible
  <2>4. e \in deps /\ e = <<e[1], e[2]>> /\ owner[e[1]] = plan[r] /\ e[2] \in Steps
    BY <1>a DEF RunOK, EdgesOf
  <2>5. owner[e[2]] = plan[r]
    BY <1>a, <2>4 DEF OwnPlan
  <2>6. CASE e[2] \in known[r]
    <3>1. e[2] \notin T
      BY <2>2, <2>3, <2>4
    <3>2. state[r][e[2]] = "Stopped"
      BY <1>a, <2>3, <2>6, <3>1 DEF Busy
    <3> QED BY <2>6, <3>2
  <2>7. CASE e[2] \notin known[r]
    <3>1. e[2] \in late[r]
      BY <1>a, <2>4, <2>5, <2>7 DEF RunOK, StepsOf
    <3> QED BY <2>2, <2>3, <3>1
  <2> QED BY <2>6, <2>7
<1> QED BY <1>1, <1>2

THEOREM StallsExplained == Spec => []StallsForAReason
<1>1. ASSUME IInv PROVE StallsForAReason
  BY <1>1, NoneEligible DEF StallsForAReason
<1>2. IInv => StallsForAReason
  BY <1>1
<1> QED BY <1>2, Invariance, PTL

\* When a run marks its plan done, every step of it is done (exec/mod.rs), save those
\* created after the run read the packets, unless two processes took the plan.
THEOREM DoneIsDone == Spec => DoneMeansDone
<1> DEFINE Done ==
      \A r \in Runs : stage[r] = "working" /\ stage'[r] = "ended"
                      /\ status[plan[r]] # status'[plan[r]] =>
         \A s \in StepsOf(plan[r]) \ late[r] :
             \/ stepStatus[s] = "done"
             \/ \E q \in Runs \ {r} : plan[q] = plan[r]
<1>1. ASSUME IInv, Next PROVE Done
  <2> SUFFICES ASSUME NEW r \in Runs, stage[r] = "working", stage'[r] = "ended",
                      status[plan[r]] # status'[plan[r]],
                      NEW s \in StepsOf(plan[r]) \ late[r]
               PROVE  Kept(r, s)
    BY DEF Kept
  <2>a. stage \in [Runs -> Stages] /\ RunOK(r)
    BY <1>1 DEF IInv, TypeOK, RunsOK
  <2>1. \E green \in BOOLEAN : Settle(r, green)
    <3>1. \A x \in Runs : Die(x) => status' = status
      BY DEF Die, rows
    <3>2. ~ (\E x \in Runs : Claim(x) \/ Reads(x) \/ (\E p \in Plans : FindSlot(x, p)))
      BY <2>a DEF Claim, Reads, ReadRows, ReadSteps, ReadEdges, Advance, FindSlot, Stages
    <3>3. \A x \in Runs, green \in BOOLEAN : Settle(x, green) => x = r
      BY <2>a DEF Settle
    <3>4. stage' # stage
      OBVIOUS
    <3> QED BY <1>1, <3>1, <3>2, <3>3, <3>4
            DEF Next, RunStep, CreatePlan, AddStep, AddDependency, FindSlug, Duplicate,
                Begin, End
  <2>2. AllMerged(r)
    BY <2>1 DEF Settle
  <2>3. s \in known[r]
    BY <2>a DEF RunOK
  <2> QED BY <2>a, <2>2, <2>3 DEF AllMerged, RunOK
<1>2. IInv /\ [Next]_vars => [Done]_vars
  BY <1>1
<1>3. DoneMeansDone <=> [][Done]_vars
  BY DEF DoneMeansDone
<1> QED BY <1>2, <1>3, Invariance, PTL DEF Spec
-----------------------------------------------------------------------------
(***************************************************************************)
(* A reader of another kind: the terminal client, which follows a session  *)
(* that others change.  For any sessions, capacities, runners and messages.*)
(*                                                                         *)
(* A message that was not taken back is in one place of its way from the   *)
(* composer to an agent, TransportOK.  What a runner took is among the user*)
(* turns or in the queue of the view that holds the runner, and what was   *)
(* heard is a turn or a round announces it, ToldOK.  The last event under  *)
(* way tells what its driver does, LastOK; where none is under way, the    *)
(* view itself does, QuietOK.                                              *)
(***************************************************************************)
Views == [runner : 0..MaxRunners, busy : BOOLEAN, queue : Seq(Messages),
          shown : Seq(Messages), persisted : BOOLEAN]
Links == [session : Sessions \cup {NoSession}, outbox : Seq(Messages),
          request : 0..MaxMessages, up : BOOLEAN,
          bus : Seq(Events), events : Seq(Events)]

ViewTyped ==
    /\ view \in Views /\ saved \in Views
    /\ composer \in 0..MaxMessages /\ written \in 0..MaxMessages
    /\ link \in [Runners -> Links]
    /\ input \in [Sessions -> Seq(Messages)] /\ batch \in [Sessions -> Seq(Messages)]
    /\ heard \in [Sessions -> Seq(Messages)]
    /\ driver \in [Sessions -> {"idle", "screening", "working", "dead"}]
    /\ via \in [Messages -> 0..MaxRunners]
    /\ dropped \subseteq Messages /\ recalled \subseteq Messages
    /\ lagged \subseteq Runners /\ sure \in BOOLEAN

\* A runner that was never used has no session and carries nothing, a session that was
\* never attached to is as it began, and a driver has a batch only while it screens.
AttachedOK ==
    /\ \A r \in Runners : link[r].session = NoSession => link[r] = Unused
    /\ view.runner # 0 => link[view.runner].session # NoSession
    /\ saved.runner # 0 => /\ link[saved.runner].session # NoSession
                           /\ view.runner # 0 /\ view.runner # saved.runner
    /\ \A m \in Messages : via[m] # 0 => m <= written /\ link[via[m]].session # NoSession
    /\ \A s \in Sessions \ Known :
          driver[s] = "idle" /\ input[s] = <<>> /\ batch[s] = <<>> /\ heard[s] = <<>>
    /\ \A s \in Sessions : batch[s] # <<>> => driver[s] = "screening"

\* No two entries of s are the same member of S.
Once(s, S) == \A i, j \in DOMAIN s : s[i] = s[j] /\ s[i] \in S => i = j

\* The turns S and the queue Q of a view hold a message once, and none that is not written.
ShownOnce(S, Q, n) ==
    /\ Once(S, Messages) /\ Once(Q, Messages)
    /\ Range(S) \cap Range(Q) = {}
    /\ Range(S) \cup Range(Q) \subseteq 1..n

ShownOK ==
    /\ ShownOnce(view.shown, view.queue, written)
    /\ ShownOnce(saved.shown, saved.queue, written)
    /\ composer # 0 => /\ composer \in recalled /\ composer <= written
                       /\ composer \notin Range(view.shown) \cup Range(view.queue)

\* The places on the way of a message, and what they hold.
Places == ({"outbox", "request"} \X Runners) \cup ({"input", "batch", "heard"} \X Sessions)
Carried == [c \in Places |->
    CASE c[1] = "outbox"  -> link[c[2]].outbox
      [] c[1] = "request" -> IF link[c[2]].request = 0 THEN <<>> ELSE <<link[c[2]].request>>
      [] c[1] = "input"   -> input[c[2]]
      [] c[1] = "batch"   -> batch[c[2]]
      [] c[1] = "heard"   -> heard[c[2]]]

\* By A the places hold messages up to n, and the ones of F once and in one place.
Apart(A, F, n) ==
    /\ \A c \in Places : Once(A[c], F) /\ Range(A[c]) \subseteq 1..n
    /\ \A c, e \in Places : c # e => Range(A[c]) \cap Range(A[e]) \cap F = {}

Fixed == Messages \ recalled
TransportOK == Apart(Carried, Fixed, written)

\* What runner r took is in the turns S or queued in Q, and what its session was given is
\* among the turns, or a round under way makes it one.
Took(r) == {m \in Fixed : via[m] = r}
Announced(r) == r \in lagged \/ "thinking" \in Range(Pending(r))
ToldTo(r, S, Q) ==
    /\ Took(r) \subseteq S \cup Q
    /\ Announced(r) \/ Took(r) \cap Range(heard[link[r].session]) \subseteq S

Told(v) == v.runner # 0 => ToldTo(v.runner, Range(v.shown), Range(v.queue))
ToldOK == Told(view) /\ Told(saved)

\* The last event under way to runner r tells what the driver of its session does.
LastTells(r) ==
    Pending(r) # <<>> =>
       /\ Last(Pending(r)) # "idle" => driver[link[r].session] \in {"working", "dead"}
       /\ driver[link[r].session] = "working" => Last(Pending(r)) # "idle"

LastOK == \A r \in Held : LastTells(r)

\* A message of runner r is on its way through r and its session, or was dropped.
WayOf(r) ==
    dropped \cup {link[r].request} \cup Range(link[r].outbox)
      \cup Range(input[link[r].session]) \cup Range(batch[link[r].session])
Owed(r) == \E m \in Messages : via[m] = r /\ m \in WayOf(r)

\* With nothing under way to runner r, flag b tells what the driver of its session does.
QuietAt(r, b) ==
    sure /\ (r = 0 \/ Pending(r) = <<>>) =>
        /\ r # 0 /\ driver[link[r].session] = "working" => b
        /\ b => /\ r # 0
                /\ driver[link[r].session] \in {"working", "dead"} \/ Owed(r)

QuietOK == QuietAt(view.runner, view.busy)

ViewInv == ViewTyped /\ AttachedOK /\ ShownOK /\ TransportOK
SpanInv == ToldOK /\ LastOK /\ QuietOK

LEMMA Entries ==
    ASSUME NEW S, NEW s \in Seq(S)
    PROVE  /\ Len(s) \in Nat /\ DOMAIN s = 1..Len(s) /\ \A i \in 1..Len(s) : s[i] \in S
           /\ Range(s) \subseteq S /\ (s = <<>> <=> Range(s) = {})
           /\ s # <<>> => /\ Len(s) > 0 /\ Last(s) = s[Len(s)]
                          /\ Last(s) \in Range(s) /\ Head(s) = s[1]
<1>1. Len(s) \in Nat /\ DOMAIN s = 1..Len(s) /\ \A i \in 1..Len(s) : s[i] \in S
  BY LenProperties
<1>2. Range(s) = {s[i] : i \in 1..Len(s)}
  BY <1>1 DEF Range
<1>3. s # <<>> => Len(s) > 0
  BY <1>1, EmptySeq
<1>4. Range(s) \subseteq S
  BY <1>1, <1>2
<1>5. s = <<>> => Range(s) = {}
  BY DEF Range
<1>6. ASSUME s # <<>>
      PROVE  /\ Last(s) = s[Len(s)] /\ Last(s) \in Range(s) /\ Head(s) = s[1]
             /\ Range(s) # {}
  <2>1. Len(s) \in 1..Len(s)
    BY <1>1, <1>3, <1>6
  <2>2. Last(s) = s[Len(s)]
    BY DEF Last
  <2> QED BY <1>1, <1>2, <1>6, <2>1, <2>2
<1> QED BY <1>1, <1>3, <1>4, <1>5, <1>6

LEMMA Appended ==
    ASSUME NEW S, NEW s \in Seq(S), NEW e \in S
    PROVE  /\ Append(s, e) \in Seq(S) /\ Append(s, e) # <<>>
           /\ Last(Append(s, e)) = e
           /\ Range(Append(s, e)) = Range(s) \cup {e}
           /\ \A T : Once(s, T) /\ e \notin Range(s) \cap T => Once(Append(s, e), T)
<1>1. PICK t : t = Append(s, e)
  OBVIOUS
<1>2. /\ t \in Seq(S) /\ Len(t) = Len(s) + 1
      /\ \A i \in 1..Len(s) : t[i] = s[i]
      /\ t[Len(s) + 1] = e
  BY <1>1, AppendProperties
<1>3. /\ Len(s) \in Nat /\ DOMAIN s = 1..Len(s) /\ DOMAIN t = 1..Len(t)
  BY <1>2, LenProperties
<1>4. t # <<>>
  BY <1>2, <1>3
<1>5. Last(t) = e
  BY <1>2 DEF Last
<1>6. Range(t) = Range(s) \cup {e}
  <2>1. DOMAIN t = DOMAIN s \cup {Len(s) + 1}
    BY <1>2, <1>3
  <2> QED BY <1>2, <1>3, <2>1 DEF Range
<1>7. ASSUME NEW T, Once(s, T), e \notin Range(s) \cap T
      PROVE  Once(t, T)
  <2> SUFFICES ASSUME NEW i \in DOMAIN t, NEW j \in DOMAIN t, t[i] = t[j], t[i] \in T
               PROVE  i = j
    BY DEF Once
  <2>1. CASE i \in DOMAIN s /\ j \in DOMAIN s
    BY <1>2, <1>3, <1>7, <2>1 DEF Once
  <2>2. CASE i = Len(s) + 1 /\ j = Len(s) + 1
    BY <2>2
  <2>3. CASE i \in DOMAIN s /\ j = Len(s) + 1
    BY <1>2, <1>3, <1>7, <2>3 DEF Range
  <2>4. CASE j \in DOMAIN s /\ i = Len(s) + 1
    BY <1>2, <1>3, <1>7, <2>4 DEF Range
  <2>5. \A n \in DOMAIN t : n \in DOMAIN s \/ n = Len(s) + 1
    BY <1>2, <1>3
  <2> QED BY <2>1, <2>2, <2>3, <2>4, <2>5
<1> QED BY <1>1, <1>2, <1>4, <1>5, <1>6, <1>7

LEMMA Joined ==
    ASSUME NEW S, NEW s \in Seq(S), NEW t \in Seq(S)
    PROVE  /\ s \o t \in Seq(S)
           /\ Range(s \o t) = Range(s) \cup Range(t)
           /\ t # <<>> => Last(s \o t) = Last(t)
           /\ \A T : Once(s, T) /\ Once(t, T) /\ Range(s) \cap Range(t) \cap T = {}
                        => Once(s \o t, T)
<1>1. PICK u : u = s \o t
  OBVIOUS
<1>2. /\ u \in Seq(S) /\ Len(u) = Len(s) + Len(t)
      /\ \A i \in 1..(Len(s) + Len(t)) : u[i] = IF i <= Len(s) THEN s[i] ELSE t[i - Len(s)]
  BY <1>1, ConcatProperties
<1>3. /\ Len(s) \in Nat /\ Len(t) \in Nat /\ DOMAIN s = 1..Len(s) /\ DOMAIN t = 1..Len(t)
      /\ DOMAIN u = 1..Len(u)
  BY <1>2, LenProperties
<1>4. ASSUME NEW i \in DOMAIN u
      PROVE  \/ i \in DOMAIN s /\ u[i] = s[i]
             \/ i - Len(s) \in DOMAIN t /\ u[i] = t[i - Len(s)] /\ i \in Int
  BY <1>2, <1>3
<1>5. ASSUME NEW i \in DOMAIN s PROVE i \in DOMAIN u /\ u[i] = s[i]
  BY <1>2, <1>3
<1>6. ASSUME NEW i \in DOMAIN t PROVE Len(s) + i \in DOMAIN u /\ u[Len(s) + i] = t[i]
  BY <1>2, <1>3
<1>7. Range(u) = Range(s) \cup Range(t)
  <2>1. Range(u) \subseteq Range(s) \cup Range(t)
    BY <1>4 DEF Range
  <2>2. Range(s) \cup Range(t) \subseteq Range(u)
    BY <1>5, <1>6 DEF Range
  <2> QED BY <2>1, <2>2
<1>8. ASSUME t # <<>> PROVE Last(u) = Last(t)
  <2>1. Len(t) > 0 /\ Last(t) = t[Len(t)]
    BY <1>8, Entries
  <2>2. Len(t) \in DOMAIN t
    BY <1>3, <2>1
  <2>3. u[Len(s) + Len(t)] = t[Len(t)]
    BY <1>6, <2>2
  <2> QED BY <1>2, <2>1, <2>3 DEF Last
<1>9. ASSUME NEW T, Once(s, T), Once(t, T), Range(s) \cap Range(t) \cap T = {}
      PROVE  Once(u, T)
  <2> SUFFICES ASSUME NEW i \in DOMAIN u, NEW j \in DOMAIN u, u[i] = u[j], u[i] \in T
               PROVE  i = j
    BY DEF Once
  <2>1. CASE i \in DOMAIN s /\ u[i] = s[i]
    <3>1. CASE j \in DOMAIN s /\ u[j] = s[j]
      BY <1>9, <2>1, <3>1 DEF Once
    <3>2. CASE j - Len(s) \in DOMAIN t /\ u[j] = t[j - Len(s)]
      BY <1>9, <2>1, <3>2 DEF Range
    <3> QED BY <1>4, <3>1, <3>2
  <2>2. CASE i - Len(s) \in DOMAIN t /\ u[i] = t[i - Len(s)] /\ i \in Int
    <3>1. CASE j \in DOMAIN s /\ u[j] = s[j]
      BY <1>9, <2>2, <3>1 DEF Range
    <3>2. CASE j - Len(s) \in DOMAIN t /\ u[j] = t[j - Len(s)] /\ j \in Int
      <4>1. i - Len(s) = j - Len(s)
        BY <1>9, <2>2, <3>2 DEF Once
      <4> QED BY <1>3, <2>2, <3>2, <4>1
    <3> QED BY <1>4, <3>1, <3>2
  <2> QED BY <1>4, <2>1, <2>2
<1> QED BY <1>1, <1>2, <1>7, <1>8, <1>9

LEMMA Tailed ==
    ASSUME NEW S, NEW s \in Seq(S), s # <<>>
    PROVE  /\ Head(s) \in S /\ Tail(s) \in Seq(S)
           /\ Range(s) = Range(Tail(s)) \cup {Head(s)}
           /\ \A T : Once(s, T) => Once(Tail(s), T) /\ Head(s) \notin Range(Tail(s)) \cap T
           /\ s = <<Head(s)>> \o Tail(s)
<1>1. PICK t : t = Tail(s)
  OBVIOUS
<1>2. /\ Head(s) \in S /\ t \in Seq(S) /\ Len(t) = Len(s) - 1
      /\ \A i \in 1..Len(t) : t[i] = s[i + 1]
  BY <1>1, HeadTailProperties
<1>3. /\ Len(s) \in Nat /\ Len(s) > 0 /\ DOMAIN s = 1..Len(s) /\ DOMAIN t = 1..Len(t)
      /\ Head(s) = s[1] /\ Len(t) \in Nat
  BY <1>2, Entries
<1>4. ASSUME NEW i \in DOMAIN t PROVE i + 1 \in DOMAIN s /\ t[i] = s[i + 1] /\ i + 1 # 1
  BY <1>2, <1>3
<1>5. ASSUME NEW i \in DOMAIN s, i # 1 PROVE i - 1 \in DOMAIN t /\ t[i - 1] = s[i]
  BY <1>2, <1>3, <1>5
<1>6. Range(s) = Range(t) \cup {Head(s)}
  <2>1. Range(s) \subseteq Range(t) \cup {Head(s)}
    BY <1>3, <1>5 DEF Range
  <2>2. Range(t) \subseteq Range(s)
    BY <1>4 DEF Range
  <2>3. Head(s) \in Range(s)
    <3>1. 1 \in DOMAIN s
      BY <1>3
    <3> QED BY <1>3, <3>1 DEF Range
  <2> QED BY <2>1, <2>2, <2>3
<1>7. ASSUME NEW T, Once(s, T) PROVE Once(t, T) /\ Head(s) \notin Range(t) \cap T
  <2>1. ASSUME NEW i \in DOMAIN t, NEW j \in DOMAIN t, t[i] = t[j], t[i] \in T PROVE i = j
    <3>1. i + 1 = j + 1
      BY <1>4, <1>7, <2>1 DEF Once
    <3> QED BY <1>3, <3>1
  <2>2. ASSUME NEW i \in DOMAIN t, t[i] = Head(s), t[i] \in T PROVE FALSE
    <3>1. 1 \in DOMAIN s
      BY <1>3
    <3> QED BY <1>3, <1>4, <1>7, <2>2, <3>1 DEF Once
  <2> QED BY <2>1, <2>2 DEF Once, Range
<1>8. s = <<Head(s)>> \o t
  <2>1. PICK u : u = <<Head(s)>> \o t
    OBVIOUS
  <2>2. <<Head(s)>> \in Seq(S) /\ Len(<<Head(s)>>) = 1 /\ <<Head(s)>>[1] = Head(s)
    BY <1>2
  <2>3. /\ u \in Seq(S) /\ Len(u) = 1 + Len(t)
        /\ \A i \in 1..(1 + Len(t)) : u[i] = IF i <= 1 THEN <<Head(s)>>[i] ELSE t[i - 1]
    BY <1>2, <2>1, <2>2, ConcatProperties
  <2>4. Len(u) = Len(s)
    BY <1>2, <1>3, <2>3
  <2>5. \A i \in 1..Len(s) : u[i] = s[i]
    <3>1. ASSUME NEW i \in 1..Len(s) PROVE u[i] = s[i]
      <4>1. CASE i = 1
        BY <1>3, <2>2, <2>3, <4>1
      <4>2. CASE i # 1
        <5>1. t[i - 1] = s[i]
          BY <1>3, <1>5, <4>2
        <5>2. i \in 1..(1 + Len(t)) /\ ~ (i <= 1)
          BY <1>2, <1>3, <4>2
        <5> QED BY <2>3, <5>1, <5>2
      <4> QED BY <4>1, <4>2
    <3> QED BY <3>1
  <2> QED BY <2>1, <2>3, <2>4, <2>5, SeqEqual
<1> QED BY <1>1, <1>2, <1>6, <1>7, <1>8

LEMMA Fronted ==
    ASSUME NEW S, NEW s \in Seq(S), s # <<>>
    PROVE  /\ Last(s) \in S /\ Front(s) \in Seq(S)
           /\ Range(s) = Range(Front(s)) \cup {Last(s)}
           /\ \A T : Once(s, T) => /\ Once(Front(s), T)
                                   /\ Last(s) \notin Range(Front(s)) \cap T
<1>1. PICK t : t = Front(s)
  OBVIOUS
<1>3. /\ Len(s) \in Nat /\ Len(s) > 0 /\ DOMAIN s = 1..Len(s)
      /\ Last(s) = s[Len(s)] /\ \A i \in 1..Len(s) : s[i] \in S
  BY Entries
<1>2. /\ t \in Seq(S) /\ Len(t) = Len(s) - 1
      /\ \A i \in 1..(Len(s) - 1) : t[i] = s[i]
  <2>1. t = SubSeq(s, 1, Len(s) - 1)
    BY <1>1 DEF Front
  <2>2. \A i \in 1..(Len(s) - 1) : s[i] \in S
    BY <1>3
  <2>3. Len(s) - 1 \in Int /\ (IF 1 <= Len(s) - 1 THEN (Len(s) - 1) - 1 + 1 ELSE 0) = Len(s) - 1
        /\ (Len(s) - 1) - 1 + 1 = Len(s) - 1 /\ \A i \in 1..(Len(s) - 1) : 1 + i - 1 = i
    BY <1>3
  <2>4. /\ SubSeq(s, 1, Len(s) - 1) \in Seq(S)
        /\ Len(SubSeq(s, 1, Len(s) - 1)) = IF 1 <= Len(s) - 1 THEN (Len(s) - 1) - 1 + 1 ELSE 0
        /\ \A i \in 1..((Len(s) - 1) - 1 + 1) : SubSeq(s, 1, Len(s) - 1)[i] = s[1 + i - 1]
    BY <2>2, <2>3, SubSeqProperties
  <2> QED BY <2>1, <2>3, <2>4
<1>4. DOMAIN t = 1..(Len(s) - 1)
  BY <1>2, Entries
<1>5. ASSUME NEW i \in DOMAIN t PROVE i \in DOMAIN s /\ i # Len(s) /\ t[i] = s[i]
  BY <1>2, <1>3, <1>4
<1>6. ASSUME NEW i \in DOMAIN s, i # Len(s) PROVE i \in DOMAIN t
  BY <1>3, <1>4, <1>6
<1>7. Len(s) \in DOMAIN s
  BY <1>3
<1>8. Range(s) = Range(t) \cup {Last(s)}
  BY <1>3, <1>5, <1>6, <1>7 DEF Range
<1>9. ASSUME NEW T, Once(s, T) PROVE Once(t, T) /\ Last(s) \notin Range(t) \cap T
  <2>1. Once(t, T)
    BY <1>5, <1>9 DEF Once
  <2>2. ASSUME NEW i \in DOMAIN t, t[i] = Last(s), t[i] \in T PROVE FALSE
    BY <1>3, <1>5, <1>7, <1>9, <2>2 DEF Once
  <2> QED BY <2>1, <2>2 DEF Range
<1>10. Last(s) \in S
  BY <1>3, <1>7
<1> QED BY <1>1, <1>2, <1>8, <1>9, <1>10

-----------------------------------------------------------------------------
(* The places of a message. *)

LEMMA Shrinks ==
    ASSUME NEW A, NEW B, NEW F, NEW G \in SUBSET F, NEW n \in Nat, NEW k \in Nat, n <= k,
           Apart(A, F, n),
           \A c \in Places : B[c] = A[c] \/ B[c] = <<>>
    PROVE  Apart(B, G, k)
<1>1. ASSUME NEW c \in Places
      PROVE  /\ Once(B[c], G) /\ Range(B[c]) \subseteq Range(A[c])
             /\ Range(B[c]) \subseteq 1..k
  <2>1. Once(A[c], F) /\ Range(A[c]) \subseteq 1..n
    BY DEF Apart
  <2>2. 1..n \subseteq 1..k
    OBVIOUS
  <2>3. CASE B[c] = A[c]
    BY <2>1, <2>2, <2>3 DEF Once
  <2>4. CASE B[c] = <<>>
    <3>1. DOMAIN B[c] = {}
      BY <2>4
    <3> QED BY <3>1 DEF Once, Range
  <2> QED BY <2>3, <2>4
<1>2. ASSUME NEW c \in Places, NEW e \in Places, c # e
      PROVE  Range(B[c]) \cap Range(B[e]) \cap G = {}
  <2>1. Range(A[c]) \cap Range(A[e]) \cap F = {}
    BY <1>2 DEF Apart
  <2> QED BY <1>1, <2>1
<1> QED BY <1>1, <1>2 DEF Apart

\* What leaves place a enters place b.
LEMMA Moves ==
    ASSUME NEW A, NEW B, NEW F, NEW n \in Nat, NEW a \in Places, NEW b \in Places, a # b,
           NEW x \in Seq(Messages), A[b] \in Seq(Messages),
           Apart(A, F, n),
           Once(B[a], F), Range(B[a]) \subseteq Range(A[a]),
           Once(x, F), Range(x) \subseteq Range(A[a]),
           Range(x) \cap Range(B[a]) \cap F = {},
           B[b] = A[b] \o x,
           \A c \in Places \ {a, b} : B[c] = A[c] \/ B[c] = <<>>
    PROVE  Apart(B, F, n)
<1>1. \A c \in Places : Once(A[c], F) /\ Range(A[c]) \subseteq 1..n
  BY DEF Apart
<1>2. \A c, e \in Places : c # e => Range(A[c]) \cap Range(A[e]) \cap F = {}
  BY DEF Apart
<1>3. ASSUME NEW c \in Places \ {a, b}
      PROVE  Once(B[c], F) /\ Range(B[c]) \subseteq Range(A[c])
  <2>1. CASE B[c] = A[c]
    BY <1>1, <2>1
  <2>2. CASE B[c] = <<>>
    <3>1. DOMAIN B[c] = {}
      BY <2>2
    <3> QED BY <3>1 DEF Once, Range
  <2> QED BY <1>3, <2>1, <2>2
<1>4. Range(B[b]) = Range(A[b]) \cup Range(x) /\ Once(B[b], F)
  <2>1. Range(A[b]) \cap Range(x) \cap F = {}
    BY <1>2
  <2> QED BY <1>1, <2>1, Joined
<1>5. ASSUME NEW c \in Places PROVE Once(B[c], F) /\ Range(B[c]) \subseteq 1..n
  <2>1. CASE c = a
    BY <1>1, <2>1
  <2>2. CASE c = b
    BY <1>1, <1>4, <2>2
  <2>3. CASE c \in Places \ {a, b}
    BY <1>1, <1>3, <2>3
  <2> QED BY <2>1, <2>2, <2>3
<1>6. ASSUME NEW c \in Places, NEW e \in Places, c # e, c # b
      PROVE  Range(B[c]) \cap Range(B[e]) \cap F = {}
  <2>1. Range(B[c]) \subseteq Range(A[c])
    BY <1>3, <1>6
  <2>2. CASE e # b
    <3>1. Range(B[e]) \subseteq Range(A[e])
      BY <1>3, <2>2
    <3> QED BY <1>2, <1>6, <2>1, <3>1
  <2>3. CASE e = b
    <3>1. Range(A[c]) \cap Range(A[b]) \cap F = {}
      BY <1>2, <1>6
    <3>2. CASE c = a
      BY <1>4, <2>1, <2>3, <3>1, <3>2
    <3>3. CASE c # a
      <4>1. Range(A[c]) \cap Range(A[a]) \cap F = {}
        BY <1>2, <3>3
      <4> QED BY <1>4, <2>1, <2>3, <3>1, <4>1
    <3> QED BY <3>2, <3>3
  <2> QED BY <2>2, <2>3
<1>7. ASSUME NEW c \in Places, NEW e \in Places, c # e
      PROVE  Range(B[c]) \cap Range(B[e]) \cap F = {}
  <2>1. CASE c # b
    BY <1>6, <1>7, <2>1
  <2>2. CASE e # b
    BY <1>6, <1>7, <2>2
  <2> QED BY <1>7, <2>1, <2>2
<1> QED BY <1>5, <1>7 DEF Apart

\* A message that is nowhere yet, or that is not of F, enters place b.
LEMMA Adds ==
    ASSUME NEW A, NEW B, NEW F, NEW n \in Nat, NEW k \in Nat, n <= k, NEW b \in Places,
           NEW m \in Messages, A[b] \in Seq(Messages),
           Apart(A, F, n),
           m \in 1..k, m \in 1..n => m \notin F,
           B[b] = Append(A[b], m),
           \A c \in Places \ {b} : B[c] = A[c]
    PROVE  Apart(B, F, k)
<1>1. \A c \in Places : Once(A[c], F) /\ Range(A[c]) \subseteq 1..n
  BY DEF Apart
<1>2. \A c, e \in Places : c # e => Range(A[c]) \cap Range(A[e]) \cap F = {}
  BY DEF Apart
<1>3. 1..n \subseteq 1..k
  OBVIOUS
<1>4. \A c \in Places : m \notin Range(A[c]) \cap F
  BY <1>1
<1>5. Range(B[b]) = Range(A[b]) \cup {m} /\ Once(B[b], F)
  BY <1>1, <1>4, Appended
<1>6. \A c \in Places : Once(B[c], F) /\ Range(B[c]) \subseteq Range(A[c]) \cup {m}
  BY <1>1, <1>5
<1>7. \A c \in Places \ {b} : Range(B[c]) = Range(A[c])
  OBVIOUS
<1>8. ASSUME NEW c \in Places, NEW e \in Places, c # e
      PROVE  Range(B[c]) \cap Range(B[e]) \cap F = {}
  <2>1. Range(A[c]) \cap Range(A[e]) \cap F = {}
    BY <1>2, <1>8
  <2>2. CASE c = b
    BY <1>4, <1>5, <1>7, <1>8, <2>1, <2>2
  <2>3. CASE e = b
    BY <1>4, <1>5, <1>7, <1>8, <2>1, <2>3
  <2>4. CASE c # b /\ e # b
    BY <1>7, <2>1, <2>4
  <2> QED BY <2>2, <2>3, <2>4
<1>9. \A c \in Places : Range(B[c]) \subseteq 1..k
  BY <1>1, <1>3, <1>6
<1> QED BY <1>6, <1>8, <1>9 DEF Apart

LEMMA OnePlace ==
    /\ \A c \in Places : c = <<c[1], c[2]>>
    /\ \A r \in Runners : <<"outbox", r>> \in Places /\ <<"request", r>> \in Places
    /\ \A s \in Sessions : /\ <<"input", s>> \in Places /\ <<"batch", s>> \in Places
                           /\ <<"heard", s>> \in Places
    /\ \A c \in Places : \/ \E r \in Runners : c = <<"outbox", r>> \/ c = <<"request", r>>
                         \/ \E s \in Sessions : \/ c = <<"input", s>> \/ c = <<"batch", s>>
                                                \/ c = <<"heard", s>>
BY DEF Places

Holdings ==
    /\ \A r \in Runners :
          /\ Carried[<<"outbox", r>>] = link[r].outbox
          /\ Carried[<<"request", r>>] =
                IF link[r].request = 0 THEN <<>> ELSE <<link[r].request>>
    /\ \A s \in Sessions :
          /\ Carried[<<"input", s>>] = input[s]
          /\ Carried[<<"batch", s>>] = batch[s]
          /\ Carried[<<"heard", s>>] = heard[s]

LEMMA WhatIsCarried == Holdings /\ Holdings'
<1>1. Holdings
  BY OnePlace DEF Holdings, Carried
<1>2. Holdings'
  BY OnePlace DEF Holdings, Carried
<1> QED BY <1>1, <1>2

-----------------------------------------------------------------------------
(* What attaching, emitting and applying events do. *)

Earlier == {p \in Nat \X Nat : p[1] < p[2]}

LEMMA RunnerFree ==
    ASSUME CanAttach
    PROVE  NextRunner \in Runners /\ link[NextRunner].session = NoSession
<1> DEFINE T == {r \in Runners : link[r].session = NoSession}
<1>1. T \in SUBSET Nat /\ T # {} /\ MaxRunners \in Nat
  BY ClientAssumption DEF CanAttach, Runners
<1>2. IsWellFoundedOn(Earlier, Nat)
  BY NatLessThanWellFounded DEF OpToRel, Earlier
<1>3. PICK t \in T : \A u \in T : ~ (<<u, t>> \in Earlier)
  BY <1>1, <1>2, WFMin
<1>4. ASSUME NEW q \in 1..(t - 1) PROVE link[q].session # NoSession
  <2>1. q \in Nat /\ t \in Nat /\ q < t /\ t \in Runners
    BY <1>1
  <2>2. q \in Runners
    BY <1>1, <2>1 DEF Runners
  <2>3. q \notin T
    BY <1>3, <2>1 DEF Earlier
  <2> QED BY <2>2, <2>3
<1>5. \E r \in Runners : /\ link[r].session = NoSession
                         /\ \A q \in 1..(r - 1) : link[q].session # NoSession
  BY <1>4
<1> QED BY <1>5 DEF NextRunner

\* Runner r, unused so far, is attached to s.
Joins(r, s, l) ==
    /\ r \in Runners /\ link[r] = Unused
    /\ l \in [Runners -> Links]
    /\ l[r] = [Unused EXCEPT !.session = s]
    /\ \A q \in Runners : q # r => l[q] = link[q]

LEMMA UnusedIs ==
    /\ Unused.session = NoSession /\ Unused.outbox = <<>>
    /\ Unused.request = 0 /\ Unused.up = TRUE
    /\ Unused.bus = <<>> /\ Unused.events = <<>>
    /\ \A s : LET c == [Unused EXCEPT !.session = s] IN
          /\ c.session = s /\ c.outbox = <<>> /\ c.request = 0 /\ c.up = TRUE
          /\ c.bus = <<>> /\ c.events = <<>>
BY DEF Unused

LEMMA JoinsIs ==
    ASSUME NEW r, NEW s, NEW l, Joins(r, s, l)
    PROVE  \A q \in Runners : /\ l[q].outbox = link[q].outbox
                              /\ l[q].request = link[q].request
                              /\ l[q].bus = link[q].bus /\ l[q].events = link[q].events
<1>1. \A q \in Runners : q # r => l[q] = link[q]
  BY DEF Joins
<1>2. link[r] = Unused /\ l[r] = [Unused EXCEPT !.session = s]
  BY DEF Joins
<1>3. /\ l[r].outbox = <<>> /\ l[r].request = 0 /\ l[r].bus = <<>> /\ l[r].events = <<>>
  BY <1>2, UnusedIs
<1>4. /\ link[r].outbox = <<>> /\ link[r].request = 0
      /\ link[r].bus = <<>> /\ link[r].events = <<>>
  BY <1>2, UnusedIs
<1> QED BY <1>1, <1>3, <1>4

LEMMA AttachedIs ==
    ASSUME CanAttach, ViewTyped, AttachedOK,
           NEW s \in Sessions
    PROVE  Joins(NextRunner, s, Attached(s))
<1> DEFINE r == NextRunner
<1>1. r \in Runners /\ link[r] = Unused
  BY RunnerFree DEF AttachedOK
<1>2. link \in [Runners -> Links] /\ MaxMessages \in Nat
  BY ClientAssumption DEF ViewTyped
<1>3. [Unused EXCEPT !.session = s] \in Links
  <2>1. Unused \in Links
    BY <1>2 DEF Unused, Links
  <2> QED BY <2>1 DEF Links
<1> HIDE DEF r
<1>4. Attached(s) = [link EXCEPT ![r] = [Unused EXCEPT !.session = s]]
  BY DEF Attached, r
<1> QED BY <1>1, <1>2, <1>3, <1>4 DEF Joins, r

LEMMA PendingSeq ==
    ASSUME ViewTyped, NEW r \in Runners
    PROVE  /\ link[r].bus \in Seq(Events) /\ link[r].events \in Seq(Events)
           /\ Pending(r) \in Seq(Events)
           /\ Range(Pending(r)) =
              Range(link[r].events) \cup Range(link[r].bus)
           /\ link[r].bus # <<>> => Last(Pending(r)) = Last(link[r].bus)
           /\ link[r].bus = <<>> => Pending(r) = link[r].events
           /\ Pending(r) = <<>> <=> link[r].bus = <<>> /\ link[r].events = <<>>
<1>1. link[r].bus \in Seq(Events) /\ link[r].events \in Seq(Events)
  BY DEF ViewTyped, Links
<1> DEFINE b == link[r].bus
           e == link[r].events
<1> HIDE DEF b, e
<1>2. /\ b \in Seq(Events) /\ e \in Seq(Events) /\ Pending(r) = e \o b
  BY <1>1 DEF b, e, Pending
<1>3. /\ e \o b \in Seq(Events)
      /\ Range(e \o b) = Range(e) \cup Range(b)
      /\ b # <<>> => Last(e \o b) = Last(b)
  BY <1>2, Joined
<1>4. b = <<>> => e \o b = e
  BY <1>2, ConcatEmptySeq
<1>5. e \o b = <<>> <=> b = <<>> /\ e = <<>>
  <2>1. Range(e \o b) = {} <=> Range(e) = {} /\ Range(b) = {}
    BY <1>3
  <2>2. /\ e \o b = <<>> <=> Range(e \o b) = {}
        /\ e = <<>> <=> Range(e) = {}
        /\ b = <<>> <=> Range(b) = {}
    BY <1>2, <1>3, Entries
  <2> QED BY <2>1, <2>2
<1> QED BY <1>1, <1>2, <1>3, <1>4, <1>5 DEF b, e

\* What Emit(s, e) does: the runners of s have e as their last event, and lose another one
\* only when they are said to lag.
Emitted(s, e) ==
    /\ link' \in [Runners -> Links] /\ lagged' \in SUBSET Runners
    /\ lagged \subseteq lagged'
    /\ \A r \in Runners :
          /\ link'[r].session = link[r].session /\ link'[r].outbox = link[r].outbox
          /\ link'[r].request = link[r].request /\ link'[r].up = link[r].up
          /\ link[r].session # s => link'[r] = link[r]
    /\ \A r \in Held \cap Runners :
          \/ link[r].session # s /\ link'[r] = link[r]
          \/ /\ link[r].session = s
             /\ Pending(r)' # <<>> /\ Last(Pending(r)') = e
             /\ Announced(r) \/ e = "thinking" => Announced(r)'

LEMMA EmitIs ==
    ASSUME ViewTyped, NEW s \in Sessions, NEW e \in Events,
           Emit(s, e)
    PROVE  Emitted(s, e)
<1> DEFINE Heard(c) == [c EXCEPT !.bus = Append(IF Len(c.bus) = BusCap THEN Tail(c.bus)
                                                  ELSE c.bus, e)]
           L == Listeners(s)
<1>1. /\ link' = [r \in Runners |-> IF r \notin L THEN link[r] ELSE Heard(link[r])]
      /\ lagged' = lagged \cup {r \in L : Len(link[r].bus) = BusCap}
  BY DEF Emit
<1>2. /\ link \in [Runners -> Links] /\ lagged \subseteq Runners
      /\ view.runner \in 0..MaxRunners /\ saved.runner \in 0..MaxRunners
      /\ BusCap \in Nat \ {0} /\ MaxRunners \in Nat
  BY ClientAssumption DEF ViewTyped, Views
<1>3. Held \subseteq Runners
  BY <1>2 DEF Held, Runners
<1>4. L \subseteq Runners /\ \A r \in Runners : r \in L <=> r \in Held
                                             /\ link[r].session = s
  BY <1>3 DEF Listeners
<1>5. ASSUME NEW c \in Links
      PROVE  /\ Heard(c) \in Links /\ Heard(c).session = c.session
             /\ Heard(c).outbox = c.outbox /\ Heard(c).request = c.request
             /\ Heard(c).up = c.up /\ Heard(c).events = c.events
             /\ Heard(c).bus # <<>> /\ Last(Heard(c).bus) = e
             /\ e \in Range(Heard(c).bus)
             /\ Len(c.bus) # BusCap => Range(Heard(c).bus) = Range(c.bus) \cup {e}
  <2> DEFINE t == IF Len(c.bus) = BusCap THEN Tail(c.bus) ELSE c.bus
  <2>1. c.bus \in Seq(Events) /\ Len(c.bus) \in Nat
    BY LenProperties DEF Links
  <2>2. t \in Seq(Events)
    <3>1. CASE Len(c.bus) = BusCap
      <4>1. c.bus # <<>>
        BY <1>2, <3>1
      <4> QED BY <2>1, <3>1, <4>1, Tailed
    <3>2. CASE Len(c.bus) # BusCap
      BY <2>1, <3>2
    <3> QED BY <3>1, <3>2
  <2>3. Len(c.bus) # BusCap => t = c.bus
    OBVIOUS
  <2> HIDE DEF t
  <2>4. /\ Append(t, e) \in Seq(Events) /\ Append(t, e) # <<>>
        /\ Last(Append(t, e)) = e
        /\ Range(Append(t, e)) = Range(t) \cup {e}
    BY <2>2, Appended
  <2>5. Heard(c) = [c EXCEPT !.bus = Append(t, e)]
    BY DEF t
  <2> HIDE DEF Heard
  <2>6. /\ Heard(c).bus = Append(t, e) /\ Heard(c).session = c.session
        /\ Heard(c).outbox = c.outbox /\ Heard(c).request = c.request
        /\ Heard(c).up = c.up /\ Heard(c).events = c.events /\ Heard(c) \in Links
    BY <2>4, <2>5 DEF Links
  <2> QED BY <2>3, <2>4, <2>6
<1> HIDE DEF L, Heard
<1>6. ASSUME NEW r \in Runners
      PROVE  link[r] \in Links /\ link'[r] = IF r \notin L THEN link[r] ELSE Heard(link[r])
  BY <1>1, <1>2
<1>7. link' \in [Runners -> Links]
  <2>1. \A r \in Runners : (IF r \notin L THEN link[r] ELSE Heard(link[r])) \in Links
    BY <1>5, <1>6
  <2> QED BY <1>1, <2>1
<1>8. lagged' \in SUBSET Runners /\ lagged \subseteq lagged'
  BY <1>1, <1>2, <1>4
<1>9. ASSUME NEW r \in Runners
      PROVE  /\ link'[r].session = link[r].session /\ link'[r].outbox = link[r].outbox
             /\ link'[r].request = link[r].request /\ link'[r].up = link[r].up
             /\ link[r].session # s => link'[r] = link[r]
  <2>1. CASE r \in L
    BY <1>4, <1>5, <1>6, <2>1
  <2>2. CASE r \notin L
    BY <1>6, <2>2
  <2> QED BY <2>1, <2>2
<1>10. ASSUME NEW r \in Runners, r \in L
       PROVE  /\ Pending(r)' # <<>> /\ Last(Pending(r)') = e
              /\ Announced(r) \/ e = "thinking" => Announced(r)'
  <2> DEFINE c == link[r]
             d == Heard(c)
             p == d.events \o d.bus
  <2>1. c \in Links /\ link'[r] = d
    BY <1>6, <1>10
  <2>2. /\ d \in Links /\ d.events = c.events /\ d.bus # <<>> /\ Last(d.bus) = e
        /\ e \in Range(d.bus)
        /\ Len(c.bus) # BusCap => Range(d.bus) = Range(c.bus) \cup {e}
    BY <1>5, <2>1
  <2>3. d.events \in Seq(Events) /\ d.bus \in Seq(Events)
    BY <2>2 DEF Links
  <2>4. Pending(r)' = p
    BY <2>1 DEF Pending
  <2> HIDE DEF d
  <2>5. /\ p \in Seq(Events) /\ Range(p) = Range(d.events) \cup Range(d.bus)
        /\ Last(p) = Last(d.bus)
    BY <2>2, <2>3, Joined
  <2>6. p # <<>>
    <3>1. Range(p) # {}
      BY <2>2, <2>5
    <3> QED BY <2>5, <3>1, Entries
  <2>7. ASSUME Announced(r) \/ e = "thinking" PROVE r \in lagged' \/ "thinking" \in Range(p)
    <3>1. CASE Len(c.bus) = BusCap
      BY <1>1, <1>10, <3>1
    <3>2. CASE Len(c.bus) # BusCap
      <4>1. Range(Pending(r)) = Range(c.events) \cup Range(c.bus)
        BY PendingSeq
      <4>2. Range(p) = Range(Pending(r)) \cup {e}
        BY <2>2, <2>5, <3>2, <4>1
      <4> QED BY <1>8, <2>7, <4>2 DEF Announced
    <3> QED BY <3>1, <3>2
  <2> HIDE DEF p
  <2>8. Announced(r)' <=> r \in lagged' \/ "thinking" \in Range(p)
    BY <2>4 DEF Announced
  <2> QED BY <2>2, <2>4, <2>5, <2>6, <2>7, <2>8
<1>11. ASSUME NEW r \in Held \cap Runners
       PROVE  \/ link[r].session # s /\ link'[r] = link[r]
              \/ /\ link[r].session = s
                 /\ Pending(r)' # <<>> /\ Last(Pending(r)') = e
                 /\ Announced(r) \/ e = "thinking" => Announced(r)'
  <2>1. CASE r \in L
    BY <1>4, <1>10, <2>1
  <2>2. CASE r \notin L
    BY <1>4, <1>6, <2>2
  <2> QED BY <2>1, <2>2
<1> QED BY <1>7, <1>8, <1>9, <1>11 DEF Emitted

\* Runner r takes m if sent, else nobody does; the view shows it or queues it.
Dispatched(m, r, l, sent) ==
    /\ sent \in BOOLEAN /\ sent => r \in Runners
    /\ view' \in Views /\ view'.runner = r /\ view'.busy = (sent \/ view.busy)
    /\ view'.queue = IF view.busy THEN Append(view.queue, m) ELSE view.queue
    /\ view'.shown = IF view.busy THEN view.shown ELSE Append(view.shown, m)
    /\ link' \in [Runners -> Links]
    /\ \A q \in Runners :
          /\ link'[q].session = l[q].session /\ link'[q].request = l[q].request
          /\ link'[q].bus = l[q].bus /\ link'[q].events = l[q].events
          /\ link'[q].outbox = IF sent /\ q = r THEN Append(l[q].outbox, m) ELSE l[q].outbox
          /\ q # r => link'[q] = l[q]
    /\ via' \in [Messages -> 0..MaxRunners]
    /\ \A n \in Messages : via'[n] = IF sent /\ n = m THEN r ELSE via[n]
    /\ sure' = (sure \/ (~view.busy /\ sent)) /\ sure' \in BOOLEAN

LEMMA DispatchIs ==
    ASSUME ViewTyped, NEW m \in Messages, NEW r \in 0..MaxRunners,
           NEW l \in [Runners -> Links], Dispatch(m, r, l)
    PROVE  \E sent \in BOOLEAN : Dispatched(m, r, l, sent)
<1> DEFINE sent == r # 0 /\ l[r].up /\ Len(l[r].outbox) < OutCap
           owns == ~view.busy
<1>1. /\ view' = [view EXCEPT !.runner = r,
                              !.busy = sent \/ ~owns,
                              !.queue = IF owns THEN @ ELSE Append(@, m),
                              !.shown = IF owns THEN Append(@, m) ELSE @,
                              !.persisted = @ \/ sent]
      /\ link' = IF sent THEN [l EXCEPT ![r].outbox = Append(@, m)] ELSE l
      /\ via' = [via EXCEPT ![m] = IF sent THEN r ELSE @]
      /\ sure' = (sure \/ (owns /\ sent))
  BY DEF Dispatch
<1>2. /\ view \in Views /\ via \in [Messages -> 0..MaxRunners] /\ sure \in BOOLEAN
      /\ MaxRunners \in Nat
  BY ClientAssumption DEF ViewTyped
<1>3. sent => r \in Runners
  BY <1>2 DEF Runners
<1>4. sent \in BOOLEAN
  OBVIOUS
<1> HIDE DEF sent
<1>5. view.busy \in BOOLEAN /\ view.persisted \in BOOLEAN /\ view.queue \in Seq(Messages)
      /\ view.shown \in Seq(Messages)
  BY <1>2 DEF Views
<1>6. /\ Append(view.queue, m) \in Seq(Messages)
      /\ Append(view.shown, m) \in Seq(Messages)
  BY <1>5, Appended
<1>7. /\ view' \in Views /\ view'.runner = r /\ view'.busy = (sent \/ view.busy)
      /\ view'.queue = IF view.busy THEN Append(view.queue, m) ELSE view.queue
      /\ view'.shown = IF view.busy THEN view.shown ELSE Append(view.shown, m)
  BY <1>1, <1>2, <1>4, <1>5, <1>6 DEF Views
<1>8. ASSUME sent
      PROVE  /\ link' \in [Runners -> Links]
             /\ \A q \in Runners :
                   /\ link'[q].session = l[q].session /\ link'[q].request = l[q].request
                   /\ link'[q].bus = l[q].bus /\ link'[q].events = l[q].events
                   /\ link'[q].outbox = IF q = r THEN Append(l[q].outbox, m) ELSE l[q].outbox
                   /\ q # r => link'[q] = l[q]
  <2>1. r \in Runners /\ l[r] \in Links
    BY <1>3, <1>8
  <2>2. Append(l[r].outbox, m) \in Seq(Messages)
    BY <2>1, Appended DEF Links
  <2> DEFINE c == [l[r] EXCEPT !.outbox = Append(l[r].outbox, m)]
  <2>3. /\ c \in Links /\ c.session = l[r].session /\ c.request = l[r].request
        /\ c.bus = l[r].bus /\ c.events = l[r].events /\ c.outbox = Append(l[r].outbox, m)
    BY <2>1, <2>2 DEF Links
  <2>4. link' = [l EXCEPT ![r] = c]
    BY <1>1, <1>8
  <2> HIDE DEF c
  <2> QED BY <2>1, <2>3, <2>4
<1>9. ASSUME ~sent PROVE link' = l
  BY <1>1, <1>9
<1>10. via' \in [Messages -> 0..MaxRunners]
       /\ \A n \in Messages : via'[n] = IF sent /\ n = m THEN r ELSE via[n]
  BY <1>1, <1>2
<1>11. sure' = (sure \/ (~view.busy /\ sent)) /\ sure' \in BOOLEAN
  BY <1>1, <1>2, <1>4, <1>5
<1>12. Dispatched(m, r, l, sent)
  <2>1. CASE sent
    BY <1>3, <1>4, <1>7, <1>8, <1>10, <1>11, <2>1 DEF Dispatched
  <2>2. CASE ~sent
    BY <1>3, <1>4, <1>7, <1>9, <1>10, <1>11, <2>2 DEF Dispatched
  <2> QED BY <2>1, <2>2
<1> QED BY <1>4, <1>12

LEMMA AppliedIs ==
    ASSUME NEW v \in Views, NEW es \in Seq(Events)
    PROVE  LET w == Applied(v, es)
               shows == "thinking" \in Range(es)
           IN  /\ w \in Views /\ w.runner = v.runner
               /\ w.busy = IF es = <<>> THEN v.busy ELSE Last(es) # "idle"
               /\ w.shown = IF shows THEN v.shown \o v.queue ELSE v.shown
               /\ w.queue = IF shows THEN <<>> ELSE v.queue
<1> DEFINE shows == "thinking" \in Range(es)
           last == Last(es) # "idle"
           turns == v.shown \o v.queue
<1>1. Applied(v, es) = [v EXCEPT !.busy = IF es = <<>> THEN v.busy ELSE last,
                                 !.shown = IF shows THEN turns ELSE v.shown,
                                 !.queue = IF shows THEN <<>> ELSE v.queue]
  BY DEF Applied
<1>2. turns \in Seq(Messages) /\ shows \in BOOLEAN /\ last \in BOOLEAN
  <2>1. v.shown \in Seq(Messages) /\ v.queue \in Seq(Messages)
    BY DEF Views
  <2> QED BY <2>1, Joined
<1> HIDE DEF shows, last, turns
<1> DEFINE b == IF es = <<>> THEN v.busy ELSE last
           t == IF shows THEN turns ELSE v.shown
           q == IF shows THEN <<>> ELSE v.queue
           w == [v EXCEPT !.busy = b, !.shown = t, !.queue = q]
<1>3. b \in BOOLEAN /\ t \in Seq(Messages) /\ q \in Seq(Messages)
  BY <1>2 DEF Views
<1>4. Applied(v, es) = w
  BY <1>1
<1> HIDE DEF b, t, q
<1>5. w \in Views /\ w.runner = v.runner /\ w.busy = b /\ w.shown = t /\ w.queue = q
  BY <1>3 DEF Views
<1> QED BY <1>4, <1>5 DEF shows, last, turns, b, t, q

-----------------------------------------------------------------------------
(* Types. *)

LEMMA ConstantsTyped ==
    /\ MaxRunners \in Nat \ {0} /\ MaxMessages \in Nat /\ OutCap \in Nat \ {0}
    /\ Runners = 1..MaxRunners /\ Messages = 1..MaxMessages
    /\ 0 \notin Runners /\ 0 \notin Messages /\ NoSession \notin Sessions
    /\ \A r \in 0..MaxRunners : r # 0 <=> r \in Runners
    /\ \A m \in 0..MaxMessages : m # 0 <=> m \in Messages
BY ClientAssumption DEF Runners, Messages

LEMMA QueuesTyped ==
    ASSUME ViewTyped, NEW s \in Sessions
    PROVE  /\ input[s] \in Seq(Messages) /\ batch[s] \in Seq(Messages)
           /\ heard[s] \in Seq(Messages)
           /\ Range(input[s]) \subseteq Messages
           /\ Range(batch[s]) \subseteq Messages
<1>1. input[s] \in Seq(Messages) /\ batch[s] \in Seq(Messages)
      /\ heard[s] \in Seq(Messages)
  BY DEF ViewTyped
<1> QED BY <1>1, Entries

LEMMA ViewsTyped ==
    ASSUME ViewTyped
    PROVE  \A v \in {view, saved} :
              /\ v.runner \in 0..MaxRunners /\ v.busy \in BOOLEAN /\ v.persisted \in BOOLEAN
              /\ v.queue \in Seq(Messages) /\ v.shown \in Seq(Messages)
BY DEF ViewTyped, Views

LEMMA LinksTyped ==
    ASSUME ViewTyped, NEW r \in Runners
    PROVE  /\ link[r] \in Links /\ link[r].session \in Sessions \cup {NoSession}
           /\ link[r].outbox \in Seq(Messages) /\ link[r].request \in 0..MaxMessages
           /\ link[r].up \in BOOLEAN /\ link[r].bus \in Seq(Events)
           /\ link[r].events \in Seq(Events)
<1>1. link[r] \in Links
  BY DEF ViewTyped
<1> QED BY <1>1 DEF Links

\* The fork of DiscardFork or EndOpenSide is gone, or nothing changes.
Discarded(s) ==
    /\ driver' = [driver EXCEPT ![s] = "dead"]
    /\ dropped' = dropped \cup Range(input[s]) \cup Range(batch[s])
    /\ input' = [input EXCEPT ![s] = <<>>] /\ batch' = [batch EXCEPT ![s] = <<>>]
    /\ UNCHANGED heard

DaemonTyped ==
    /\ input \in [Sessions -> Seq(Messages)] /\ batch \in [Sessions -> Seq(Messages)]
    /\ heard \in [Sessions -> Seq(Messages)]
    /\ driver \in [Sessions -> {"idle", "screening", "working", "dead"}]
    /\ dropped \subseteq Messages

LEMMA CurrentIs ==
    ASSUME ViewTyped, AttachedOK, view.runner # 0
    PROVE  /\ view.runner \in Runners /\ Current \in Sessions
           /\ Current = link[view.runner].session
<1>1. view.runner \in Runners
  BY ConstantsTyped, ViewsTyped
<1>2. link[view.runner].session \in Sessions
  BY <1>1, LinksTyped DEF AttachedOK
<1> QED BY <1>1, <1>2 DEF Current

LEMMA ForkIs ==
    ASSUME ViewTyped, AttachedOK, InSide
    PROVE  Current \in Sessions /\ (DiscardFork => Discarded(Current))
<1>1. view.runner # 0
  BY DEF AttachedOK, InSide
<1>2. DiscardFork => Discarded(Current)
  BY DEF DiscardFork, Discarded
<1> QED BY <1>1, <1>2, CurrentIs

LEMMA DiscardTyped ==
    ASSUME ViewTyped, NEW s \in Sessions, Discarded(s)
    PROVE  DaemonTyped'
<1>1. DaemonTyped
  BY DEF DaemonTyped, ViewTyped
<1>2. <<>> \in Seq(Messages)
  OBVIOUS
<1>3. dropped' \subseteq Messages
  BY <1>1, QueuesTyped DEF Discarded, DaemonTyped
<1>4. /\ input' \in [Sessions -> Seq(Messages)] /\ batch' \in [Sessions -> Seq(Messages)]
  BY <1>1, <1>2 DEF Discarded, DaemonTyped
<1>5. heard' \in [Sessions -> Seq(Messages)]
      /\ driver' \in [Sessions -> {"idle", "screening", "working", "dead"}]
  BY <1>1 DEF Discarded, DaemonTyped
<1> QED BY <1>3, <1>4, <1>5 DEF DaemonTyped

\* What the open side conversation leaves when another session is chosen.
LEMMA OpenSideTyped ==
    ASSUME ViewTyped, AttachedOK, EndOpenSide
    PROVE  DaemonTyped'
<1>1. CASE InSide
  BY <1>1, ForkIs, DiscardTyped DEF EndOpenSide
<1>2. CASE ~InSide
  BY <1>2 DEF EndOpenSide, daemon, DaemonTyped, ViewTyped
<1> QED BY <1>1, <1>2

LEMMA BlankTyped == Blank \in Views
<1>1. <<>> \in Seq(Messages) /\ 0 \in 0..MaxRunners
  BY ConstantsTyped
<1> QED BY <1>1 DEF Blank, Views

\* The human's steps.
LEMMA ChoiceTyped ==
    ASSUME ViewTyped, AttachedOK,
           \/ AttachForDisplay \/ EnterSide \/ EndSide \/ NewSession
           \/ \E s \in Sessions : Resume(s)
    PROVE  ViewTyped'
<1> USE DEF client, daemon, counters, history
<1>1. ASSUME NEW s \in Sessions, CanAttach, link' = Attached(s)
      PROVE  link' \in [Runners -> Links] /\ NextRunner \in 0..MaxRunners
  <2>1. Joins(NextRunner, s, Attached(s))
    BY <1>1, AttachedIs
  <2>2. Attached(s) \in [Runners -> Links] /\ NextRunner \in Runners
    BY <2>1 DEF Joins
  <2> QED BY <1>1, <2>2, ConstantsTyped
<1>2. view \in Views /\ saved \in Views /\ view.busy \in BOOLEAN
  BY ViewsTyped DEF ViewTyped
<1>3. CASE AttachForDisplay
  <2>1. link' \in [Runners -> Links] /\ NextRunner \in 0..MaxRunners
    BY <1>1, <1>3 DEF AttachForDisplay, Fresh
  <2>2. view' \in Views
    BY <1>2, <1>3, <2>1 DEF AttachForDisplay, Views
  <2> QED BY <1>3, <2>1, <2>2 DEF AttachForDisplay, ViewTyped
<1>4. CASE EnterSide
  <2>1. link' \in [Runners -> Links] /\ NextRunner \in 0..MaxRunners
    BY <1>1, <1>4 DEF EnterSide, Fresh
  <2>2. view' \in Views
    <3>1. <<>> \in Seq(Messages)
      OBVIOUS
    <3> QED BY <1>2, <1>4, <2>1, <3>1 DEF EnterSide, Views
  <2>3. saved' \in Views /\ sure' \in BOOLEAN
    BY <1>2, <1>4 DEF EnterSide
  <2> QED BY <1>4, <2>1, <2>2, <2>3 DEF EnterSide, ViewTyped
<1>5. CASE EndSide
  <2>1. DaemonTyped'
    BY <1>5, ForkIs, DiscardTyped DEF EndSide
  <2>2. view' \in Views
    BY <1>2, <1>5 DEF EndSide, Restored, Views
  <2>3. saved' \in Views /\ sure' \in BOOLEAN
    BY <1>5, BlankTyped DEF EndSide
  <2> QED BY <1>5, <2>1, <2>2, <2>3 DEF EndSide, ViewTyped, DaemonTyped
<1>6. CASE NewSession
  <2>1. DaemonTyped'
    BY <1>6, OpenSideTyped DEF NewSession
  <2>2. view' \in Views /\ saved' \in Views /\ sure' \in BOOLEAN
    BY <1>2, <1>6, BlankTyped DEF NewSession, Views
  <2> QED BY <1>6, <2>1, <2>2 DEF NewSession, ViewTyped, DaemonTyped
<1>7. ASSUME NEW s \in Sessions, Resume(s) PROVE ViewTyped'
  <2>1. DaemonTyped'
    BY <1>7, OpenSideTyped DEF Resume
  <2>2. link' \in [Runners -> Links] /\ NextRunner \in 0..MaxRunners
    BY <1>1, <1>7 DEF Resume
  <2>3. view' \in Views /\ saved' \in Views /\ sure' \in BOOLEAN
    BY <1>2, <1>7, <2>2, BlankTyped DEF Resume, Views
  <2> QED BY <1>7, <2>1, <2>2, <2>3 DEF Resume, ViewTyped, DaemonTyped
<1> QED BY <1>3, <1>4, <1>5, <1>6, <1>7

LEMMA SubmittedIs ==
    ASSUME ViewTyped, ShownOK, Submitted \in Messages
    PROVE  /\ composer # 0 => /\ Submitted = composer /\ composer \in recalled
                              /\ composer \in 1..written
           /\ composer = 0 => Submitted = written + 1
           /\ Submitted \in 1..MaxMessages /\ written \in 0..MaxMessages
           /\ composer \in 0..MaxMessages
<1>1. /\ composer \in 0..MaxMessages /\ written \in 0..MaxMessages /\ MaxMessages \in Nat
      /\ Messages = 1..MaxMessages
  BY ConstantsTyped DEF ViewTyped
<1>2. composer # 0 => composer \in recalled /\ composer <= written
  BY DEF ShownOK
<1> QED BY <1>1, <1>2 DEF Submitted

\* A submit, with or without a runner: the message, the runner, the links and whether it is sent.
LEMMA SubmitIs ==
    ASSUME ViewTyped, AttachedOK, Submit
    PROVE  \E r \in 0..MaxRunners, l \in [Runners -> Links], sent \in BOOLEAN :
              /\ Dispatched(Submitted, r, l, sent)
              /\ \/ r = view.runner /\ l = link
                 \/ view.runner = 0 /\ \E s \in Sessions \ Known : Joins(r, s, l)
<1>1. Submitted \in Messages /\ view.runner \in 0..MaxRunners /\ 0 \in 0..MaxRunners
  BY ConstantsTyped, ViewsTyped DEF Submit
<1>2. link \in [Runners -> Links]
  BY DEF ViewTyped
<1>3. CASE Dispatch(Submitted, view.runner, link)
  BY <1>1, <1>2, <1>3, DispatchIs
<1>4. ASSUME view.runner = 0, CanAttach, NEW s \in Fresh,
             Dispatch(Submitted, NextRunner, Attached(s))
      PROVE  \E r \in 0..MaxRunners, l \in [Runners -> Links], sent \in BOOLEAN :
                /\ Dispatched(Submitted, r, l, sent)
                /\ view.runner = 0 /\ \E q \in Sessions \ Known : Joins(r, q, l)
  <2>1. s \in Sessions \ Known
    BY DEF Fresh
  <2>2. Joins(NextRunner, s, Attached(s))
    BY <1>4, <2>1, AttachedIs
  <2>3. NextRunner \in 0..MaxRunners /\ Attached(s) \in [Runners -> Links]
    BY <2>2, ConstantsTyped DEF Joins
  <2>4. \E sent \in BOOLEAN : Dispatched(Submitted, NextRunner, Attached(s), sent)
    BY <1>1, <1>4, <2>3, DispatchIs
  <2> QED BY <1>4, <2>1, <2>2, <2>3, <2>4
<1>5. CASE view.runner = 0 /\ Dispatch(Submitted, 0, link)
  BY <1>3, <1>5
<1> QED BY <1>3, <1>4, <1>5 DEF Submit

LEMMA RecallIs ==
    ASSUME ViewTyped, Recall
    PROVE  /\ view' \in Views /\ view'.runner = view.runner /\ view'.busy = view.busy
           /\ view'.shown = view.shown /\ view'.queue = Front(view.queue)
           /\ view.queue # <<>> /\ composer' = Last(view.queue)
           /\ composer' \in Messages /\ recalled' = recalled \cup {composer'}
           /\ composer' \in Range(view.queue)
           /\ Range(view.queue) = Range(view'.queue) \cup {composer'}
           /\ Once(view.queue, Messages) =>
                 /\ Once(view'.queue, Messages)
                 /\ composer' \notin Range(view'.queue)
<1>1. /\ view' = [view EXCEPT !.queue = Front(view.queue)]
      /\ view.queue # <<>> /\ composer' = Last(view.queue)
      /\ recalled' = recalled \cup {Last(view.queue)}
  BY DEF Recall
<1>2. view.queue \in Seq(Messages) /\ view \in Views
  BY ViewsTyped DEF ViewTyped
<1>3. /\ Last(view.queue) \in Messages
      /\ Front(view.queue) \in Seq(Messages)
      /\ Range(view.queue) = Range(Front(view.queue)) \cup {Last(view.queue)}
      /\ Once(view.queue, Messages) =>
            /\ Once(Front(view.queue), Messages)
            /\ Last(view.queue) \notin Range(Front(view.queue)) \cap Messages
  BY <1>1, <1>2, Fronted
<1>4. /\ view' \in Views /\ view'.runner = view.runner /\ view'.busy = view.busy
      /\ view'.shown = view.shown /\ view'.queue = Front(view.queue)
  BY <1>1, <1>2, <1>3 DEF Views
<1> QED BY <1>1, <1>3, <1>4

\* The handoff m opens a fresh session.
Committed(m, r, s) ==
    /\ m = written + 1 /\ m \in 1..MaxMessages /\ written' = m
    /\ r \in Runners /\ link[r] = Unused /\ s \in Sessions \ Known
    /\ link' \in [Runners -> Links]
    /\ link'[r].session = s /\ link'[r].outbox = <<m>> /\ link'[r].request = 0
    /\ link'[r].bus = <<>> /\ link'[r].events = <<>>
    /\ \A q \in Runners : q # r => link'[q] = link[q]
    /\ view' = [runner |-> r, busy |-> TRUE, queue |-> <<>>, shown |-> <<m>>,
                persisted |-> TRUE]
    /\ view' \in Views
    /\ via' = [via EXCEPT ![m] = r]
    /\ via' \in [Messages -> 0..MaxRunners]

LEMMA CommitIs ==
    ASSUME ViewTyped, AttachedOK, CommitCompact
    PROVE  \E s \in Sessions : Committed(written + 1, NextRunner, s)
<1> DEFINE m == written + 1
           r == NextRunner
<1>1. /\ written \in 0..MaxMessages /\ MaxMessages \in Nat /\ written < MaxMessages
      /\ Messages = 1..MaxMessages
  BY ConstantsTyped DEF ViewTyped, CommitCompact
<1>2. m \in 1..MaxMessages /\ m \in Messages /\ written' = m
  BY <1>1 DEF CommitCompact
<1>3. PICK s \in Fresh : link' = [Attached(s) EXCEPT ![r].outbox = <<m>>]
  BY DEF CommitCompact
<1>4. s \in Sessions \ Known
  BY DEF Fresh
<1>5. Joins(r, s, Attached(s))
  BY <1>4, AttachedIs DEF CommitCompact
<1> DEFINE l == Attached(s)
<1>6. /\ r \in Runners /\ link[r] = Unused /\ l \in [Runners -> Links]
      /\ l[r].session = s /\ l[r].request = 0 /\ l[r].bus = <<>> /\ l[r].events = <<>>
      /\ \A q \in Runners : q # r => l[q] = link[q]
  BY <1>5, UnusedIs DEF Joins
<1> HIDE DEF l, m, r
<1>7. <<m>> \in Seq(Messages)
  BY <1>2
<1> DEFINE c == [l[r] EXCEPT !.outbox = <<m>>]
<1>8. /\ c \in Links /\ c.session = s /\ c.outbox = <<m>> /\ c.request = 0
      /\ c.bus = <<>> /\ c.events = <<>>
  BY <1>6, <1>7 DEF Links
<1>9. link' = [l EXCEPT ![r] = c]
  BY <1>3 DEF l, r, m
<1> HIDE DEF c
<1>10. /\ link' \in [Runners -> Links] /\ link'[r] = c
       /\ \A q \in Runners : q # r => link'[q] = link[q]
  BY <1>6, <1>8, <1>9
<1>11. /\ view' = [runner |-> r, busy |-> TRUE, queue |-> <<>>, shown |-> <<m>>,
                   persisted |-> TRUE]
       /\ via' = [via EXCEPT ![m] = r]
  BY DEF CommitCompact, m, r
<1>12. r \in 0..MaxRunners /\ <<>> \in Seq(Messages)
  BY <1>6, ConstantsTyped
<1>13. view' \in Views
  BY <1>7, <1>11, <1>12 DEF Views
<1>14. via' \in [Messages -> 0..MaxRunners]
  BY <1>2, <1>11, <1>12 DEF ViewTyped
<1>15. Committed(m, r, s)
  BY <1>2, <1>4, <1>6, <1>8, <1>10, <1>11, <1>13, <1>14 DEF Committed, m
<1> QED BY <1>4, <1>15 DEF m, r

\* The human's messages.
LEMMA MessageTyped ==
    ASSUME ViewTyped, AttachedOK, ShownOK,
           Submit \/ Recall \/ CommitCompact
    PROVE  ViewTyped'
<1> USE DEF client, daemon, counters, history
<1>1. CASE Submit
  <2>1. PICK r \in 0..MaxRunners, l \in [Runners -> Links], sent \in BOOLEAN :
            Dispatched(Submitted, r, l, sent)
    BY <1>1, SubmitIs
  <2>2. /\ view' \in Views /\ link' \in [Runners -> Links] /\ sure' \in BOOLEAN
        /\ via' \in [Messages -> 0..MaxRunners]
    BY <2>1 DEF Dispatched
  <2>3. composer' \in 0..MaxMessages /\ written' \in 0..MaxMessages
    <3>1. Submitted \in Messages
      BY <1>1 DEF Submit
    <3>2. MaxMessages \in Nat
      BY ConstantsTyped
    <3> QED BY <1>1, <3>1, <3>2, SubmittedIs DEF Submit
  <2>4. UNCHANGED <<saved, input, batch, driver, heard, dropped, recalled, lagged>>
    BY <1>1 DEF Submit
  <2>5. DaemonTyped'
    BY <2>4 DEF DaemonTyped, ViewTyped
  <2>6. saved' \in Views /\ recalled' \subseteq Messages /\ lagged' \subseteq Runners
    BY <2>4 DEF ViewTyped
  <2> QED BY <2>2, <2>3, <2>5, <2>6 DEF ViewTyped, DaemonTyped
<1>2. CASE Recall
  <2>0. view' \in Views /\ composer' \in Messages /\ recalled' = recalled \cup {composer'}
    BY <1>2, RecallIs
  <2>1. view' \in Views /\ composer' \in 0..MaxMessages /\ recalled' \subseteq Messages
    BY <2>0, ConstantsTyped DEF ViewTyped
  <2> QED BY <1>2, <2>1 DEF Recall, ViewTyped
<1>3. CASE CommitCompact
  <2>1. PICK s \in Sessions : Committed(written + 1, NextRunner, s)
    BY <1>3, CommitIs
  <2>2. /\ view' \in Views /\ link' \in [Runners -> Links]
        /\ via' \in [Messages -> 0..MaxRunners] /\ written' \in 0..MaxMessages
    BY <2>1 DEF Committed
  <2> QED BY <1>3, <2>2 DEF CommitCompact, ViewTyped
<1> QED BY <1>1, <1>2, <1>3

\* The connection of runner r holds what is given; its session stays.
Holds(r, out, req, bus, events) ==
    /\ link' \in [Runners -> Links]
    /\ link'[r].session = link[r].session /\ link'[r].outbox = out /\ link'[r].request = req
    /\ link'[r].bus = bus /\ link'[r].events = events
    /\ \A q \in Runners : q # r => link'[q] = link[q]

LEMMA ForwardIs ==
    ASSUME ViewTyped, NEW r \in Runners, Forward(r)
    PROVE  /\ link[r].request = 0 /\ link[r].outbox # <<>>
           /\ Head(link[r].outbox) \in Messages
           /\ Tail(link[r].outbox) \in Seq(Messages)
           /\ Holds(r, Tail(link[r].outbox), Head(link[r].outbox), link[r].bus, link[r].events)
<1> DEFINE c == [link[r] EXCEPT !.request = Head(link[r].outbox), !.outbox = Tail(link[r].outbox)]
<1>1. link[r].request = 0 /\ link[r].outbox # <<>> /\ link' = [link EXCEPT ![r] = c]
  BY DEF Forward
<1>2. link[r] \in Links /\ link[r].outbox \in Seq(Messages) /\ link \in [Runners -> Links]
  BY LinksTyped DEF ViewTyped
<1>3. Head(link[r].outbox) \in Messages /\ Tail(link[r].outbox) \in Seq(Messages)
  BY <1>1, <1>2, Tailed
<1>4. Head(link[r].outbox) \in 0..MaxMessages
  BY <1>3, ConstantsTyped
<1>5. /\ c \in Links /\ c.session = link[r].session /\ c.outbox = Tail(link[r].outbox)
      /\ c.request = Head(link[r].outbox) /\ c.bus = link[r].bus /\ c.events = link[r].events
  BY <1>2, <1>3, <1>4 DEF Links
<1> HIDE DEF c
<1> QED BY <1>1, <1>2, <1>3, <1>5 DEF Holds

\* The daemon accepts m for s, or loses it.
Accepted(s, m) == input' = [input EXCEPT ![s] = Append(input[s], m)] /\ UNCHANGED dropped
Lost(m) == dropped' = dropped \cup {m} /\ UNCHANGED input

LEMMA DeliverIs ==
    ASSUME ViewTyped, AttachedOK, NEW r \in Runners, Deliver(r)
    PROVE  /\ link[r].request \in Messages /\ link[r].session \in Sessions
           /\ Accepted(link[r].session, link[r].request) \/ Lost(link[r].request)
           /\ Holds(r, link[r].outbox, 0, link[r].bus, link[r].events)
           /\ DaemonTyped'
<1> DEFINE c == [link[r] EXCEPT !.request = 0]
           m == link[r].request
           s == link[r].session
<1>1. /\ m # 0 /\ link' = [link EXCEPT ![r] = c]
      /\ Accepted(s, m) \/ Lost(m)
      /\ UNCHANGED <<batch, driver, heard>>
  BY DEF Deliver, Accepted, Lost
<1>2. link[r] \in Links /\ link \in [Runners -> Links]
  BY LinksTyped DEF ViewTyped
<1>3. m \in Messages /\ 0 \in 0..MaxMessages
  BY <1>1, LinksTyped, ConstantsTyped
<1>4. s \in Sessions
  <2>1. link[r].session = NoSession => m = 0
    BY UnusedIs DEF AttachedOK
  <2> QED BY <1>1, <2>1, LinksTyped
<1>5. /\ c \in Links /\ c.session = link[r].session /\ c.outbox = link[r].outbox
      /\ c.request = 0 /\ c.bus = link[r].bus /\ c.events = link[r].events
  BY <1>2, <1>3 DEF Links
<1> HIDE DEF c, m, s
<1>6. Holds(r, link[r].outbox, 0, link[r].bus, link[r].events)
  BY <1>1, <1>2, <1>5 DEF Holds
<1>7. DaemonTyped
  BY DEF DaemonTyped, ViewTyped
<1>8. DaemonTyped'
  <2>1. CASE Accepted(s, m)
    <3>1. Append(input[s], m) \in Seq(Messages)
      BY <1>3, <1>4, QueuesTyped
    <3>2. input' \in [Sessions -> Seq(Messages)]
      BY <1>7, <2>1, <3>1 DEF DaemonTyped, Accepted
    <3> QED BY <1>1, <1>7, <2>1, <3>2 DEF DaemonTyped, Accepted
  <2>2. CASE Lost(m)
    BY <1>1, <1>3, <1>7, <2>2 DEF DaemonTyped, Lost
  <2> QED BY <1>1, <2>1, <2>2
<1> QED BY <1>1, <1>3, <1>4, <1>6, <1>8 DEF m, s

LEMMA TimeOutIs ==
    ASSUME ViewTyped, NEW r \in Runners, TimeOut(r)
    PROVE  /\ dropped' = dropped \cup Range(link[r].outbox)
           /\ dropped' \subseteq Messages
           /\ Holds(r, <<>>, link[r].request, link[r].bus, link[r].events)
<1> DEFINE c == [link[r] EXCEPT !.up = FALSE, !.outbox = <<>>]
<1>1. link' = [link EXCEPT ![r] = c] /\ dropped' = dropped \cup Range(link[r].outbox)
  BY DEF TimeOut
<1>2. /\ link[r] \in Links /\ link \in [Runners -> Links] /\ dropped \subseteq Messages
      /\ link[r].outbox \in Seq(Messages) /\ <<>> \in Seq(Messages)
  BY LinksTyped DEF ViewTyped
<1>3. Range(link[r].outbox) \subseteq Messages
  BY <1>2, Entries
<1>4. /\ c \in Links /\ c.session = link[r].session /\ c.outbox = <<>>
      /\ c.request = link[r].request /\ c.bus = link[r].bus /\ c.events = link[r].events
  BY <1>2 DEF Links
<1> HIDE DEF c
<1>5. Holds(r, <<>>, link[r].request, link[r].bus, link[r].events)
  BY <1>1, <1>2, <1>4 DEF Holds
<1> QED BY <1>1, <1>2, <1>3, <1>5

\* The receiver passes an event on: what is under way stays the same.
LEMMA ReceiveIs ==
    ASSUME ViewTyped, NEW r \in Runners, Receive(r)
    PROVE  /\ Holds(r, link[r].outbox, link[r].request, Tail(link[r].bus),
                    Append(link[r].events, Head(link[r].bus)))
           /\ r \in Held
           /\ Pending(r)' # <<>> /\ Pending(r) # <<>>
           /\ Last(Pending(r)') = Last(Pending(r))
           /\ Range(Pending(r)') = Range(Pending(r))
<1> DEFINE b == link[r].bus
           e == link[r].events
           c == [link[r] EXCEPT !.events = Append(e, Head(b)), !.bus = Tail(b)]
<1>1. b # <<>> /\ r \in Held /\ link' = [link EXCEPT ![r] = c]
  BY DEF Receive
<1>2. /\ link[r] \in Links /\ link \in [Runners -> Links]
      /\ b \in Seq(Events) /\ e \in Seq(Events)
  BY LinksTyped DEF ViewTyped
<1>a. c = [link[r] EXCEPT !.events = Append(e, Head(b)), !.bus = Tail(b)]
      /\ b = link[r].bus /\ e = link[r].events
  OBVIOUS
<1> HIDE DEF b, e, c
<1>3. /\ Head(b) \in Events /\ Tail(b) \in Seq(Events)
      /\ Range(b) = Range(Tail(b)) \cup {Head(b)} /\ b = <<Head(b)>> \o Tail(b)
  BY <1>1, <1>2, Tailed
<1>4. /\ Append(e, Head(b)) \in Seq(Events) /\ Append(e, Head(b)) # <<>>
      /\ Range(Append(e, Head(b))) = Range(e) \cup {Head(b)}
      /\ Last(Append(e, Head(b))) = Head(b)
  BY <1>2, <1>3, Appended
<1>5. /\ c \in Links /\ c.session = link[r].session /\ c.outbox = link[r].outbox
      /\ c.request = link[r].request /\ c.bus = Tail(b) /\ c.events = Append(e, Head(b))
  BY <1>2, <1>3, <1>4, <1>a DEF Links
<1> DEFINE p == Append(e, Head(b)) \o Tail(b)
<1>6. /\ p \in Seq(Events) /\ Range(p) = Range(e) \cup Range(b)
      /\ Tail(b) # <<>> => Last(p) = Last(Tail(b))
      /\ Tail(b) = <<>> => Last(p) = Head(b)
  <2>1. /\ p \in Seq(Events)
        /\ Range(p) = Range(Append(e, Head(b))) \cup Range(Tail(b))
        /\ Tail(b) # <<>> => Last(p) = Last(Tail(b))
    <3> DEFINE f == Append(e, Head(b))
               t == Tail(b)
    <3>1. f \in Seq(Events) /\ t \in Seq(Events)
      BY <1>3, <1>4
    <3> HIDE DEF f, t
    <3>2. /\ f \o t \in Seq(Events)
          /\ Range(f \o t) = Range(f) \cup Range(t)
          /\ t # <<>> => Last(f \o t) = Last(t)
      BY <3>1, Joined
    <3> QED BY <3>2 DEF f, t
  <2>2. ASSUME Tail(b) = <<>> PROVE Last(p) = Head(b)
    <3>1. p = Append(e, Head(b))
      BY <1>4, <2>2, ConcatEmptySeq
    <3> QED BY <1>4, <3>1
  <2> QED BY <1>3, <1>4, <2>1, <2>2
<1>7. /\ Tail(b) # <<>> => Last(b) = Last(Tail(b))
      /\ Tail(b) = <<>> => Last(b) = Head(b)
  <2>1. /\ Len(b) \in Nat /\ Len(b) > 0 /\ Last(b) = b[Len(b)] /\ Head(b) = b[1]
    BY <1>1, <1>2, Entries
  <2>2. Len(Tail(b)) = Len(b) - 1 /\ \A i \in 1..Len(Tail(b)) : Tail(b)[i] = b[i + 1]
    BY <1>1, <1>2, HeadTailProperties
  <2>3. ASSUME Tail(b) # <<>> PROVE Last(b) = Last(Tail(b))
    <3>1. Len(Tail(b)) > 0 /\ Last(Tail(b)) = Tail(b)[Len(Tail(b))]
      BY <1>3, <2>3, Entries
    <3>2. Tail(b)[Len(Tail(b))] = b[Len(Tail(b)) + 1]
      BY <2>1, <2>2, <3>1
    <3>3. Len(Tail(b)) + 1 = Len(b)
      BY <2>1, <2>2
    <3> QED BY <2>1, <3>1, <3>2, <3>3
  <2>4. ASSUME Tail(b) = <<>> PROVE Last(b) = Head(b)
    <3>1. Len(Tail(b)) = 0
      BY <1>3, <2>4, EmptySeq
    <3>2. Len(b) = 1
      BY <2>1, <2>2, <3>1
    <3> QED BY <2>1, <3>2
  <2> QED BY <2>3, <2>4
<1>8. p # <<>>
  <2>1. Range(p) # {} /\ p \in Seq(Events)
    BY <1>3, <1>6
  <2> HIDE DEF p
  <2> QED BY <2>1, Entries
<1>9. Pending(r)' = p
  BY <1>1, <1>2, <1>5 DEF Pending
<1>10. /\ Range(Pending(r)) = Range(e) \cup Range(b)
       /\ Last(Pending(r)) = Last(b) /\ Pending(r) # <<>>
  BY <1>1, <1>a, PendingSeq
<1>11. Holds(r, link[r].outbox, link[r].request, Tail(b), Append(e, Head(b)))
  BY <1>1, <1>2, <1>5 DEF Holds
<1> HIDE DEF p
<1>12. /\ Last(p) = Last(b) /\ Range(p) = Range(Pending(r))
  BY <1>6, <1>7, <1>10
<1> QED BY <1>1, <1>8, <1>9, <1>10, <1>11, <1>12 DEF b, e

\* The client applies all it has collected.
LEMMA DrainIs ==
    ASSUME ViewTyped, DrainEvents
    PROVE  LET r == view.runner
               es == link[r].events
               shows == "thinking" \in Range(es)
           IN  /\ r \in Runners /\ es # <<>>
               /\ Holds(r, link[r].outbox, link[r].request, link[r].bus, <<>>)
               /\ view' \in Views /\ view'.runner = r
               /\ view'.busy = (Last(es) # "idle")
               /\ view'.shown = IF shows THEN view.shown \o view.queue ELSE view.shown
               /\ view'.queue = IF shows THEN <<>> ELSE view.queue
<1> DEFINE r == view.runner
           es == link[r].events
           c == [link[r] EXCEPT !.events = <<>>]
<1>1. /\ r # 0 /\ es # <<>> /\ view' = Applied(view, es) /\ link' = [link EXCEPT ![r] = c]
  BY DEF DrainEvents
<1>2. r \in Runners
  BY <1>1, ViewsTyped, ConstantsTyped
<1>3. /\ link[r] \in Links /\ link \in [Runners -> Links]
      /\ es \in Seq(Events) /\ <<>> \in Seq(Events) /\ view \in Views
  BY <1>2, LinksTyped DEF ViewTyped
<1>4. /\ c \in Links /\ c.session = link[r].session /\ c.outbox = link[r].outbox
      /\ c.request = link[r].request /\ c.bus = link[r].bus /\ c.events = <<>>
  BY <1>3 DEF Links
<1> HIDE DEF c
<1>5. Holds(r, link[r].outbox, link[r].request, link[r].bus, <<>>)
  BY <1>1, <1>2, <1>3, <1>4 DEF Holds
<1>6. LET w == Applied(view, es)
          shows == "thinking" \in Range(es)
      IN  /\ w \in Views /\ w.runner = view.runner
          /\ w.busy = IF es = <<>> THEN view.busy ELSE Last(es) # "idle"
          /\ w.shown = IF shows THEN view.shown \o view.queue ELSE view.shown
          /\ w.queue = IF shows THEN <<>> ELSE view.queue
  BY <1>3, AppliedIs
<1> QED BY <1>1, <1>2, <1>5, <1>6

\* The steps of the connection.
LEMMA LinkTyped ==
    ASSUME ViewTyped, AttachedOK,
           \/ \E r \in Runners : \/ Forward(r) \/ Deliver(r) \/ TimeOut(r)
                                 \/ Receive(r)
           \/ Drain \/ DrainEvents
    PROVE  ViewTyped'
<1> USE DEF client, daemon, counters, history
<1>1. ASSUME NEW r \in Runners, Forward(r) PROVE ViewTyped'
  <2>1. link' \in [Runners -> Links]
    BY <1>1, ForwardIs DEF Holds
  <2> QED BY <1>1, <2>1 DEF Forward, ViewTyped
<1>2. ASSUME NEW r \in Runners, Deliver(r) PROVE ViewTyped'
  <2>1. link' \in [Runners -> Links] /\ DaemonTyped'
    BY <1>2, DeliverIs DEF Holds
  <2>2. UNCHANGED <<view, saved, composer, written, via, recalled, lagged, sure>>
    BY <1>2 DEF Deliver
  <2> QED BY <2>1, <2>2 DEF ViewTyped, DaemonTyped
<1>3. ASSUME NEW r \in Runners, TimeOut(r) PROVE ViewTyped'
  <2>1. link' \in [Runners -> Links] /\ dropped' \subseteq Messages
    BY <1>3, TimeOutIs DEF Holds
  <2> QED BY <1>3, <2>1 DEF TimeOut, ViewTyped
<1>4. ASSUME NEW r \in Runners, Receive(r) PROVE ViewTyped'
  <2>1. link' \in [Runners -> Links]
    BY <1>4, ReceiveIs DEF Holds
  <2> QED BY <1>4, <2>1 DEF Receive, ViewTyped
<1>5. CASE Drain
  BY <1>5 DEF Drain, ViewTyped
<1>6. CASE DrainEvents
  <2>1. link' \in [Runners -> Links] /\ view' \in Views
    BY <1>6, DrainIs DEF Holds
  <2>2. sure' \in BOOLEAN
    BY <1>6 DEF DrainEvents
  <2> QED BY <1>6, <2>1, <2>2 DEF DrainEvents, ViewTyped
<1> QED BY <1>1, <1>2, <1>3, <1>4, <1>5, <1>6

\* What a step of the driver of s leaves alone, and the event it broadcasts.
Driven(s) ==
    /\ UNCHANGED <<view, saved, composer, written, via, recalled, sure>>
    /\ \A t \in Sessions \ {s} : /\ driver'[t] = driver[t] /\ input'[t] = input[t]
                                 /\ batch'[t] = batch[t] /\ heard'[t] = heard[t]
    /\ DaemonTyped'

\* A driver hears nothing or hears what it broadcasts "thinking" for.
Speaks(s, e) ==
    /\ Driven(s) /\ Emitted(s, e) /\ UNCHANGED dropped
    /\ heard'[s] # heard[s] => e = "thinking"
    /\ driver'[s] \in {"working", "dead"} <=> e # "idle"
    /\ driver'[s] # "dead"

LEMMA TakeIs ==
    ASSUME ViewTyped, NEW s \in Sessions, Take(s)
    PROVE  /\ Driven(s) /\ driver[s] = "idle" /\ driver'[s] = "screening"
           /\ batch'[s] = input[s] /\ input'[s] = <<>> /\ heard' = heard /\ dropped' = dropped
           /\ UNCHANGED <<link, lagged>>
<1> USE DEF client, DriverFrame
<1>1. DaemonTyped /\ <<>> \in Seq(Messages) /\ input[s] \in Seq(Messages)
  BY DEF ViewTyped, DaemonTyped
<1>2. /\ driver[s] = "idle" /\ driver' = [driver EXCEPT ![s] = "screening"]
      /\ batch' = [batch EXCEPT ![s] = input[s]] /\ input' = [input EXCEPT ![s] = <<>>]
      /\ heard' = heard /\ dropped' = dropped /\ UNCHANGED <<link, lagged>>
      /\ UNCHANGED <<view, saved, composer, written, via, recalled, sure>>
  BY DEF Take
<1>3. DaemonTyped'
  BY <1>1, <1>2 DEF DaemonTyped
<1> QED BY <1>1, <1>2, <1>3 DEF Driven, DaemonTyped

LEMMA FailIs ==
    ASSUME ViewTyped, NEW s \in Sessions, Fail(s)
    PROVE  /\ Driven(s) /\ Discarded(s) /\ UNCHANGED <<link, lagged>>
<1> USE DEF client, DriverFrame
<1>1. /\ Discarded(s) /\ UNCHANGED <<link, lagged>>
      /\ UNCHANGED <<view, saved, composer, written, via, recalled, sure>>
  BY DEF Fail, Discarded
<1>2. DaemonTyped'
  BY <1>1, DiscardTyped
<1>3. DaemonTyped
  BY DEF ViewTyped, DaemonTyped
<1> QED BY <1>1, <1>2, <1>3 DEF Driven, Discarded, DaemonTyped

LEMMA BeginIs ==
    ASSUME ViewTyped, NEW s \in Sessions, BeginTurn(s)
    PROVE  /\ Speaks(s, "thinking") /\ heard'[s] = heard[s] \o batch[s] /\ batch'[s] = <<>>
           /\ input' = input /\ driver'[s] = "working"
<1> USE DEF client, DriverFrame
<1>1. DaemonTyped /\ <<>> \in Seq(Messages)
  BY DEF ViewTyped, DaemonTyped
<1>2. heard[s] \o batch[s] \in Seq(Messages)
  BY QueuesTyped, Joined
<1>3. /\ driver' = [driver EXCEPT ![s] = "working"]
      /\ heard' = [heard EXCEPT ![s] = heard[s] \o batch[s]]
      /\ batch' = [batch EXCEPT ![s] = <<>>] /\ input' = input /\ dropped' = dropped
      /\ UNCHANGED <<view, saved, composer, written, via, recalled, sure>>
      /\ Emit(s, "thinking")
  BY DEF BeginTurn, Hear
<1>4. Emitted(s, "thinking")
  BY <1>3, EmitIs DEF Events
<1>5. DaemonTyped'
  BY <1>1, <1>2, <1>3 DEF DaemonTyped
<1>6. Driven(s) /\ driver'[s] = "working" /\ heard'[s] = heard[s] \o batch[s] /\ batch'[s] = <<>>
  BY <1>1, <1>3, <1>5 DEF Driven, DaemonTyped
<1> QED BY <1>3, <1>4, <1>6 DEF Speaks

LEMMA RefuseIs ==
    ASSUME ViewTyped, NEW s \in Sessions, Refuse(s)
    PROVE  /\ Speaks(s, "idle") /\ heard' = heard /\ batch'[s] = <<>> /\ input' = input
<1> USE DEF client, DriverFrame
<1>1. DaemonTyped /\ <<>> \in Seq(Messages)
  BY DEF ViewTyped, DaemonTyped
<1>2. /\ driver' = [driver EXCEPT ![s] = "idle"] /\ heard' = heard
      /\ batch' = [batch EXCEPT ![s] = <<>>] /\ input' = input /\ dropped' = dropped
      /\ UNCHANGED <<view, saved, composer, written, via, recalled, sure>>
      /\ Emit(s, "idle")
  BY DEF Refuse
<1>3. Emitted(s, "idle")
  BY <1>2, EmitIs DEF Events
<1>4. DaemonTyped'
  BY <1>1, <1>2 DEF DaemonTyped
<1>5. Driven(s) /\ driver'[s] = "idle" /\ batch'[s] = <<>>
  BY <1>1, <1>2, <1>4 DEF Driven, DaemonTyped
<1> QED BY <1>2, <1>3, <1>5 DEF Speaks

LEMMA RoundIs ==
    ASSUME ViewTyped, NEW s \in Sessions, Round(s)
    PROVE  /\ Speaks(s, "thinking") /\ batch' = batch /\ driver' = driver
           /\ driver[s] = "working"
           /\ \/ heard'[s] = heard[s] \o input[s] /\ input'[s] = <<>>
              \/ heard' = heard /\ input' = input
<1> USE DEF client, DriverFrame
<1>1. DaemonTyped /\ <<>> \in Seq(Messages)
  BY DEF ViewTyped, DaemonTyped
<1>2. heard[s] \o input[s] \in Seq(Messages)
  BY QueuesTyped, Joined
<1>3. /\ driver[s] = "working" /\ driver' = driver /\ batch' = batch /\ dropped' = dropped
      /\ \/ /\ heard' = [heard EXCEPT ![s] = heard[s] \o input[s]]
            /\ input' = [input EXCEPT ![s] = <<>>]
         \/ heard' = heard /\ input' = input
      /\ UNCHANGED <<view, saved, composer, written, via, recalled, sure>>
      /\ Emit(s, "thinking")
  BY DEF Round, Hear
<1>4. Emitted(s, "thinking")
  BY <1>3, EmitIs DEF Events
<1>5. DaemonTyped'
  BY <1>1, <1>2, <1>3 DEF DaemonTyped
<1>6. Driven(s)
  BY <1>1, <1>3, <1>5 DEF Driven, DaemonTyped
<1>7. \/ heard'[s] = heard[s] \o input[s] /\ input'[s] = <<>>
      \/ heard' = heard /\ input' = input
  BY <1>1, <1>3 DEF DaemonTyped
<1> QED BY <1>3, <1>4, <1>6, <1>7 DEF Speaks

\* A driver that goes on, ends or starts by itself hears nothing.
LEMMA RestIs ==
    ASSUME ViewTyped, NEW s \in Sessions,
           Retry(s) \/ EndTurn(s) \/ Serve(s)
    PROVE  \E e \in Events :
              /\ Speaks(s, e) /\ heard' = heard /\ batch' = batch /\ input' = input
              /\ driver[s] \in {"idle", "working"} /\ driver'[s] \in {"idle", "working"}
              /\ driver[s] = "working" \/ s \in Known
<1> USE DEF client, DriverFrame
<1>1. DaemonTyped
  BY DEF ViewTyped, DaemonTyped
<1>2. \E e \in Events :
         /\ heard' = heard /\ batch' = batch /\ input' = input /\ dropped' = dropped
         /\ UNCHANGED <<view, saved, composer, written, via, recalled, sure>>
         /\ Emit(s, e)
         /\ driver[s] \in {"idle", "working"}
         /\ driver[s] = "working" \/ s \in Known
         /\ driver' = [driver EXCEPT ![s] = IF e = "idle" THEN "idle" ELSE "working"]
  <2>1. driver = [driver EXCEPT ![s] = driver[s]]
    BY <1>1 DEF DaemonTyped
  <2>2. CASE Retry(s)
    <3>1. /\ heard' = heard /\ batch' = batch /\ input' = input /\ dropped' = dropped
          /\ UNCHANGED <<view, saved, composer, written, via, recalled, sure>>
          /\ Emit(s, "reconnecting") /\ driver[s] = "working" /\ driver' = driver
      BY <2>2 DEF Retry
    <3>2. "reconnecting" \in Events /\ "reconnecting" # "idle"
      BY DEF Events
    <3> QED BY <2>1, <3>1, <3>2
  <2>3. CASE EndTurn(s)
    <3>1. /\ heard' = heard /\ batch' = batch /\ input' = input /\ dropped' = dropped
          /\ UNCHANGED <<view, saved, composer, written, via, recalled, sure>>
          /\ Emit(s, "idle") /\ driver[s] = "working"
          /\ driver' = [driver EXCEPT ![s] = "idle"]
      BY <2>3 DEF EndTurn
    <3>2. "idle" \in Events
      BY DEF Events
    <3> QED BY <3>1, <3>2
  <2>4. CASE Serve(s)
    <3>1. /\ heard' = heard /\ batch' = batch /\ input' = input /\ dropped' = dropped
          /\ UNCHANGED <<view, saved, composer, written, via, recalled, sure>>
          /\ driver[s] = "idle" /\ s \in Known
          /\ \/ Emit(s, "idle") /\ driver' = driver
             \/ Emit(s, "thinking") /\ driver' = [driver EXCEPT ![s] = "working"]
      BY <2>4 DEF Serve
    <3>2. "idle" \in Events /\ "thinking" \in Events /\ "thinking" # "idle"
      BY DEF Events
    <3> QED BY <2>1, <3>1, <3>2
  <2> QED BY <2>2, <2>3, <2>4
<1>3. PICK e \in Events :
         /\ heard' = heard /\ batch' = batch /\ input' = input /\ dropped' = dropped
         /\ UNCHANGED <<view, saved, composer, written, via, recalled, sure>>
         /\ Emit(s, e)
         /\ driver[s] \in {"idle", "working"}
         /\ driver[s] = "working" \/ s \in Known
         /\ driver' = [driver EXCEPT ![s] = IF e = "idle" THEN "idle" ELSE "working"]
  BY <1>2
<1>4. Emitted(s, e)
  BY <1>3, EmitIs
<1>5. DaemonTyped'
  BY <1>1, <1>3 DEF DaemonTyped
<1>6. Driven(s) /\ driver'[s] = IF e = "idle" THEN "idle" ELSE "working"
  BY <1>1, <1>3, <1>5 DEF Driven, DaemonTyped
<1>7. Speaks(s, e)
  BY <1>3, <1>4, <1>6 DEF Speaks
<1> QED BY <1>3, <1>6, <1>7

\* A step of the driver of s.
DriverMoves(s) ==
    \/ DriverStep(s) \/ Round(s) \/ Retry(s) \/ Serve(s) \/ Fail(s)

LEMMA DriverMovesIs ==
    ASSUME ViewTyped, NEW s \in Sessions, DriverMoves(s)
    PROVE  \/ Take(s) \/ Fail(s)
           \/ \E e \in Events : Speaks(s, e)
<1>1. /\ BeginTurn(s) => Speaks(s, "thinking")
      /\ Refuse(s) => Speaks(s, "idle")
      /\ Round(s) => Speaks(s, "thinking")
  BY BeginIs, RefuseIs, RoundIs
<1>2. Retry(s) \/ EndTurn(s) \/ Serve(s) => \E e \in Events : Speaks(s, e)
  BY RestIs
<1>3. "thinking" \in Events /\ "idle" \in Events
  BY DEF Events
<1> QED BY <1>1, <1>2, <1>3 DEF DriverMoves, DriverStep

LEMMA DriverTyped ==
    ASSUME ViewTyped, NEW s \in Sessions, DriverMoves(s)
    PROVE  ViewTyped' /\ Driven(s)
<1>1. Driven(s) /\ link' \in [Runners -> Links] /\ lagged' \subseteq Runners
  <2>1. link \in [Runners -> Links] /\ lagged \subseteq Runners
    BY DEF ViewTyped
  <2>2. CASE Take(s)
    BY <2>1, <2>2, TakeIs
  <2>3. CASE Fail(s)
    BY <2>1, <2>3, FailIs
  <2>4. ASSUME NEW e \in Events, Speaks(s, e)
        PROVE  Driven(s) /\ link' \in [Runners -> Links] /\ lagged' \subseteq Runners
    BY <2>4 DEF Speaks, Emitted
  <2> QED BY <2>2, <2>3, <2>4, DriverMovesIs
<1>2. UNCHANGED <<view, saved, composer, written, via, recalled, sure>> /\ DaemonTyped'
  BY <1>1 DEF Driven
<1> QED BY <1>1, <1>2 DEF ViewTyped, DaemonTyped

-----------------------------------------------------------------------------
(* Runners and the sessions they are attached to. *)

\* Only sessions that somebody is attached to move, and a batch is screened.
SessionsMove ==
    /\ \A s \in Sessions \ Known :
          /\ driver'[s] = driver[s] /\ input'[s] = input[s] /\ batch'[s] = batch[s]
          /\ heard'[s] = heard[s]
    /\ \A s \in Sessions : batch'[s] # <<>> => driver'[s] = "screening"

LEMMA SessionsRest ==
    ASSUME ViewTyped, AttachedOK, UNCHANGED <<input, batch, driver, heard>>
    PROVE  SessionsMove
BY DEF SessionsMove, AttachedOK

\* The way of a message through view.runner, which stays.
LEMMA AttachedKept ==
    ASSUME ViewTyped, ViewTyped', AttachedOK, SessionsMove,
           \A r \in Runners : /\ link'[r].session = link[r].session
                              /\ link[r].session = NoSession => link'[r] = link[r],
           view'.runner \in {0, view.runner, saved.runner},
           saved'.runner # 0 => saved'.runner = saved.runner /\ view'.runner = view.runner,
           \A m \in Messages : via'[m] # 0 =>
              \/ via'[m] = via[m] /\ m <= written'
              \/ via'[m] = view.runner /\ m <= written'
    PROVE  AttachedOK'
<1>1. Known' = Known
  BY DEF Known
<1>2. \A r \in Runners : link'[r].session = NoSession => link'[r] = Unused
  BY DEF AttachedOK
<1>3. /\ view.runner \in 0..MaxRunners /\ saved.runner \in 0..MaxRunners
      /\ \A m \in Messages : via[m] \in 0..MaxRunners
  BY ViewsTyped DEF ViewTyped
<1>4. view'.runner # 0 => link'[view'.runner].session # NoSession
  BY <1>3, ConstantsTyped DEF AttachedOK
<1>5. saved'.runner # 0 => /\ link'[saved'.runner].session # NoSession
                           /\ view'.runner # 0 /\ view'.runner # saved'.runner
  BY <1>3, ConstantsTyped DEF AttachedOK
<1>6. \A m \in Messages : via'[m] # 0 => m <= written' /\ link'[via'[m]].session # NoSession
  <2> SUFFICES ASSUME NEW m \in Messages, via'[m] # 0
               PROVE  m <= written' /\ link'[via'[m]].session # NoSession
    OBVIOUS
  <2>1. CASE via'[m] = via[m] /\ m <= written'
    <3>1. via[m] \in Runners /\ link[via[m]].session # NoSession
      BY <1>3, <2>1, ConstantsTyped DEF AttachedOK
    <3> QED BY <2>1, <3>1
  <2>2. CASE via'[m] = view.runner /\ m <= written'
    <3>1. view.runner \in Runners /\ link[view.runner].session # NoSession
      BY <1>3, <2>2, ConstantsTyped DEF AttachedOK
    <3> QED BY <2>2, <3>1
  <2> QED BY <2>1, <2>2
<1>7. \A s \in Sessions \ Known :
         driver'[s] = "idle" /\ input'[s] = <<>> /\ batch'[s] = <<>> /\ heard'[s] = <<>>
  BY DEF AttachedOK, SessionsMove
<1>8. \A s \in Sessions : batch'[s] # <<>> => driver'[s] = "screening"
  BY DEF SessionsMove
<1> QED BY <1>1, <1>2, <1>4, <1>5, <1>6, <1>7, <1>8 DEF AttachedOK

\* A runner r that was not used is attached to s and the client takes it.
Seats(r, s) ==
    /\ r \in Runners /\ link[r] = Unused /\ s \in Sessions
    /\ link'[r].session = s /\ link'[r].bus = <<>> /\ link'[r].events = <<>>
    /\ link'[r].request = 0
    /\ \A q \in Runners : q # r =>
          /\ link'[q].session = link[q].session /\ link'[q].request = link[q].request
          /\ link'[q].bus = link[q].bus /\ link'[q].events = link[q].events
          /\ link'[q].outbox = link[q].outbox
          /\ link[q].session = NoSession => link'[q] = link[q]
    /\ view'.runner = r

LEMMA SeatsIs ==
    ASSUME ViewTyped, AttachedOK, NEW s \in Sessions, CanAttach,
           link' = Attached(s), view'.runner = NextRunner
    PROVE  Seats(NextRunner, s) /\ link'[NextRunner].outbox = <<>>
<1>1. Joins(NextRunner, s, Attached(s))
  BY AttachedIs
<1> HIDE DEF Attached
<1>2. Joins(NextRunner, s, link')
  BY <1>1
<1> QED BY <1>2, UnusedIs DEF Joins, Seats

LEMMA AttachedGrows ==
    ASSUME ViewTyped, ViewTyped', AttachedOK, SessionsMove,
           NEW r, NEW s, Seats(r, s),
           saved'.runner # 0 => saved'.runner \in {view.runner, saved.runner},
           \A m \in Messages : via'[m] # 0 => via'[m] \in {via[m], r} /\ m <= written'
    PROVE  AttachedOK'
<1>1. /\ r \in Runners /\ link[r].session = NoSession /\ s \in Sessions /\ s # NoSession
      /\ link'[r].session = s /\ view'.runner = r
  BY ConstantsTyped, UnusedIs DEF Seats
<1>2. \A q \in Runners : q # r => /\ link'[q].session = link[q].session
                                  /\ link[q].session = NoSession => link'[q] = link[q]
  BY DEF Seats
<1>3. \A q \in Runners : link'[q].session = NoSession => link'[q] = Unused
  BY <1>1, <1>2 DEF AttachedOK
<1>4. /\ view.runner \in 0..MaxRunners /\ saved.runner \in 0..MaxRunners
      /\ \A m \in Messages : via[m] \in 0..MaxRunners
  BY ViewsTyped DEF ViewTyped
<1>5. view'.runner # 0 /\ link'[view'.runner].session # NoSession
  BY <1>1, ConstantsTyped
<1>6. saved'.runner # 0 => /\ link'[saved'.runner].session # NoSession
                           /\ view'.runner # saved'.runner
  <2> SUFFICES ASSUME saved'.runner # 0
               PROVE  link'[saved'.runner].session # NoSession /\ view'.runner # saved'.runner
    OBVIOUS
  <2>1. saved'.runner \in Runners /\ link[saved'.runner].session # NoSession
    BY <1>4, ConstantsTyped DEF AttachedOK
  <2> QED BY <1>1, <1>2, <2>1
<1>7. ASSUME NEW m \in Messages, via'[m] # 0
      PROVE  m <= written' /\ link'[via'[m]].session # NoSession
  <2>1. CASE via'[m] = r
    BY <1>1, <1>7, <2>1
  <2>2. CASE via'[m] = via[m]
    <3>1. via[m] \in Runners /\ link[via[m]].session # NoSession
      BY <1>4, <1>7, <2>2, ConstantsTyped DEF AttachedOK
    <3> QED BY <1>1, <1>2, <1>7, <2>2, <3>1
  <2> QED BY <1>7, <2>1, <2>2
<1>8. Known \subseteq Known'
  <2>1. \A q \in Runners : link[q].session # NoSession => link'[q].session = link[q].session
    BY <1>1, <1>2
  <2> QED BY <2>1 DEF Known
<1>9. \A t \in Sessions \ Known' :
         driver'[t] = "idle" /\ input'[t] = <<>> /\ batch'[t] = <<>> /\ heard'[t] = <<>>
  BY <1>8 DEF AttachedOK, SessionsMove
<1>10. \A t \in Sessions : batch'[t] # <<>> => driver'[t] = "screening"
  BY DEF SessionsMove
<1> QED BY <1>3, <1>5, <1>6, <1>7, <1>9, <1>10 DEF AttachedOK

LEMMA CurrentKnown ==
    ASSUME ViewTyped, AttachedOK, NEW r \in Runners,
           link[r].session \in Sessions
    PROVE  link[r].session \in Known
BY ConstantsTyped DEF Known

LEMMA ForkMoves ==
    ASSUME ViewTyped, AttachedOK, InSide, DiscardFork
    PROVE  SessionsMove
<1> DEFINE s == Current
<1>1. s \in Sessions /\ Discarded(s)
  BY ForkIs
<1>2. s \in Known
  <2>1. view.runner # 0
    BY DEF AttachedOK, InSide
  <2> QED BY <2>1, CurrentIs, CurrentKnown
<1> HIDE DEF s
<1>3. \A t \in Sessions \ {s} : /\ driver'[t] = driver[t] /\ input'[t] = input[t]
                                /\ batch'[t] = batch[t] /\ heard'[t] = heard[t]
  BY <1>1 DEF Discarded, ViewTyped
<1>4. batch'[s] = <<>>
  BY <1>1 DEF Discarded, ViewTyped
<1> QED BY <1>1, <1>2, <1>3, <1>4 DEF SessionsMove, AttachedOK

LEMMA OpenSideMoves ==
    ASSUME ViewTyped, AttachedOK, EndOpenSide
    PROVE  SessionsMove
<1>1. CASE InSide
  BY <1>1, ForkMoves DEF EndOpenSide
<1>2. CASE ~InSide
  BY <1>2, SessionsRest DEF EndOpenSide, daemon
<1> QED BY <1>1, <1>2

LEMMA ViaKept ==
    ASSUME ViewTyped, AttachedOK, via' = via, written' = written
    PROVE  \A m \in Messages : via'[m] # 0 => via'[m] = via[m] /\ m <= written'
BY DEF AttachedOK

LEMMA AttachedByChoice ==
    ASSUME ViewTyped, ViewTyped', AttachedOK,
           \/ AttachForDisplay \/ EnterSide \/ EndSide \/ NewSession
           \/ \E s \in Sessions : Resume(s)
    PROVE  AttachedOK'
<1> USE DEF client, daemon, counters, history
<1>1. CASE AttachForDisplay
  <2>1. PICK s \in Sessions : Seats(NextRunner, s)
    <3>1. PICK s \in Fresh : link' = Attached(s)
      BY <1>1 DEF AttachForDisplay
    <3>2. view'.runner = NextRunner /\ CanAttach /\ s \in Sessions
      BY <1>1, ViewsTyped DEF AttachForDisplay, Fresh, ViewTyped, Views
    <3> QED BY <3>1, <3>2, SeatsIs
  <2>2. UNCHANGED <<saved, input, batch, driver, heard, via, written>>
    BY <1>1 DEF AttachForDisplay
  <2> QED BY <2>1, <2>2, AttachedGrows, SessionsRest, ViaKept
<1>2. CASE EnterSide
  <2>1. PICK s \in Sessions : Seats(NextRunner, s)
    <3>1. PICK s \in Fresh : link' = Attached(s)
      BY <1>2 DEF EnterSide
    <3>2. view'.runner = NextRunner /\ CanAttach /\ s \in Sessions
      BY <1>2, ViewsTyped DEF EnterSide, Fresh, ViewTyped, Views
    <3> QED BY <3>1, <3>2, SeatsIs
  <2>2. UNCHANGED <<input, batch, driver, heard, via, written>> /\ saved' = view
    BY <1>2 DEF EnterSide
  <2> QED BY <2>1, <2>2, AttachedGrows, SessionsRest, ViaKept
<1>3. CASE EndSide
  <2>1. SessionsMove
    BY <1>3, ForkMoves DEF EndSide
  <2>2. UNCHANGED <<link, via, written>> /\ view'.runner = saved.runner /\ saved'.runner = 0
    BY <1>3, ViewsTyped DEF EndSide, Restored, Blank, ViewTyped, Views
  <2> QED BY <2>1, <2>2, AttachedKept, ViaKept
<1>4. CASE NewSession
  <2>1. SessionsMove
    BY <1>4, OpenSideMoves DEF NewSession
  <2>2. UNCHANGED <<link, via, written>> /\ view'.runner = 0 /\ saved'.runner = 0
    BY <1>4 DEF NewSession, Blank
  <2> QED BY <2>1, <2>2, AttachedKept, ViaKept
<1>5. ASSUME NEW s \in Sessions, Resume(s) PROVE AttachedOK'
  <2>1. SessionsMove
    BY <1>5, OpenSideMoves DEF Resume
  <2>2. /\ link' = Attached(s) /\ view'.runner = NextRunner /\ CanAttach
        /\ UNCHANGED <<via, written>> /\ saved'.runner = 0
    BY <1>5 DEF Resume, Blank
  <2>3. Seats(NextRunner, s)
    BY <2>2, SeatsIs
  <2> QED BY <2>1, <2>2, <2>3, AttachedGrows, ViaKept
<1> QED BY <1>1, <1>2, <1>3, <1>4, <1>5

LEMMA AttachedByMessage ==
    ASSUME ViewTyped, ViewTyped', AttachedOK, ShownOK,
           Submit \/ Recall \/ CommitCompact
    PROVE  AttachedOK'
<1> USE DEF client, daemon, counters, history
<1>1. CASE Submit
  <2> DEFINE m == Submitted
  <2>1. PICK r \in 0..MaxRunners, l \in [Runners -> Links], sent \in BOOLEAN :
              /\ Dispatched(m, r, l, sent)
              /\ \/ r = view.runner /\ l = link
                 \/ view.runner = 0 /\ \E s \in Sessions \ Known : Joins(r, s, l)
    BY <1>1, SubmitIs
  <2>2. UNCHANGED <<saved, input, batch, driver, heard>>
    BY <1>1 DEF Submit
  <2>3. m \in Messages /\ m <= written' /\ written <= written'
    <3>1. m \in Messages /\ written' = IF composer # 0 THEN written ELSE written + 1
      BY <1>1 DEF Submit
    <3> QED BY <3>1, SubmittedIs
  <2> HIDE DEF m
  <2>4. \A n \in Messages : via'[n] # 0 =>
           (via'[n] = via[n] \/ via'[n] = r) /\ n <= written'
    <3> SUFFICES ASSUME NEW n \in Messages, via'[n] # 0
                 PROVE  (via'[n] = via[n] \/ via'[n] = r) /\ n <= written'
      OBVIOUS
    <3>1. via'[n] = IF sent /\ n = m THEN r ELSE via[n]
      BY <2>1 DEF Dispatched
    <3>2. via[n] # 0 => n <= written
      BY DEF AttachedOK
    <3>3. n \in Nat /\ written \in Nat /\ written' \in Nat
      BY ConstantsTyped DEF ViewTyped
    <3> QED BY <2>3, <3>1, <3>2, <3>3
  <2>5. view'.runner = r /\ saved'.runner = saved.runner
    BY <2>1, <2>2 DEF Dispatched
  <2>6. \A q \in Runners :
           /\ link'[q].session = l[q].session /\ link'[q].request = l[q].request
           /\ link'[q].bus = l[q].bus /\ link'[q].events = l[q].events
           /\ q # r => link'[q] = l[q]
    BY <2>1 DEF Dispatched
  <2>7. CASE r = view.runner /\ l = link
    <3>1. \A q \in Runners : link[q].session = NoSession => link'[q] = link[q]
      <4> SUFFICES ASSUME NEW q \in Runners, link[q].session = NoSession
                   PROVE  link'[q] = link[q]
        OBVIOUS
      <4>1. view.runner # q
        BY ConstantsTyped DEF AttachedOK
      <4> QED BY <2>6, <2>7, <4>1
    <3>2. \A q \in Runners : link'[q].session = link[q].session
      BY <2>6, <2>7
    <3>3. SessionsMove
      BY <2>2, SessionsRest
    <3>4. \A n \in Messages : via'[n] # 0 =>
             \/ via'[n] = via[n] /\ n <= written'
             \/ via'[n] = view.runner /\ n <= written'
      BY <2>4, <2>7
    <3> QED BY <2>5, <2>7, <3>1, <3>2, <3>3, <3>4, AttachedKept
  <2>8. ASSUME view.runner = 0, NEW s \in Sessions, Joins(r, s, l)
        PROVE  AttachedOK'
    <3>1. Seats(r, s)
      <4>1. /\ r \in Runners /\ link[r] = Unused /\ l[r].session = s
            /\ l[r].bus = <<>> /\ l[r].events = <<>> /\ l[r].request = 0
            /\ \A q \in Runners : q # r => l[q] = link[q]
        BY <2>8, UnusedIs DEF Joins
      <4> QED BY <2>5, <2>6, <2>8, <4>1 DEF Seats
    <3>2. SessionsMove
      BY <2>2, SessionsRest
    <3>3. \A n \in Messages : via'[n] # 0 => via'[n] \in {via[n], r} /\ n <= written'
      BY <2>4
    <3> QED BY <2>5, <3>1, <3>2, <3>3, AttachedGrows
  <2> QED BY <2>1, <2>7, <2>8
<1>2. CASE Recall
  <2>1. UNCHANGED <<link, via, written, saved, input, batch, driver, heard>>
    BY <1>2 DEF Recall
  <2>2. view'.runner = view.runner
    BY <1>2, RecallIs
  <2> QED BY <2>1, <2>2, AttachedKept, SessionsRest, ViaKept
<1>3. CASE CommitCompact
  <2> DEFINE r == NextRunner
  <2>1. PICK s \in Sessions : Committed(written + 1, r, s)
    BY <1>3, CommitIs
  <2> HIDE DEF r
  <2>2. UNCHANGED <<saved, input, batch, driver, heard>>
    BY <1>3 DEF CommitCompact
  <2>3. Seats(r, s)
    BY <2>1 DEF Committed, Seats
  <2>4. \A m \in Messages : via'[m] # 0 => via'[m] \in {via[m], r} /\ m <= written'
    <3> SUFFICES ASSUME NEW m \in Messages, via'[m] # 0
                 PROVE  via'[m] \in {via[m], r} /\ m <= written'
      OBVIOUS
    <3>1. via'[m] = IF m = written + 1 THEN r ELSE via[m]
      <4>1. via' = [via EXCEPT ![written + 1] = r]
        BY <2>1 DEF Committed
      <4>2. via \in [Messages -> 0..MaxRunners]
        BY DEF ViewTyped
      <4> QED BY <4>1, <4>2
    <3>2. written' = written + 1 /\ m \in Nat /\ written \in Nat
      <4>1. written' = written + 1
        BY <2>1 DEF Committed
      <4>2. written \in 0..MaxMessages
        BY DEF ViewTyped
      <4> QED BY <4>1, <4>2, ConstantsTyped
    <3>3. via[m] # 0 => m <= written
      BY DEF AttachedOK
    <3> QED BY <3>1, <3>2, <3>3
  <2> QED BY <2>2, <2>3, <2>4, AttachedGrows, SessionsRest
<1> QED BY <1>1, <1>2, <1>3

LEMMA AttachedByLink ==
    ASSUME ViewTyped, ViewTyped', AttachedOK,
           \/ \E r \in Runners : \/ Forward(r) \/ Deliver(r) \/ TimeOut(r)
                                 \/ Receive(r)
           \/ Drain \/ DrainEvents
    PROVE  AttachedOK'
<1> USE DEF client, daemon, counters, history
<1>1. ASSUME NEW r \in Runners, NEW out, NEW req, NEW bus, NEW es,
             Holds(r, out, req, bus, es), link[r].session # NoSession,
             SessionsMove, UNCHANGED <<saved, via, written>>, view'.runner = view.runner
      PROVE  AttachedOK'
  <2>1. \A q \in Runners : /\ link'[q].session = link[q].session
                           /\ link[q].session = NoSession => link'[q] = link[q]
    BY <1>1 DEF Holds
  <2> QED BY <1>1, <2>1, AttachedKept, ViaKept
<1>2. ASSUME NEW r \in Runners,
             link[r].request # 0 \/ link[r].outbox # <<>> \/ link[r].bus # <<>> \/ link[r].events # <<>>
      PROVE  link[r].session # NoSession
  BY <1>2, UnusedIs DEF AttachedOK
<1>3. ASSUME NEW r \in Runners, Forward(r) PROVE AttachedOK'
  <2>1. UNCHANGED <<view, saved, via, written, input, batch, driver, heard>>
    BY <1>3 DEF Forward
  <2> QED BY <1>1, <1>2, <1>3, <2>1, ForwardIs, SessionsRest
<1>4. ASSUME NEW r \in Runners, Deliver(r) PROVE AttachedOK'
  <2> DEFINE s == link[r].session
             m == link[r].request
  <2>1. /\ s \in Sessions
        /\ Accepted(s, m) \/ Lost(m)
        /\ Holds(r, link[r].outbox, 0, link[r].bus, link[r].events)
    BY <1>4, DeliverIs
  <2>2. UNCHANGED <<view, saved, via, written, batch, driver, heard>>
    BY <1>4 DEF Deliver
  <2>3. s \in Known /\ s # NoSession
    BY <2>1, CurrentKnown, ConstantsTyped
  <2> HIDE DEF m
  <2>4. \A t \in Sessions \ {s} : input'[t] = input[t]
    BY <2>1 DEF Accepted, Lost, ViewTyped
  <2>5. SessionsMove
    BY <2>2, <2>3, <2>4 DEF SessionsMove, AttachedOK
  <2> QED BY <1>1, <2>1, <2>2, <2>3, <2>5
<1>5. ASSUME NEW r \in Runners, TimeOut(r) PROVE AttachedOK'
  <2>1. UNCHANGED <<view, saved, via, written, input, batch, driver, heard>> /\ link[r].request # 0
    BY <1>5 DEF TimeOut
  <2> QED BY <1>1, <1>2, <1>5, <2>1, TimeOutIs, SessionsRest
<1>6. ASSUME NEW r \in Runners, Receive(r) PROVE AttachedOK'
  <2>1. UNCHANGED <<view, saved, via, written, input, batch, driver, heard>> /\ link[r].bus # <<>>
    BY <1>6 DEF Receive
  <2> QED BY <1>1, <1>2, <1>6, <2>1, ReceiveIs, SessionsRest
<1>7. CASE Drain
  <2>1. UNCHANGED <<view, link, saved, via, written, input, batch, driver, heard>>
    BY <1>7 DEF Drain
  <2> QED BY <2>1, AttachedKept, ViaKept, SessionsRest
<1>8. CASE DrainEvents
  <2>1. UNCHANGED <<saved, via, written, input, batch, driver, heard>>
    BY <1>8 DEF DrainEvents
  <2> QED BY <1>1, <1>2, <1>8, <2>1, DrainIs, SessionsRest
<1> QED BY <1>3, <1>4, <1>5, <1>6, <1>7, <1>8

LEMMA DriverKnown ==
    ASSUME ViewTyped, AttachedOK, NEW s \in Sessions, DriverMoves(s)
    PROVE  s \in Known
<1>1. s \notin Known => driver[s] = "idle" /\ input[s] = <<>>
  BY DEF AttachedOK
<1>2. Take(s) => input[s] # <<>>
  BY DEF Take
<1>3. BeginTurn(s) \/ Refuse(s) \/ EndTurn(s) \/ Round(s) \/ Retry(s) \/ Fail(s)
        => driver[s] # "idle"
  BY DEF BeginTurn, Refuse, EndTurn, Round, Retry, Fail
<1>4. Serve(s) => s \in Known
  BY DEF Serve
<1> QED BY <1>1, <1>2, <1>3, <1>4 DEF DriverMoves, DriverStep

LEMMA AttachedByDriver ==
    ASSUME ViewTyped, ViewTyped', AttachedOK, NEW s \in Sessions,
           DriverMoves(s)
    PROVE  AttachedOK'
<1>1. s \in Known /\ Driven(s)
  BY DriverKnown, DriverTyped
<1>2. \A r \in Runners : /\ link'[r].session = link[r].session
                         /\ link[r].session = NoSession => link'[r] = link[r]
  <2>1. ASSUME NEW e \in Events, Speaks(s, e)
        PROVE  \A r \in Runners : /\ link'[r].session = link[r].session
                                  /\ link[r].session = NoSession => link'[r] = link[r]
    BY <2>1, ConstantsTyped DEF Speaks, Emitted
  <2> QED BY <2>1, DriverMovesIs, TakeIs, FailIs
<1>3. batch'[s] # <<>> => driver'[s] = "screening"
  <2>1. batch[s] # <<>> => driver[s] = "screening"
    BY DEF AttachedOK
  <2>2. CASE Take(s)
    BY <2>2, TakeIs
  <2>3. CASE Fail(s)
    <3>1. batch' = [batch EXCEPT ![s] = <<>>]
      BY <2>3, FailIs DEF Discarded
    <3>2. batch \in [Sessions -> Seq(Messages)]
      BY DEF ViewTyped
    <3> QED BY <3>1, <3>2
  <2>4. CASE BeginTurn(s)
    BY <2>4, BeginIs
  <2>5. CASE Refuse(s)
    BY <2>5, RefuseIs
  <2>6. CASE Round(s)
    BY <2>1, <2>6, RoundIs
  <2>7. CASE Retry(s) \/ EndTurn(s) \/ Serve(s)
    BY <2>1, <2>7, RestIs
  <2> QED BY <2>2, <2>3, <2>4, <2>5, <2>6, <2>7 DEF DriverMoves, DriverStep
<1>4. SessionsMove
  BY <1>1, <1>3 DEF SessionsMove, AttachedOK, Driven
<1>5. UNCHANGED <<view, saved, via, written>>
  BY <1>1 DEF Driven
<1> QED BY <1>2, <1>4, <1>5, AttachedKept, ViaKept

-----------------------------------------------------------------------------
(* What a view shows and queues. *)

LEMMA ShownSteps ==
    ASSUME NEW S \in Seq(Messages), NEW Q \in Seq(Messages), NEW n \in Nat,
           ShownOnce(S, Q, n)
    PROVE  /\ \A k \in Nat : k >= n => ShownOnce(S, Q, k)
           /\ ShownOnce(S, <<>>, n) /\ ShownOnce(<<>>, <<>>, n)
           /\ ShownOnce(S \o Q, <<>>, n)
           /\ Range(S \o Q) = Range(S) \cup Range(Q)
           /\ \A k \in Nat, m \in Messages :
                 k >= n /\ m \in 1..k /\ m \notin Range(S) \cup Range(Q) =>
                    ShownOnce(Append(S, m), Q, k) /\ ShownOnce(S, Append(Q, m), k)
<1>1. /\ Once(S, Messages) /\ Once(Q, Messages)
      /\ Range(S) \cap Range(Q) = {}
      /\ Range(S) \cup Range(Q) \subseteq 1..n
  BY DEF ShownOnce
<1>2. Once(<<>>, Messages) /\ Range(<<>>) = {}
  BY DEF Once, Range
<1>3. ASSUME NEW k \in Nat, k >= n PROVE 1..n \subseteq 1..k
  BY <1>3
<1>4. \A k \in Nat : k >= n => ShownOnce(S, Q, k)
  BY <1>1, <1>3 DEF ShownOnce
<1>5. ShownOnce(S, <<>>, n) /\ ShownOnce(<<>>, <<>>, n)
  BY <1>1, <1>2 DEF ShownOnce
<1>6. /\ Range(S \o Q) = Range(S) \cup Range(Q)
      /\ Once(S \o Q, Messages)
  <2>1. Range(S) \cap Range(Q) \cap Messages = {}
    BY <1>1
  <2> QED BY <1>1, <2>1, Joined
<1>7. ShownOnce(S \o Q, <<>>, n)
  BY <1>1, <1>2, <1>6 DEF ShownOnce
<1>8. ASSUME NEW k \in Nat, NEW m \in Messages, k >= n, m \in 1..k,
             m \notin Range(S) \cup Range(Q)
      PROVE  ShownOnce(Append(S, m), Q, k) /\ ShownOnce(S, Append(Q, m), k)
  <2>1. /\ Range(Append(S, m)) = Range(S) \cup {m}
        /\ Once(Append(S, m), Messages)
    BY <1>1, <1>8, Appended
  <2>2. /\ Range(Append(Q, m)) = Range(Q) \cup {m}
        /\ Once(Append(Q, m), Messages)
    BY <1>1, <1>8, Appended
  <2>3. Range(S) \cup Range(Q) \cup {m} \subseteq 1..k
    BY <1>1, <1>3, <1>8
  <2> QED BY <1>1, <1>8, <2>1, <2>2, <2>3 DEF ShownOnce
<1> QED BY <1>4, <1>5, <1>6, <1>7, <1>8

LEMMA BlankShown ==
    /\ Blank.shown = <<>> /\ Blank.queue = <<>> /\ Blank.runner = 0
    /\ Blank.busy = FALSE
    /\ \A n \in Nat : ShownOnce(<<>>, <<>>, n)
<1>1. Once(<<>>, Messages) /\ Range(<<>>) = {}
  BY DEF Once, Range
<1> QED BY <1>1 DEF Blank, ShownOnce

LEMMA ShownByChoice ==
    ASSUME ViewTyped, ShownOK,
           \/ AttachForDisplay \/ EnterSide \/ EndSide \/ NewSession
           \/ \E s \in Sessions : Resume(s)
    PROVE  ShownOK'
<1> USE DEF client, daemon, counters, history
<1>1. view \in Views /\ saved \in Views /\ written \in Nat
  BY ConstantsTyped DEF ViewTyped
<1>2. /\ ShownOnce(view.shown, view.queue, written) /\ ShownOnce(saved.shown, saved.queue, written)
      /\ ShownOnce(view.shown, <<>>, written) /\ ShownOnce(<<>>, <<>>, written)
  <2>1. view.shown \in Seq(Messages) /\ view.queue \in Seq(Messages)
    BY ViewsTyped
  <2> QED BY <1>1, <2>1, ShownSteps DEF ShownOK
<1>3. CASE AttachForDisplay
  <2>1. /\ view'.shown = view.shown /\ view'.queue = view.queue
        /\ UNCHANGED <<saved, composer, recalled, written>>
    BY <1>1, <1>3 DEF AttachForDisplay, Views
  <2> QED BY <2>1 DEF ShownOK
<1>4. CASE EnterSide
  <2>1. view'.shown = view.shown /\ view'.queue = <<>>
    BY <1>1, <1>4 DEF EnterSide, Views
  <2>2. composer' = 0 /\ saved' = view /\ written' = written
    BY <1>4 DEF EnterSide
  <2> QED BY <1>2, <2>1, <2>2 DEF ShownOK
<1>5. CASE EndSide
  <2>1. view'.shown = saved.shown /\ view'.queue = saved.queue
    BY <1>1, <1>5 DEF EndSide, Restored, Views
  <2>2. composer' = 0 /\ saved' = Blank /\ written' = written
    BY <1>5 DEF EndSide
  <2> QED BY <1>2, <2>1, <2>2, BlankShown DEF ShownOK
<1>6. CASE NewSession
  <2>1. view'.shown = <<>> /\ view'.queue = <<>>
    BY <1>6 DEF NewSession, Blank
  <2>2. composer' = 0 /\ saved' = Blank /\ written' = written
    BY <1>6 DEF NewSession
  <2> QED BY <1>2, <2>1, <2>2, BlankShown DEF ShownOK
<1>7. ASSUME NEW s \in Sessions, Resume(s) PROVE ShownOK'
  <2>1. view'.shown = <<>> /\ view'.queue = <<>>
    BY <1>7 DEF Resume, Blank
  <2>2. composer' = 0 /\ saved' = Blank /\ written' = written
    BY <1>7 DEF Resume
  <2> QED BY <1>2, <2>1, <2>2, BlankShown DEF ShownOK
<1> QED BY <1>3, <1>4, <1>5, <1>6, <1>7

LEMMA ShownByMessage ==
    ASSUME ViewTyped, AttachedOK, ShownOK,
           Submit \/ Recall \/ CommitCompact
    PROVE  ShownOK'
<1> USE DEF client, daemon, counters, history
<1>1. /\ view.shown \in Seq(Messages) /\ view.queue \in Seq(Messages)
      /\ saved.shown \in Seq(Messages) /\ saved.queue \in Seq(Messages)
      /\ written \in Nat
  BY ViewsTyped, ConstantsTyped DEF ViewTyped
<1>2. /\ ShownOnce(view.shown, view.queue, written) /\ ShownOnce(saved.shown, saved.queue, written)
      /\ \A k \in Nat : k >= written => ShownOnce(saved.shown, saved.queue, k)
  BY <1>1, ShownSteps DEF ShownOK
<1>3. CASE Submit
  <2> DEFINE m == Submitted
  <2>1. PICK r \in 0..MaxRunners, l \in [Runners -> Links], sent \in BOOLEAN :
              Dispatched(m, r, l, sent)
    BY <1>3, SubmitIs
  <2>2. /\ m \in Messages /\ composer' = 0 /\ saved' = saved
        /\ written' = IF composer # 0 THEN written ELSE written + 1
    BY <1>3 DEF Submit
  <2>3. /\ written' \in Nat /\ written' >= written /\ m \in 1..written'
        /\ composer = 0 => m = written + 1
        /\ composer # 0 => m = composer
    BY <1>1, <2>2, SubmittedIs
  <2>4. m \notin Range(view.shown) \cup Range(view.queue)
    <3>1. CASE composer # 0
      BY <2>3, <3>1 DEF ShownOK
    <3>2. CASE composer = 0
      <4>1. m \notin 1..written
        BY <1>1, <2>3, <3>2
      <4> QED BY <1>2, <4>1 DEF ShownOnce
    <3> QED BY <3>1, <3>2
  <2> HIDE DEF m
  <2>5. /\ ShownOnce(Append(view.shown, m), view.queue, written')
        /\ ShownOnce(view.shown, Append(view.queue, m), written')
    BY <1>1, <1>2, <2>2, <2>3, <2>4, ShownSteps
  <2>6. /\ view'.queue = IF view.busy THEN Append(view.queue, m) ELSE view.queue
        /\ view'.shown = IF view.busy THEN view.shown ELSE Append(view.shown, m)
    BY <2>1 DEF Dispatched
  <2>7. ShownOnce(view'.shown, view'.queue, written')
    BY <2>5, <2>6
  <2> QED BY <1>2, <2>2, <2>3, <2>7 DEF ShownOK
<1>4. CASE Recall
  <2>1. /\ view'.shown = view.shown /\ composer' \in Messages
        /\ recalled' = recalled \cup {composer'} /\ composer' \in Range(view.queue)
        /\ Range(view.queue) = Range(view'.queue) \cup {composer'}
        /\ Once(view.queue, Messages) =>
              Once(view'.queue, Messages) /\ composer' \notin Range(view'.queue)
    BY <1>4, RecallIs
  <2>2. saved' = saved /\ written' = written
    BY <1>4 DEF Recall
  <2>3. /\ Once(view.shown, Messages) /\ Once(view.queue, Messages)
        /\ Range(view.shown) \cap Range(view.queue) = {}
        /\ Range(view.shown) \cup Range(view.queue) \subseteq 1..written
    BY <1>2 DEF ShownOnce
  <2>4. ShownOnce(view'.shown, view'.queue, written')
    BY <2>1, <2>2, <2>3 DEF ShownOnce
  <2>5. composer' \in recalled' /\ composer' \notin Range(view'.shown) \cup Range(view'.queue)
    BY <2>1, <2>3
  <2>6. composer' <= written'
    <3>1. composer' \in 1..written
      BY <2>1, <2>3
    <3> QED BY <1>1, <2>2, <3>1
  <2> QED BY <1>2, <2>2, <2>4, <2>5, <2>6 DEF ShownOK
<1>5. CASE CommitCompact
  <2>1. PICK s \in Sessions : Committed(written + 1, NextRunner, s)
    BY <1>5, CommitIs
  <2> DEFINE m == written + 1
  <2>2. /\ view'.queue = <<>> /\ view'.shown = <<m>> /\ written' = m
    BY <2>1 DEF Committed
  <2>3. composer' = 0 /\ saved' = saved
    BY <1>5 DEF CommitCompact
  <2>4. ShownOnce(<<m>>, <<>>, m)
    <3>1. Range(<<m>>) = {m} /\ Once(<<m>>, Messages) /\ m \in 1..m
      BY <1>1 DEF Range, Once
    <3>2. Range(<<>>) = {} /\ Once(<<>>, Messages)
      BY DEF Range, Once
    <3> QED BY <3>1, <3>2 DEF ShownOnce
  <2>5. ShownOnce(saved.shown, saved.queue, m)
    BY <1>1, <1>2
  <2> QED BY <2>2, <2>3, <2>4, <2>5 DEF ShownOK
<1> QED BY <1>3, <1>4, <1>5

LEMMA ShownByClient ==
    ASSUME ViewTyped, ShownOK, DrainEvents
    PROVE  /\ ShownOK'
           /\ Range(view'.shown) \cup Range(view'.queue) =
              Range(view.shown) \cup Range(view.queue)
           /\ Range(view.shown) \subseteq Range(view'.shown)
<1>1. /\ view.shown \in Seq(Messages) /\ view.queue \in Seq(Messages)
      /\ written \in Nat
  BY ViewsTyped, ConstantsTyped DEF ViewTyped
<1>2. /\ ShownOnce(view.shown, view.queue, written)
      /\ ShownOnce(view.shown \o view.queue, <<>>, written)
      /\ Range(view.shown \o view.queue) = Range(view.shown) \cup Range(view.queue)
  BY <1>1, ShownSteps DEF ShownOK
<1>3. \/ view'.shown = view.shown \o view.queue /\ view'.queue = <<>>
      \/ view'.shown = view.shown /\ view'.queue = view.queue
  BY DrainIs
<1>4. UNCHANGED <<saved, composer, written, recalled>>
  BY DEF DrainEvents, counters
<1>5. Range(<<>>) = {}
  BY DEF Range
<1>6. /\ Range(view'.shown) \cup Range(view'.queue) =
            Range(view.shown) \cup Range(view.queue)
      /\ Range(view.shown) \subseteq Range(view'.shown)
  BY <1>2, <1>3, <1>5
<1>7. ShownOnce(view'.shown, view'.queue, written')
  BY <1>2, <1>3, <1>4
<1>8. ShownOnce(saved'.shown, saved'.queue, written')
  BY <1>4 DEF ShownOK
<1>9. composer' # 0 => /\ composer' \in recalled' /\ composer' <= written'
                       /\ composer' \notin Range(view'.shown) \cup Range(view'.queue)
  BY <1>4, <1>6 DEF ShownOK
<1> QED BY <1>6, <1>7, <1>8, <1>9 DEF ShownOK

LEMMA ShownRests ==
    ASSUME ShownOK, UNCHANGED <<view, saved, composer, written, recalled>>
    PROVE  ShownOK'
BY DEF ShownOK

-----------------------------------------------------------------------------
(* No message is in two places. *)

\* Places hold what they held, or are emptied.
Lighter ==
    /\ recalled \subseteq recalled' /\ written <= written'
    /\ \A r \in Runners : /\ link'[r].outbox \in {link[r].outbox, <<>>}
                          /\ link'[r].request \in {link[r].request, 0}
    /\ \A s \in Sessions : /\ input'[s] \in {input[s], <<>>} /\ batch'[s] \in {batch[s], <<>>}
                           /\ heard'[s] = heard[s]

LEMMA WritingTyped ==
    ASSUME ViewTyped
    PROVE  /\ written \in Nat
           /\ \A r \in Runners : Carried[<<"outbox", r>>] \in Seq(Messages)
           /\ \A r \in Runners : Carried[<<"request", r>>] \in Seq(Messages)
           /\ \A s \in Sessions : /\ Carried[<<"input", s>>] \in Seq(Messages)
                                  /\ Carried[<<"batch", s>>] \in Seq(Messages)
                                  /\ Carried[<<"heard", s>>] \in Seq(Messages)
<1>1. written \in Nat
  BY ConstantsTyped DEF ViewTyped
<1>2. Holdings
  BY WhatIsCarried
<1>3. ASSUME NEW r \in Runners
      PROVE  /\ Carried[<<"outbox", r>>] \in Seq(Messages)
             /\ Carried[<<"request", r>>] \in Seq(Messages)
  <2>1. link[r].outbox \in Seq(Messages) /\ link[r].request \in 0..MaxMessages
    BY LinksTyped
  <2>2. link[r].request # 0 => <<link[r].request>> \in Seq(Messages)
    BY <2>1, ConstantsTyped
  <2>3. <<>> \in Seq(Messages)
    OBVIOUS
  <2>4. /\ Carried[<<"outbox", r>>] = link[r].outbox
        /\ Carried[<<"request", r>>] = IF link[r].request = 0 THEN <<>> ELSE <<link[r].request>>
    BY <1>2 DEF Holdings
  <2> QED BY <2>1, <2>2, <2>3, <2>4
<1> QED BY <1>1, <1>2, <1>3, QueuesTyped DEF Holdings

LEMMA TransportLighter ==
    ASSUME ViewTyped, ViewTyped', TransportOK, Lighter
    PROVE  TransportOK'
<1>1. PICK A : A = Carried
  OBVIOUS
<1>2. PICK B : B = Carried'
  OBVIOUS
<1>3. PICK F : F = Fixed
  OBVIOUS
<1>4. PICK G : G = Fixed'
  OBVIOUS
<1>5. G \subseteq F
  BY <1>3, <1>4 DEF Lighter, Fixed
<1>6. written \in Nat /\ written' \in Nat /\ written <= written'
  BY ConstantsTyped DEF ViewTyped, Lighter
<1>7. Apart(A, F, written)
  BY <1>1, <1>3 DEF TransportOK
<1>8. ASSUME NEW c \in Places PROVE B[c] = A[c] \/ B[c] = <<>>
  <2>1. Holdings /\ Holdings'
    BY WhatIsCarried
  <2>2. ASSUME NEW r \in Runners, c = <<"outbox", r>> PROVE B[c] = A[c] \/ B[c] = <<>>
    BY <1>1, <1>2, <2>1, <2>2 DEF Holdings, Lighter
  <2>3. ASSUME NEW r \in Runners, c = <<"request", r>> PROVE B[c] = A[c] \/ B[c] = <<>>
    BY <1>1, <1>2, <2>1, <2>3, ZenonT(40) DEF Holdings, Lighter
  <2>4. ASSUME NEW s \in Sessions,
               c = <<"input", s>> \/ c = <<"batch", s>> \/ c = <<"heard", s>>
        PROVE  B[c] = A[c] \/ B[c] = <<>>
    <3>1. /\ B[<<"input", s>>] = input'[s] /\ A[<<"input", s>>] = input[s]
          /\ B[<<"batch", s>>] = batch'[s] /\ A[<<"batch", s>>] = batch[s]
          /\ B[<<"heard", s>>] = heard'[s] /\ A[<<"heard", s>>] = heard[s]
      BY <1>1, <1>2, <2>1 DEF Holdings
    <3> QED BY <2>4, <3>1 DEF Lighter
  <2> QED BY <2>2, <2>3, <2>4, OnePlace
<1>9. Apart(B, G, written')
  BY <1>5, <1>6, <1>7, <1>8, Shrinks
<1> QED BY <1>2, <1>4, <1>9 DEF TransportOK

\* Message m enters the channel of runner r.
Heavier(m, r) ==
    /\ r \in Runners /\ m \in Messages
    /\ link'[r].outbox = Append(link[r].outbox, m) /\ link'[r].request = link[r].request
    /\ \A q \in Runners : q # r => /\ link'[q].outbox = link[q].outbox
                                   /\ link'[q].request = link[q].request
    /\ UNCHANGED <<input, batch, heard, recalled>>
    /\ written <= written' /\ m \in 1..written'
    /\ m \in 1..written => m \in recalled

LEMMA TransportHeavier ==
    ASSUME ViewTyped, ViewTyped', TransportOK, NEW m, NEW r, Heavier(m, r)
    PROVE  TransportOK'
<1>1. PICK A : A = Carried
  OBVIOUS
<1>2. PICK B : B = Carried'
  OBVIOUS
<1>3. PICK F : F = Fixed
  OBVIOUS
<1>4. F = Fixed'
  BY <1>3 DEF Heavier, Fixed
<1>5. PICK b : b = <<"outbox", r>>
  OBVIOUS
<1>6. /\ written \in Nat /\ written' \in Nat /\ written <= written' /\ b \in Places
      /\ A[b] \in Seq(Messages) /\ m \in Messages /\ r \in Runners
  <2>1. r \in Runners /\ m \in Messages /\ written <= written'
    BY DEF Heavier
  <2>2. written \in Nat /\ Carried[b] \in Seq(Messages)
    BY <1>5, <2>1, WritingTyped
  <2>3. written' \in Nat
    BY ConstantsTyped DEF ViewTyped
  <2> QED BY <1>1, <1>5, <2>1, <2>2, <2>3, OnePlace
<1>7. Apart(A, F, written) /\ m \in 1..written' /\ (m \in 1..written => m \notin F)
  BY <1>1, <1>3 DEF TransportOK, Heavier, Fixed
<1>8. Holdings /\ Holdings'
  BY WhatIsCarried
<1>9. B[b] = Append(A[b], m)
  BY <1>1, <1>2, <1>5, <1>6, <1>8 DEF Holdings, Heavier
<1>10. ASSUME NEW c \in Places \ {b} PROVE B[c] = A[c]
  <2>2. ASSUME NEW q \in Runners, c = <<"outbox", q>> PROVE B[c] = A[c]
    <3>1. q # r
      BY <1>5, <1>10, <2>2
    <3> QED BY <1>1, <1>2, <1>8, <2>2, <3>1 DEF Holdings, Heavier
  <2>3. ASSUME NEW q \in Runners, c = <<"request", q>> PROVE B[c] = A[c]
    <3>1. link'[q].request = link[q].request
      BY DEF Heavier
    <3> QED BY <1>1, <1>2, <1>8, <2>3, <3>1, ZenonT(40) DEF Holdings
  <2>4. ASSUME NEW s \in Sessions,
               c = <<"input", s>> \/ c = <<"batch", s>> \/ c = <<"heard", s>>
        PROVE  B[c] = A[c]
    <3>1. /\ B[<<"input", s>>] = input'[s] /\ A[<<"input", s>>] = input[s]
          /\ B[<<"batch", s>>] = batch'[s] /\ A[<<"batch", s>>] = batch[s]
          /\ B[<<"heard", s>>] = heard'[s] /\ A[<<"heard", s>>] = heard[s]
      BY <1>1, <1>2, <1>8 DEF Holdings
    <3> QED BY <2>4, <3>1 DEF Heavier
  <2> QED BY <2>2, <2>3, <2>4, OnePlace
<1>11. Apart(B, F, written')
  BY <1>6, <1>7, <1>9, <1>10, Adds
<1> QED BY <1>2, <1>4, <1>11 DEF TransportOK

\* What is in place a enters place b, but for y; the other places are as they were.
Handed(a, b, x, y) ==
    /\ a \in Places /\ b \in Places /\ a # b
    /\ x \in Seq(Messages)
    /\ Range(x) \cup Range(y) \subseteq Range(Carried[a])
    /\ \A F : Once(Carried[a], F) => /\ Once(x, F) /\ Once(y, F)
                                     /\ Range(x) \cap Range(y) \cap F = {}
    /\ \A B : B = Carried' => /\ B[a] = y /\ B[b] = Carried[b] \o x
                              /\ \A c \in Places \ {a, b} : B[c] = Carried[c]
    /\ UNCHANGED <<recalled, written>>

LEMMA TransportHanded ==
    ASSUME ViewTyped, TransportOK, NEW a, NEW b, NEW x, NEW y,
           Handed(a, b, x, y)
    PROVE  TransportOK'
<1>1. PICK A : A = Carried
  OBVIOUS
<1>2. PICK B : B = Carried'
  OBVIOUS
<1>3. PICK F : F = Fixed
  OBVIOUS
<1>4. F = Fixed' /\ written' = written /\ written \in Nat
  BY <1>3, WritingTyped DEF Handed, Fixed
<1>5. Apart(A, F, written)
  BY <1>1, <1>3 DEF TransportOK
<1>6. /\ a \in Places /\ b \in Places /\ a # b /\ x \in Seq(Messages)
      /\ Range(x) \subseteq Range(A[a]) /\ Range(y) \subseteq Range(A[a])
      /\ B[a] = y /\ B[b] = A[b] \o x /\ \A c \in Places \ {a, b} : B[c] = A[c]
  BY <1>1, <1>2 DEF Handed
<1>7. Once(x, F) /\ Once(y, F) /\ Range(x) \cap Range(y) \cap F = {}
  BY <1>1, <1>5, <1>6 DEF Handed, Apart
<1>8. A[b] \in Seq(Messages)
  <2>1. \/ \E r \in Runners : b = <<"outbox", r>> \/ b = <<"request", r>>
        \/ \E s \in Sessions : b = <<"input", s>> \/ b = <<"batch", s>> \/ b = <<"heard", s>>
    BY <1>6, OnePlace
  <2> QED BY <1>1, <2>1, WritingTyped
<1>9. Apart(B, F, written)
  BY <1>4, <1>5, <1>6, <1>7, <1>8, Moves
<1> QED BY <1>2, <1>4, <1>9 DEF TransportOK

QueuesLighter ==
    \A s \in Sessions : /\ input'[s] \in {input[s], <<>>} /\ batch'[s] \in {batch[s], <<>>}
                        /\ heard'[s] = heard[s]

LEMMA DiscardLighter ==
    ASSUME ViewTyped, AttachedOK
    PROVE  /\ \A s \in Sessions : Discarded(s) => QueuesLighter
           /\ InSide /\ DiscardFork => QueuesLighter
           /\ EndOpenSide => QueuesLighter
<1>1. input \in [Sessions -> Seq(Messages)] /\ batch \in [Sessions -> Seq(Messages)]
  BY DEF ViewTyped
<1>2. \A s \in Sessions : Discarded(s) => QueuesLighter
  BY <1>1 DEF Discarded, QueuesLighter
<1>3. InSide /\ DiscardFork => QueuesLighter
  BY <1>2, ForkIs
<1>4. EndOpenSide => QueuesLighter
  <2>1. CASE InSide
    BY <1>3, <2>1 DEF EndOpenSide
  <2>2. CASE ~InSide
    BY <2>2 DEF EndOpenSide, daemon, QueuesLighter
  <2> QED BY <2>1, <2>2
<1> QED BY <1>2, <1>3, <1>4

LEMMA TransportByChoice ==
    ASSUME ViewTyped, ViewTyped', AttachedOK, TransportOK,
           \/ AttachForDisplay \/ EnterSide \/ EndSide \/ NewSession
           \/ \E s \in Sessions : Resume(s)
    PROVE  TransportOK'
<1> USE DEF client, daemon, counters, history
<1>1. recalled' = recalled /\ written' = written
  BY DEF AttachForDisplay, EnterSide, EndSide, NewSession, Resume
<1>2. QueuesLighter
  <2>1. AttachForDisplay \/ EnterSide => QueuesLighter
    BY DEF AttachForDisplay, EnterSide, QueuesLighter
  <2>2. EndSide => QueuesLighter
    BY DiscardLighter DEF EndSide
  <2>3. NewSession => QueuesLighter
    BY DiscardLighter DEF NewSession
  <2>4. \A s \in Sessions : Resume(s) => QueuesLighter
    BY DiscardLighter DEF Resume
  <2> QED BY <2>1, <2>2, <2>3, <2>4
<1>3. \A r \in Runners : /\ link'[r].outbox \in {link[r].outbox, <<>>}
                         /\ link'[r].request \in {link[r].request, 0}
  <2>1. ASSUME CanAttach, NEW s \in Sessions, link' = Attached(s)
        PROVE  \A r \in Runners : /\ link'[r].outbox \in {link[r].outbox, <<>>}
                                  /\ link'[r].request \in {link[r].request, 0}
    <3>1. Joins(NextRunner, s, Attached(s))
      BY <2>1, AttachedIs
    <3> HIDE DEF Attached
    <3>2. Joins(NextRunner, s, link')
      BY <2>1, <3>1
    <3> QED BY <3>2, JoinsIs
  <2>2. \/ link' = link
        \/ CanAttach /\ \E s \in Sessions : link' = Attached(s)
    BY DEF AttachForDisplay, EnterSide, EndSide, NewSession, Resume,
           Fresh
  <2> QED BY <2>1, <2>2
<1>4. Lighter
  BY <1>1, <1>2, <1>3, ConstantsTyped DEF Lighter, QueuesLighter, ViewTyped
<1> QED BY <1>4, TransportLighter

LEMMA TransportByMessage ==
    ASSUME ViewTyped, ViewTyped', AttachedOK, ShownOK, TransportOK,
           Submit \/ Recall \/ CommitCompact
    PROVE  TransportOK'
<1> USE DEF client, daemon, counters, history
<1>1. CASE Submit
  <2> DEFINE m == Submitted
  <2>1. PICK r \in 0..MaxRunners, l \in [Runners -> Links], sent \in BOOLEAN :
              /\ Dispatched(m, r, l, sent)
              /\ \/ r = view.runner /\ l = link
                 \/ view.runner = 0 /\ \E s \in Sessions \ Known : Joins(r, s, l)
    BY <1>1, SubmitIs
  <2>2. UNCHANGED <<input, batch, heard, recalled>>
    BY <1>1 DEF Submit
  <2>3. /\ m \in Messages /\ written <= written' /\ m \in 1..written'
        /\ m \in 1..written => m \in recalled
    <3>1. m \in Messages /\ written' = IF composer # 0 THEN written ELSE written + 1
      BY <1>1 DEF Submit
    <3> QED BY <3>1, SubmittedIs
  <2> HIDE DEF m
  <2>4. \A q \in Runners : l[q].outbox = link[q].outbox /\ l[q].request = link[q].request
    <3>1. CASE l = link
      BY <3>1
    <3>2. ASSUME NEW s \in Sessions, Joins(r, s, l)
          PROVE  \A q \in Runners : /\ l[q].outbox = link[q].outbox
                                    /\ l[q].request = link[q].request
      BY <3>2, JoinsIs
    <3> QED BY <2>1, <3>1, <3>2
  <2>5. \A q \in Runners :
           /\ link'[q].request = link[q].request
           /\ link'[q].outbox = IF sent /\ q = r THEN Append(link[q].outbox, m) ELSE link[q].outbox
    BY <2>1, <2>4 DEF Dispatched
  <2>6. CASE sent
    <3>1. r \in Runners
      BY <2>1, <2>6 DEF Dispatched
    <3>2. Heavier(m, r)
      BY <2>2, <2>3, <2>5, <2>6, <3>1 DEF Heavier
    <3> QED BY <3>2, TransportHeavier
  <2>7. CASE ~sent
    <3>1. Lighter
      BY <2>2, <2>3, <2>5, <2>7 DEF Lighter
    <3> QED BY <3>1, TransportLighter
  <2> QED BY <2>6, <2>7
<1>2. CASE Recall
  <2>1. UNCHANGED <<link, input, batch, heard, written>> /\ recalled \subseteq recalled'
    BY <1>2 DEF Recall
  <2>2. Lighter
    BY <2>1, ConstantsTyped DEF Lighter, ViewTyped
  <2> QED BY <2>2, TransportLighter
<1>3. CASE CommitCompact
  <2> DEFINE r == NextRunner
             m == written + 1
  <2>1. PICK s \in Sessions : Committed(m, r, s)
    BY <1>3, CommitIs
  <2> HIDE DEF r, m
  <2>2. UNCHANGED <<input, batch, heard, recalled>>
    BY <1>3 DEF CommitCompact
  <2>3. /\ written' = m /\ m \in Messages /\ r \in Runners
        /\ link'[r].outbox = <<m>> /\ link[r] = Unused /\ link'[r].request = 0
        /\ \A q \in Runners : q # r => link'[q] = link[q]
    BY <2>1, ConstantsTyped DEF Committed
  <2>4. written <= written' /\ m \in 1..written' /\ m \notin 1..written
    BY <2>3, WritingTyped DEF m
  <2>5. link'[r].outbox = Append(link[r].outbox, m) /\ link'[r].request = link[r].request
    BY <2>3, UnusedIs
  <2>6. Heavier(m, r)
    BY <2>2, <2>3, <2>4, <2>5 DEF Heavier
  <2> QED BY <2>6, TransportHeavier
<1> QED BY <1>1, <1>2, <1>3

LEMMA OnceEmpty ==
    ASSUME NEW S, NEW s \in Seq(S)
    PROVE  \A F : Once(s, F) => /\ Once(s, F) /\ Once(<<>>, F)
                                /\ Range(s) \cap Range(<<>>) \cap F = {}
<1>1. Range(<<>>) = {} /\ \A F : Once(<<>>, F)
  BY DEF Range, Once
<1> QED BY <1>1

LEMMA TransportByLink ==
    ASSUME ViewTyped, ViewTyped', AttachedOK, TransportOK,
           \/ \E r \in Runners : \/ Forward(r) \/ Deliver(r) \/ TimeOut(r)
                                 \/ Receive(r)
           \/ Drain \/ DrainEvents
    PROVE  TransportOK'
<1> USE DEF client, daemon, counters, history
<1>1. Holdings /\ Holdings'
  BY WhatIsCarried
<1>2. Range(<<>>) = {}
  BY DEF Range
<1>3. ASSUME NEW r \in Runners, Forward(r) PROVE TransportOK'
  <2> DEFINE a == <<"outbox", r>>
             b == <<"request", r>>
             m == Head(link[r].outbox)
             y == Tail(link[r].outbox)
  <2>1. /\ link[r].request = 0 /\ link[r].outbox # <<>> /\ m \in Messages
        /\ y \in Seq(Messages) /\ Holds(r, y, m, link[r].bus, link[r].events)
    BY <1>3, ForwardIs
  <2>2. UNCHANGED <<input, batch, heard, recalled, written>>
    BY <1>3 DEF Forward
  <2>3. /\ Range(link[r].outbox) = Range(y) \cup {m}
        /\ \A F : Once(link[r].outbox, F) => Once(y, F) /\ m \notin Range(y) \cap F
    <3> DEFINE o == link[r].outbox
    <3>1. o \in Seq(Messages) /\ o # <<>>
      BY <2>1, LinksTyped
    <3> HIDE DEF o
    <3>2. /\ Range(o) = Range(Tail(o)) \cup {Head(o)}
          /\ \A F : Once(o, F) => Once(Tail(o), F) /\ Head(o) \notin Range(Tail(o)) \cap F
      BY <3>1, Tailed
    <3> QED BY <3>2 DEF o
  <2> HIDE DEF m, y
  <2>4. Range(<<m>>) = {m} /\ \A F : Once(<<m>>, F)
    BY DEF Range, Once
  <2>5. <<m>> \in Seq(Messages) /\ m # 0 /\ a \in Places /\ b \in Places /\ a # b
    BY <2>1, OnePlace, ConstantsTyped
  <2>6. Carried[a] = link[r].outbox /\ Carried[b] = <<>> /\ <<>> \o <<m>> = <<m>>
    BY <1>1, <2>1, <2>5, ConcatEmptySeq DEF Holdings
  <2>7. ASSUME NEW B, B = Carried'
        PROVE  B[a] = y /\ B[b] = <<m>> /\ \A c \in Places \ {a, b} : B[c] = Carried[c]
    <3>1. B[a] = y /\ B[b] = <<m>>
      BY <1>1, <2>1, <2>5, <2>7 DEF Holdings, Holds
    <3>2. ASSUME NEW q \in Runners, q # r
          PROVE  /\ B[<<"outbox", q>>] = Carried[<<"outbox", q>>]
                 /\ B[<<"request", q>>] = Carried[<<"request", q>>]
      <4>1. link'[q] = link[q]
        BY <2>1, <3>2 DEF Holds
      <4> QED BY <1>1, <2>7, <4>1, ZenonT(40) DEF Holdings
    <3>3. ASSUME NEW s \in Sessions
          PROVE  /\ B[<<"input", s>>] = Carried[<<"input", s>>]
                 /\ B[<<"batch", s>>] = Carried[<<"batch", s>>]
                 /\ B[<<"heard", s>>] = Carried[<<"heard", s>>]
      BY <1>1, <2>2, <2>7 DEF Holdings
    <3> HIDE DEF a, b
    <3>4. ASSUME NEW c \in Places \ {a, b} PROVE B[c] = Carried[c]
      <4>1. ASSUME NEW q \in Runners, c = <<"outbox", q>> \/ c = <<"request", q>>
            PROVE  B[c] = Carried[c]
        <5>1. q # r
          BY <3>4, <4>1 DEF a, b
        <5> QED BY <3>2, <4>1, <5>1
      <4>2. ASSUME NEW s \in Sessions,
                   c = <<"input", s>> \/ c = <<"batch", s>> \/ c = <<"heard", s>>
            PROVE  B[c] = Carried[c]
        BY <3>3, <4>2
      <4> QED BY <4>1, <4>2, OnePlace
    <3> QED BY <3>1, <3>4
  <2>8. Handed(a, b, <<m>>, y)
    <3>1. \A F : Once(Carried[a], F) => /\ Once(<<m>>, F) /\ Once(y, F)
                                        /\ Range(<<m>>) \cap Range(y) \cap F = {}
      BY <2>3, <2>4, <2>6
    <3>2. Range(<<m>>) \cup Range(y) \subseteq Range(Carried[a])
      BY <2>3, <2>4, <2>6
    <3> HIDE DEF a, b
    <3> QED BY <2>2, <2>5, <2>6, <2>7, <3>1, <3>2 DEF Handed
  <2> QED BY <2>8, TransportHanded
<1>4. ASSUME NEW r \in Runners, Deliver(r) PROVE TransportOK'
  <2> DEFINE m == link[r].request
             s == link[r].session
             a == <<"request", r>>
             b == <<"input", s>>
  <2>1. /\ m \in Messages /\ s \in Sessions
        /\ Accepted(s, m) \/ Lost(m)
        /\ Holds(r, link[r].outbox, 0, link[r].bus, link[r].events)
    BY <1>4, DeliverIs
  <2>2. UNCHANGED <<batch, heard, recalled, written>>
    BY <1>4 DEF Deliver
  <2>3. m # 0 /\ <<m>> \in Seq(Messages)
    BY <2>1, ConstantsTyped
  <2>4. \A q \in Runners : /\ link'[q].outbox = link[q].outbox
                           /\ link'[q].request = IF q = r THEN 0 ELSE link[q].request
    BY <2>1 DEF Holds
  <2>5. CASE Lost(m)
    <3>1. input' = input
      BY <2>5 DEF Lost
    <3>2. written <= written'
      BY <2>2, WritingTyped
    <3>3. Lighter
      BY <2>2, <2>4, <3>1, <3>2 DEF Lighter
    <3> QED BY <3>3, TransportLighter
  <2>6. CASE Accepted(s, m)
    <3>1. /\ a \in Places /\ b \in Places /\ a # b
          /\ Carried[a] = <<m>> /\ Carried[b] = input[s]
      BY <1>1, <2>1, <2>3, OnePlace DEF Holdings
    <3>2. input' = [input EXCEPT ![s] = Append(input[s], m)]
      BY <2>6 DEF Accepted
    <3> HIDE DEF m, s
    <3>3. /\ input'[s] = input[s] \o <<m>> /\ \A t \in Sessions : t # s => input'[t] = input[t]
      <4>1. Append(input[s], m) = input[s] \o <<m>>
        BY <2>1, QueuesTyped, AppendIsConcat
      <4>2. input \in [Sessions -> Seq(Messages)]
        BY DEF ViewTyped
      <4> QED BY <2>1, <3>2, <4>1, <4>2
    <3>4. ASSUME NEW B, B = Carried'
          PROVE  B[a] = <<>> /\ B[b] = Carried[b] \o <<m>>
                 /\ \A c \in Places \ {a, b} : B[c] = Carried[c]
      <4>1. B[a] = <<>> /\ B[b] = Carried[b] \o <<m>>
        <5>1. B[a] = IF link'[r].request = 0 THEN <<>> ELSE <<link'[r].request>>
          BY <1>1, <3>4 DEF Holdings
        <5>2. B[b] = input'[s]
          BY <1>1, <2>1, <3>4 DEF Holdings
        <5> QED BY <2>4, <3>1, <3>3, <5>1, <5>2
      <4>2. ASSUME NEW q \in Runners
            PROVE  /\ B[<<"outbox", q>>] = Carried[<<"outbox", q>>]
                   /\ q # r => B[<<"request", q>>] = Carried[<<"request", q>>]
        <5>1. link'[q].outbox = link[q].outbox /\ (q # r => link'[q].request = link[q].request)
          BY <2>4
        <5> QED BY <1>1, <3>4, <5>1 DEF Holdings
      <4>3. ASSUME NEW t \in Sessions
            PROVE  /\ t # s => B[<<"input", t>>] = Carried[<<"input", t>>]
                   /\ B[<<"batch", t>>] = Carried[<<"batch", t>>]
                   /\ B[<<"heard", t>>] = Carried[<<"heard", t>>]
        BY <1>1, <2>2, <3>3, <3>4 DEF Holdings
      <4> HIDE DEF a, b
      <4>4. ASSUME NEW c \in Places \ {a, b} PROVE B[c] = Carried[c]
        <5>1. ASSUME NEW q \in Runners, c = <<"outbox", q>> \/ c = <<"request", q>>
              PROVE  B[c] = Carried[c]
          <6>1. c = <<"request", q>> => q # r
            BY <4>4 DEF a
          <6> QED BY <4>2, <5>1, <6>1
        <5>2. ASSUME NEW t \in Sessions,
                     c = <<"input", t>> \/ c = <<"batch", t>> \/ c = <<"heard", t>>
              PROVE  B[c] = Carried[c]
          <6>1. c = <<"input", t>> => t # s
            BY <4>4 DEF b
          <6> QED BY <4>3, <5>2, <6>1
        <5> QED BY <5>1, <5>2, OnePlace
      <4> QED BY <4>1, <4>4
    <3>5. \A F : Once(Carried[a], F) => /\ Once(<<m>>, F) /\ Once(<<>>, F)
                                        /\ Range(<<m>>) \cap Range(<<>>) \cap F = {}
      BY <2>3, <3>1, OnceEmpty
    <3>6. Range(<<m>>) \cup Range(<<>>) \subseteq Range(Carried[a])
      BY <1>2, <3>1
    <3> HIDE DEF a, b
    <3>7. Handed(a, b, <<m>>, <<>>)
      BY <2>2, <2>3, <3>1, <3>4, <3>5, <3>6 DEF Handed
    <3> QED BY <3>7, TransportHanded
  <2> QED BY <2>1, <2>5, <2>6
<1>5. ASSUME UNCHANGED <<input, batch, heard, recalled, written>>,
             NEW r \in Runners, NEW out \in {link[r].outbox, <<>>}, NEW bus, NEW es,
             Holds(r, out, link[r].request, bus, es)
      PROVE  TransportOK'
  <2>1. \A q \in Runners : /\ link'[q].outbox \in {link[q].outbox, <<>>}
                           /\ link'[q].request \in {link[q].request, 0}
    BY <1>5 DEF Holds
  <2>2. written <= written'
    BY <1>5, WritingTyped
  <2>3. Lighter
    BY <1>5, <2>1, <2>2 DEF Lighter
  <2> QED BY <2>3, TransportLighter
<1>6. ASSUME NEW r \in Runners, TimeOut(r) PROVE TransportOK'
  <2>1. UNCHANGED <<input, batch, heard, recalled, written>>
    BY <1>6 DEF TimeOut
  <2> QED BY <1>5, <1>6, <2>1, TimeOutIs
<1>7. ASSUME NEW r \in Runners, Receive(r) PROVE TransportOK'
  <2>1. UNCHANGED <<input, batch, heard, recalled, written>>
    BY <1>7 DEF Receive
  <2> QED BY <1>5, <1>7, <2>1, ReceiveIs
<1>8. CASE Drain
  <2>1. UNCHANGED <<link, input, batch, heard, recalled, written>> /\ written <= written'
    BY <1>8, WritingTyped DEF Drain
  <2>2. Lighter
    BY <2>1 DEF Lighter
  <2> QED BY <2>2, TransportLighter
<1>9. CASE DrainEvents
  <2>1. UNCHANGED <<input, batch, heard, recalled, written>>
    BY <1>9 DEF DrainEvents
  <2> QED BY <1>5, <1>9, <2>1, DrainIs
<1> QED BY <1>3, <1>4, <1>6, <1>7, <1>8, <1>9

\* All that is in place a of s enters place b of s.
Folds(s, a, b) ==
    /\ s \in Sessions /\ a \in {"input", "batch"} /\ b \in {"batch", "heard"} /\ a # b
    /\ \A B : B = Carried' =>
          /\ B[<<a, s>>] = <<>> /\ B[<<b, s>>] = Carried[<<b, s>>] \o Carried[<<a, s>>]
          /\ \A k \in {"input", "batch", "heard"} \ {a, b} : B[<<k, s>>] = Carried[<<k, s>>]

LEMMA TransportFolds ==
    ASSUME ViewTyped, TransportOK, NEW s, NEW a, NEW b, Folds(s, a, b),
           Driven(s),
           \A r \in Runners : /\ link'[r].outbox = link[r].outbox
                              /\ link'[r].request = link[r].request
    PROVE  TransportOK'
<1>a. /\ s \in Sessions /\ a \in {"input", "batch"} /\ b \in {"batch", "heard"} /\ a # b
      /\ \A B : B = Carried' =>
            /\ B[<<a, s>>] = <<>> /\ B[<<b, s>>] = Carried[<<b, s>>] \o Carried[<<a, s>>]
            /\ \A k \in {"input", "batch", "heard"} \ {a, b} : B[<<k, s>>] = Carried[<<k, s>>]
  BY DEF Folds
<1> DEFINE x == Carried[<<a, s>>]
<1> DEFINE d == <<a, s>>
           e == <<b, s>>
<1>1. d \in Places /\ e \in Places /\ d # e
  <2>1. {<<"input", s>>, <<"batch", s>>, <<"heard", s>>} \subseteq Places
    BY <1>a, OnePlace
  <2>2. d = <<"input", s>> \/ d = <<"batch", s>>
    BY <1>a
  <2>3. e = <<"batch", s>> \/ e = <<"heard", s>>
    BY <1>a
  <2>4. d # e
    BY <1>a
  <2> HIDE DEF d, e
  <2> QED BY <2>1, <2>2, <2>3, <2>4
<1>2. x \in Seq(Messages) /\ Range(<<>>) = {}
  <2>1. Range(<<>>) = {}
    BY DEF Range
  <2>2. CASE a = "input"
    BY <1>a, <2>1, <2>2, WritingTyped
  <2>3. CASE a = "batch"
    BY <1>a, <2>1, <2>3, WritingTyped
  <2> QED BY <1>a, <2>2, <2>3
<1>3. UNCHANGED <<recalled, written>>
  BY DEF Driven
<1>4. Holdings /\ Holdings'
  BY WhatIsCarried
<1>5. ASSUME NEW B, B = Carried' PROVE \A c \in Places \ {d, e} : B[c] = Carried[c]
  <2> SUFFICES ASSUME NEW c \in Places \ {d, e} PROVE B[c] = Carried[c]
    OBVIOUS
  <2>1. ASSUME NEW r \in Runners, c = <<"outbox", r>> \/ c = <<"request", r>>
        PROVE  B[c] = Carried[c]
    <3>1. link'[r].outbox = link[r].outbox /\ link'[r].request = link[r].request
      OBVIOUS
    <3>2. /\ B[<<"outbox", r>>] = Carried[<<"outbox", r>>]
          /\ B[<<"request", r>>] = Carried[<<"request", r>>]
      BY <1>4, <1>5, <3>1, ZenonT(40) DEF Holdings
    <3> QED BY <2>1, <3>2
  <2>2. ASSUME NEW t \in Sessions, NEW k \in {"input", "batch", "heard"}, c = <<k, t>>
        PROVE  B[c] = Carried[c]
    <3>1. CASE t = s
      <4>1. k \notin {a, b}
        BY <2>2, <3>1
      <4> QED BY <1>5, <1>a, <2>2, <3>1, <4>1
    <3>2. CASE t # s
      <4>1. input'[t] = input[t] /\ batch'[t] = batch[t] /\ heard'[t] = heard[t]
        BY <3>2 DEF Driven
      <4>2. /\ B[<<"input", t>>] = Carried[<<"input", t>>]
            /\ B[<<"batch", t>>] = Carried[<<"batch", t>>]
            /\ B[<<"heard", t>>] = Carried[<<"heard", t>>]
        BY <1>4, <1>5, <4>1 DEF Holdings
      <4> QED BY <2>2, <4>2
    <3> QED BY <3>1, <3>2
  <2> QED BY <2>1, <2>2, OnePlace
<1>6. \A F : Once(x, F) => Once(x, F) /\ Once(<<>>, F)
                           /\ Range(x) \cap Range(<<>>) \cap F = {}
  BY <1>2, OnceEmpty
<1>7. x = Carried[d] /\ \A B : B = Carried' => B[d] = <<>> /\ B[e] = Carried[e] \o x
  BY <1>a
<1> HIDE DEF d, e, x
<1>8. Handed(d, e, x, <<>>)
  BY <1>1, <1>2, <1>3, <1>5, <1>6, <1>7 DEF Handed
<1> QED BY <1>8, TransportHanded

LEMMA TransportByDriver ==
    ASSUME ViewTyped, ViewTyped', AttachedOK, TransportOK,
           NEW s \in Sessions, DriverMoves(s)
    PROVE  TransportOK'
<1>1. Driven(s) /\ UNCHANGED <<recalled, written>>
  BY DriverTyped DEF Driven
<1>2. Holdings /\ Holdings'
  BY WhatIsCarried
<1>3. \A r \in Runners : /\ link'[r].outbox = link[r].outbox
                         /\ link'[r].request = link[r].request
  <2>1. ASSUME NEW e \in Events, Speaks(s, e)
        PROVE  \A r \in Runners : /\ link'[r].outbox = link[r].outbox
                                  /\ link'[r].request = link[r].request
    BY <2>1 DEF Speaks, Emitted
  <2> QED BY <2>1, DriverMovesIs, TakeIs, FailIs
<1>4. input[s] \in Seq(Messages) /\ batch[s] \in Seq(Messages)
      /\ heard[s] \in Seq(Messages)
  BY QueuesTyped
<1>5. /\ Carried[<<"input", s>>] = input[s] /\ Carried[<<"batch", s>>] = batch[s]
      /\ Carried[<<"heard", s>>] = heard[s]
      /\ \A B : B = Carried' => /\ B[<<"input", s>>] = input'[s] /\ B[<<"batch", s>>] = batch'[s]
                                /\ B[<<"heard", s>>] = heard'[s]
  BY <1>2 DEF Holdings
<1>6. CASE Take(s)
  <2>1. batch'[s] = input[s] /\ input'[s] = <<>> /\ heard' = heard /\ driver[s] = "idle"
    BY <1>6, TakeIs
  <2>2. batch[s] = <<>> /\ <<>> \o input[s] = input[s]
    BY <1>4, <2>1, ConcatEmptySeq DEF AttachedOK
  <2>3. Folds(s, "input", "batch")
    BY <1>5, <2>1, <2>2 DEF Folds
  <2> QED BY <1>1, <1>3, <2>3, TransportFolds
<1>7. CASE BeginTurn(s)
  <2>1. heard'[s] = heard[s] \o batch[s] /\ batch'[s] = <<>> /\ input' = input
    BY <1>7, BeginIs
  <2>2. Folds(s, "batch", "heard")
    BY <1>5, <2>1 DEF Folds
  <2> QED BY <1>1, <1>3, <2>2, TransportFolds
<1>8. ASSUME heard'[s] = heard[s] \o input[s], input'[s] = <<>>, batch' = batch
      PROVE  TransportOK'
  <2>1. Folds(s, "input", "heard")
    BY <1>5, <1>8 DEF Folds
  <2> QED BY <1>1, <1>3, <2>1, TransportFolds
<1>9. ASSUME input'[s] \in {input[s], <<>>}, batch'[s] \in {batch[s], <<>>}, heard'[s] = heard[s]
      PROVE  TransportOK'
  <2>1. \A t \in Sessions : /\ input'[t] \in {input[t], <<>>} /\ batch'[t] \in {batch[t], <<>>}
                            /\ heard'[t] = heard[t]
    BY <1>1, <1>9 DEF Driven
  <2>2. written <= written'
    BY <1>1, WritingTyped
  <2>3. Lighter
    BY <1>1, <1>3, <2>1, <2>2 DEF Lighter
  <2> QED BY <2>3, TransportLighter
<1>10. CASE Refuse(s)
  BY <1>9, <1>10, RefuseIs
<1>11. CASE Round(s)
  BY <1>8, <1>9, <1>11, RoundIs
<1>12. CASE Retry(s) \/ EndTurn(s) \/ Serve(s)
  BY <1>9, <1>12, RestIs
<1>13. CASE Fail(s)
  BY <1>9, <1>13, FailIs, DiscardLighter DEF QueuesLighter
<1> QED BY <1>6, <1>7, <1>10, <1>11, <1>12, <1>13 DEF DriverMoves, DriverStep

-----------------------------------------------------------------------------
(* The invariant. *)

LEMMA ClientStarts == ClientInit => ViewInv
<1> SUFFICES ASSUME ClientInit PROVE ViewInv
  OBVIOUS
<1>1. /\ view = Blank /\ saved = Blank /\ composer = 0 /\ written = 0
      /\ link = [r \in Runners |-> Unused]
      /\ input = [s \in Sessions |-> <<>>] /\ batch = [s \in Sessions |-> <<>>]
      /\ heard = [s \in Sessions |-> <<>>] /\ driver = [s \in Sessions |-> "idle"]
      /\ via = [m \in Messages |-> 0]
      /\ dropped = {} /\ recalled = {} /\ lagged = {} /\ sure = TRUE
  BY DEF ClientInit
<1>2. Unused \in Links /\ <<>> \in Seq(Messages)
  BY ConstantsTyped DEF Unused, Links
<1>3. ViewTyped
  BY <1>1, <1>2, BlankTyped, ConstantsTyped DEF ViewTyped
<1>4. AttachedOK
  BY <1>1, BlankShown DEF AttachedOK
<1>5. ShownOK
  BY <1>1, BlankShown DEF ShownOK
<1>6. TransportOK
  <2>1. PICK A : A = Carried
    OBVIOUS
  <2>2. Holdings
    BY WhatIsCarried
  <2>3. ASSUME NEW c \in Places PROVE A[c] = <<>>
    <3>1. ASSUME NEW r \in Runners, c = <<"outbox", r>> \/ c = <<"request", r>>
          PROVE  A[c] = <<>>
      BY <1>1, <2>1, <2>2, <3>1, UnusedIs DEF Holdings
    <3>2. ASSUME NEW s \in Sessions, c = <<"input", s>> \/ c = <<"batch", s>> \/ c = <<"heard", s>>
          PROVE  A[c] = <<>>
      BY <1>1, <2>1, <2>2, <3>2 DEF Holdings
    <3> QED BY <3>1, <3>2, OnePlace
  <2>4. Range(<<>>) = {} /\ \A F : Once(<<>>, F)
    BY DEF Range, Once
  <2>5. Apart(A, Fixed, written)
    BY <2>3, <2>4 DEF Apart
  <2> QED BY <2>1, <2>5 DEF TransportOK
<1> QED BY <1>3, <1>4, <1>5, <1>6 DEF ViewInv

\* The steps, by who takes them.
Choice ==
    \/ AttachForDisplay \/ EnterSide \/ EndSide \/ NewSession
    \/ \E s \in Sessions : Resume(s)
Message == Submit \/ Recall \/ CommitCompact
Link ==
    \/ \E r \in Runners : \/ Forward(r) \/ Deliver(r) \/ TimeOut(r)
                          \/ Receive(r)
    \/ Drain \/ DrainEvents

LEMMA ClientSteps == ClientNext => Choice \/ Message \/ Link \/ \E s \in Sessions : DriverMoves(s)
BY DEF ClientNext, Choice, Message, Link, DriverMoves

LEMMA ViewTypedStep ==
    ASSUME ViewInv, ClientNext
    PROVE  ViewTyped'
<1>1. ViewTyped /\ AttachedOK /\ ShownOK
  BY DEF ViewInv
<1>2. CASE Choice
  BY <1>1, <1>2, ChoiceTyped DEF Choice
<1>3. CASE Message
  BY <1>1, <1>3, MessageTyped DEF Message
<1>4. CASE Link
  BY <1>1, <1>4, LinkTyped DEF Link
<1>5. CASE \E s \in Sessions : DriverMoves(s)
  BY <1>1, <1>5, DriverTyped
<1> QED BY <1>2, <1>3, <1>4, <1>5, ClientSteps

LEMMA ShownByRest ==
    ASSUME ViewTyped, ShownOK, Link \/ \E s \in Sessions : DriverMoves(s)
    PROVE  ShownOK'
<1>1. CASE DrainEvents
  BY <1>1, ShownByClient
<1>2. ASSUME NEW s \in Sessions, DriverMoves(s) PROVE ShownOK'
  BY <1>2, DriverTyped, ShownRests DEF Driven
<1>3. ASSUME NEW r \in Runners,
             Forward(r) \/ Deliver(r) \/ TimeOut(r) \/ Receive(r)
      PROVE  ShownOK'
  <2>1. UNCHANGED <<view, saved, composer, written, recalled>>
    BY <1>3 DEF Forward, Deliver, TimeOut, Receive, client,
                counters, history
  <2> QED BY <2>1, ShownRests
<1>4. CASE Drain
  BY <1>4, ShownRests DEF Drain, client, counters, history
<1> QED BY <1>1, <1>2, <1>3, <1>4 DEF Link

LEMMA ViewStep == ViewInv /\ [ClientNext]_clientVars => ViewInv'
<1> SUFFICES ASSUME ViewInv, [ClientNext]_clientVars PROVE ViewInv'
  OBVIOUS
<1>1. CASE ClientNext
  <2>1. ViewTyped /\ AttachedOK /\ ShownOK /\ TransportOK /\ ViewTyped'
    BY <1>1, ViewTypedStep DEF ViewInv
  <2>2. CASE Choice
    BY <2>1, <2>2, AttachedByChoice, ShownByChoice, TransportByChoice DEF Choice, ViewInv
  <2>3. CASE Message
    BY <2>1, <2>3, AttachedByMessage, ShownByMessage, TransportByMessage DEF Message, ViewInv
  <2>4. CASE Link
    <3>1. AttachedOK' /\ TransportOK'
      BY <2>1, <2>4, AttachedByLink, TransportByLink DEF Link
    <3> QED BY <2>1, <2>4, <3>1, ShownByRest DEF ViewInv
  <2>5. ASSUME NEW s \in Sessions, DriverMoves(s) PROVE ViewInv'
    <3>1. AttachedOK' /\ TransportOK'
      BY <2>1, <2>5, AttachedByDriver, TransportByDriver
    <3> QED BY <2>1, <2>5, <3>1, ShownByRest DEF ViewInv
  <2> QED BY <1>1, <2>2, <2>3, <2>4, <2>5, ClientSteps
<1>2. CASE UNCHANGED clientVars
  <2>1. UNCHANGED <<view, composer, saved, link, input, batch, driver, heard, written, via, dropped,
                    recalled, lagged, sure>>
    BY <1>2 DEF clientVars, client, daemon, counters, history
  <2>2. ViewTyped'
    BY <2>1 DEF ViewInv, ViewTyped
  <2>3. AttachedOK'
    BY <2>1 DEF ViewInv, AttachedOK, Known
  <2>4. ShownOK'
    BY <2>1, ShownRests DEF ViewInv
  <2>5. TransportOK'
    <3>1. ViewTyped /\ TransportOK
      BY DEF ViewInv
    <3>2. written <= written'
      BY <2>1, <3>1, WritingTyped
    <3>3. Lighter
      BY <2>1, <3>2 DEF Lighter
    <3> QED BY <2>2, <3>1, <3>3, TransportLighter
  <2> QED BY <2>2, <2>3, <2>4, <2>5 DEF ViewInv
<1> QED BY <1>1, <1>2

\* Initially, after every step, and always: the parts of ViewInv.
THEOREM ClientInvariance == ClientSpec => []ViewInv
<1>1. ClientInit => ViewInv
  BY ClientStarts
<1>2. ViewInv /\ [ClientNext]_clientVars => ViewInv'
  BY ViewStep
<1> QED BY <1>1, <1>2, PTL DEF ClientSpec

LEMMA AtMostOne ==
    ASSUME NEW S, \A x, y \in S : x = y
    PROVE  Cardinality(S) <= 1
<1>1. CASE S = {}
  <2>1. Cardinality(S) = 0
    BY <1>1, FS_EmptySet
  <2> QED BY <2>1 DEF Cardinality, Cardinality
<1>2. CASE S # {}
  <2>1. PICK x \in S : TRUE
    BY <1>2
  <2>2. S = {x}
    BY <2>1
  <2>3. Cardinality(S) = 1
    BY <2>2, FS_Singleton
  <2> QED BY <2>3 DEF Cardinality, Cardinality
<1> QED BY <1>1, <1>2

(* A message that was not taken back reaches an agent at most once, whatever *)
(* timed out, and the view shows it as one turn: no step leaves a copy of it *)
(* behind in the place it leaves.                                          *)
THEOREM HeardAtMostOnce == ClientSpec => []HeardOnce
<1>1. ViewInv => HeardOnce
  <2> SUFFICES ASSUME ViewInv PROVE HeardOnce
    OBVIOUS
  <2>1. ViewTyped /\ ShownOK /\ TransportOK
    BY DEF ViewInv
  <2>2. PICK A : A = Carried
    OBVIOUS
  <2>3. \A s \in Sessions : /\ A[<<"heard", s>>] = heard[s] /\ <<"heard", s>> \in Places
    BY <2>2, WhatIsCarried, OnePlace DEF Holdings
  <2>4. Apart(A, Fixed, written)
    BY <2>1, <2>2 DEF TransportOK
  <2>5. ASSUME NEW m \in Messages \ recalled, NEW s \in Sessions
        PROVE  Times(m, s) <= 1
    <3> DEFINE S == {i \in DOMAIN heard[s] : heard[s][i] = m}
    <3>1. Once(heard[s], Fixed) /\ m \in Fixed
      BY <2>3, <2>4 DEF Apart, Fixed
    <3>2. \A i, j \in S : i = j
      BY <3>1 DEF Once
    <3> HIDE DEF S
    <3>3. Cardinality(S) <= 1
      BY <3>2, AtMostOne
    <3> QED BY <3>3 DEF Times, S
  <2>6. ASSUME NEW m \in Messages \ recalled, NEW s \in Sessions, NEW t \in Sessions,
               m \in Range(heard[s]) \cap Range(heard[t])
        PROVE  s = t
    <3>1. m \in Fixed
      BY DEF Fixed
    <3>2. <<"heard", s>> # <<"heard", t>> =>
             Range(heard[s]) \cap Range(heard[t]) \cap Fixed = {}
      BY <2>3, <2>4 DEF Apart
    <3> QED BY <2>6, <3>1, <3>2
  <2>7. IsInjective(view.shown)
    <3>1. Once(view.shown, Messages) /\ view.shown \in Seq(Messages)
      BY <2>1, ViewsTyped DEF ShownOK, ShownOnce
    <3>2. \A i \in DOMAIN view.shown : view.shown[i] \in Messages
      BY <3>1, Entries
    <3> QED BY <3>1, <3>2 DEF IsInjective, Once
  <2> QED BY <2>5, <2>6, <2>7 DEF HeardOnce
<1> QED BY <1>1, ClientInvariance, PTL

-----------------------------------------------------------------------------
(* What the view makes of the events. *)

\* What runner r and its session hold, and what is under way, tells the same as before.
Steady(s) ==
    \/ driver'[s] = driver[s] \/ driver'[s] = "dead"
    \/ driver[s] = "idle" /\ driver'[s] = "screening"

Calm(r) ==
    /\ link'[r].session = link[r].session
    /\ Pending(r)' = <<>> <=> Pending(r) = <<>>
    /\ Last(Pending(r)') = Last(Pending(r))
    /\ Announced(r) => Announced(r)'
    /\ heard'[link[r].session] = heard[link[r].session]
    /\ Steady(link[r].session)

\* An event reaches runner r, and it tells what the driver does now.
Roused(r) ==
    /\ link'[r].session = link[r].session
    /\ Pending(r)' # <<>> /\ LastTells(r)'
    /\ Announced(r) => Announced(r)'
    /\ Announced(r)' \/ heard'[link[r].session] = heard[link[r].session]

LEMMA LastKept ==
    ASSUME NEW r, LastTells(r), Calm(r)
    PROVE  LastTells(r)'
BY DEF LastTells, Calm, Steady

LEMMA QuietKept ==
    ASSUME NEW r, NEW b, QuietAt(r, b), sure' => sure,
           r # 0 /\ Pending(r)' = <<>> => Calm(r) /\ (Owed(r) => Owed(r)')
    PROVE  QuietAt(r, b)'
<1>1. CASE r = 0
  BY <1>1 DEF QuietAt
<1>2. CASE r # 0
  <2> SUFFICES ASSUME sure', Pending(r)' = <<>>
               PROVE  /\ driver'[link'[r].session] = "working" => b
                      /\ b => driver'[link'[r].session] \in {"working", "dead"} \/ Owed(r)'
    BY <1>2 DEF QuietAt
  <2>1. Calm(r) /\ (Owed(r) => Owed(r)') /\ sure /\ Pending(r) = <<>>
    BY <1>2 DEF Calm
  <2>2. /\ driver[link[r].session] = "working" => b
        /\ b => driver[link[r].session] \in {"working", "dead"} \/ Owed(r)
    BY <1>2, <2>1 DEF QuietAt
  <2>3. link'[r].session = link[r].session /\ Steady(link[r].session)
    BY <2>1 DEF Calm
  <2> QED BY <2>1, <2>2, <2>3 DEF Steady
<1> QED BY <1>1, <1>2

LEMMA HeldIs ==
    ASSUME ViewTyped
    PROVE  /\ Held \subseteq Runners
           /\ \A v \in {view, saved} : v.runner # 0 => v.runner \in Held
           /\ \A r \in Held : r = view.runner \/ r = saved.runner
           /\ 0 \notin Held
BY ViewsTyped, ConstantsTyped DEF Held

\* A step that leaves the client alone.
LEMMA SpanRests ==
    ASSUME ViewTyped, SpanInv,
           UNCHANGED <<view, saved, via, recalled, sure>>,
           \A r \in Held : (Calm(r) /\ (Owed(r) => Owed(r)')) \/ Roused(r)
    PROVE  SpanInv'
<1>1. Held' = Held
  BY DEF Held
<1>2. \A r \in Held : LastTells(r)'
  <2>1. ASSUME NEW r \in Held PROVE LastTells(r)'
    BY LastKept DEF Roused, SpanInv, LastOK
  <2> QED BY <2>1
<1>3. ASSUME NEW r \in Held, NEW S, NEW Q, ToldTo(r, S, Q) PROVE ToldTo(r, S, Q)'
  <2>1. Took(r)' = Took(r)
    BY DEF Took, Fixed
  <2>2. Calm(r) \/ Roused(r)
    BY <1>3
  <2>3. \/ Announced(r)'
        \/ /\ Announced(r) => Announced(r)'
           /\ heard'[link'[r].session] = heard[link[r].session]
    <3>1. CASE Calm(r)
      BY <3>1 DEF Calm
    <3>2. CASE Roused(r)
      BY <3>2 DEF Roused
    <3> QED BY <2>2, <3>1, <3>2
  <2> QED BY <1>3, <2>1, <2>3 DEF ToldTo
<1>4. ToldOK'
  <2>1. PICK S, Q : S = Range(view.shown) /\ Q = Range(view.queue)
    OBVIOUS
  <2>2. PICK T, P : T = Range(saved.shown) /\ P = Range(saved.queue)
    OBVIOUS
  <2>3. view.runner # 0 => ToldTo(view.runner, S, Q)
    BY <2>1 DEF SpanInv, ToldOK, Told
  <2>4. saved.runner # 0 => ToldTo(saved.runner, T, P)
    BY <2>2 DEF SpanInv, ToldOK, Told
  <2>5. PICK r, q : r = view.runner /\ q = saved.runner
    OBVIOUS
  <2>6. r # 0 => ToldTo(r, S, Q)'
    BY <1>3, <2>3, <2>5, HeldIs
  <2>7. q # 0 => ToldTo(q, T, P)'
    BY <1>3, <2>4, <2>5, HeldIs
  <2>8. Told(view)' /\ Told(saved)'
    BY <2>1, <2>2, <2>5, <2>6, <2>7 DEF Told, ToldTo, Took, Announced
  <2> QED BY <2>8 DEF ToldOK
<1>5. QuietOK'
  <2>1. PICK r, b : r = view.runner /\ b = view.busy
    OBVIOUS
  <2>2. QuietAt(r, b)
    BY <2>1 DEF SpanInv, QuietOK
  <2>3. r # 0 => r \in Held
    BY <2>1, HeldIs
  <2>4. r # 0 /\ Pending(r)' = <<>> => Calm(r) /\ (Owed(r) => Owed(r)')
    BY <2>3 DEF Roused
  <2>5. QuietAt(r, b)'
    BY <2>2, <2>4, QuietKept
  <2> QED BY <2>1, <2>5 DEF QuietOK, QuietAt
<1> QED BY <1>1, <1>2, <1>4, <1>5 DEF SpanInv, LastOK

LEMMA LinkMoves ==
    ASSUME ViewTyped, NEW r \in Runners, NEW out, NEW req, NEW bus,
           NEW es, Holds(r, out, req, bus, es), UNCHANGED <<driver, heard, lagged>>,
           Pending(r)' = <<>> <=> Pending(r) = <<>>,
           Last(Pending(r)') = Last(Pending(r)),
           Range(Pending(r)') = Range(Pending(r))
    PROVE  \A q \in Runners : Calm(q)
<1> SUFFICES ASSUME NEW q \in Runners PROVE Calm(q)
  OBVIOUS
<1>1. CASE q = r
  <2>1. link'[r].session = link[r].session
    BY DEF Holds
  <2>2. Announced(r) => Announced(r)'
    BY DEF Announced
  <2>3. Steady(link[r].session)
    BY DEF Steady
  <2> QED BY <1>1, <2>1, <2>2, <2>3 DEF Calm
<1>2. CASE q # r
  <2>1. link'[q] = link[q]
    BY <1>2 DEF Holds
  <2>2. Pending(q)' = Pending(q)
    BY <2>1 DEF Pending
  <2>3. Steady(link[q].session)
    BY DEF Steady
  <2> QED BY <2>1, <2>2, <2>3 DEF Calm, Announced
<1> QED BY <1>1, <1>2

LEMMA HeldAttached ==
    ASSUME ViewTyped, AttachedOK, NEW r \in Held
    PROVE  r \in Runners /\ link[r].session \in Sessions
<1>1. r \in Runners /\ link[r].session # NoSession
  BY HeldIs DEF AttachedOK
<1> QED BY <1>1, LinksTyped

LEMMA OwedKept ==
    ASSUME NEW r, WayOf(r) \ {0} \subseteq WayOf(r)', via' = via, Owed(r)
    PROVE  Owed(r)'
<1>1. PICK m \in Messages : via[m] = r /\ m \in WayOf(r)
  BY DEF Owed
<1>2. m \in WayOf(r)'
  BY <1>1, ConstantsTyped
<1> QED BY <1>1, <1>2 DEF Owed

\* The connection takes a message on or drops it.
LEMMA SpanByLink ==
    ASSUME ViewTyped, AttachedOK, SpanInv, Link, ~DrainEvents
    PROVE  SpanInv'
<1> USE DEF client, daemon, counters, history
<1>1. UNCHANGED <<view, saved, via, recalled, sure, driver, heard, lagged, batch>>
  BY DEF Link, Forward, Deliver, TimeOut, Receive, Drain
<1>2. ASSUME NEW r \in Runners, NEW out, NEW req, NEW bus, NEW es,
             Holds(r, out, req, bus, es),
             Pending(r)' = <<>> <=> Pending(r) = <<>>,
             Last(Pending(r)') = Last(Pending(r)),
             Range(Pending(r)') = Range(Pending(r)),
             \A q \in Held : WayOf(q) \ {0} \subseteq WayOf(q)'
      PROVE  SpanInv'
  <2>1. \A q \in Runners : Calm(q)
    BY <1>1, <1>2, LinkMoves
  <2>2. \A q \in Held : Owed(q) => Owed(q)'
    BY <1>1, <1>2, OwedKept
  <2>3. \A q \in Held : (Calm(q) /\ (Owed(q) => Owed(q)')) \/ Roused(q)
    BY <2>1, <2>2, HeldIs
  <2> QED BY <1>1, <2>3, SpanRests
<1>3. ASSUME NEW r \in Runners, NEW out, NEW req,
             Holds(r, out, req, link[r].bus, link[r].events),
             \A q \in Held : WayOf(q) \ {0} \subseteq WayOf(q)'
      PROVE  SpanInv'
  <2>1. Pending(r)' = Pending(r)
    BY <1>3 DEF Holds, Pending
  <2> QED BY <1>2, <1>3, <2>1
<1>4. ASSUME NEW r \in Runners, Forward(r) PROVE SpanInv'
  <2> DEFINE o == link[r].outbox
  <2>1. /\ link[r].request = 0 /\ o # <<>>
        /\ Holds(r, Tail(o), Head(o), link[r].bus, link[r].events)
    BY <1>4, ForwardIs
  <2>2. Range(o) = Range(Tail(o)) \cup {Head(o)}
    <3>1. o \in Seq(Messages) /\ o # <<>>
      BY <2>1, LinksTyped
    <3> HIDE DEF o
    <3> QED BY <3>1, Tailed
  <2>3. UNCHANGED <<input, dropped>>
    BY <1>4 DEF Forward
  <2> HIDE DEF o
  <2>4. ASSUME NEW q \in Held PROVE WayOf(q) \ {0} \subseteq WayOf(q)'
    <3>0. q \in Runners
      BY HeldAttached
    <3>1. CASE q = r
      <4>1. /\ link'[r].session = link[r].session /\ link'[r].request = Head(o)
            /\ link'[r].outbox = Tail(o)
        BY <2>1 DEF Holds
      <4>2. link[r].outbox = o
        BY DEF o
      <4> QED BY <1>1, <2>1, <2>2, <2>3, <3>1, <4>1, <4>2 DEF WayOf
    <3>2. CASE q # r
      <4>1. link'[q] = link[q]
        BY <2>1, <3>0, <3>2 DEF Holds
      <4> QED BY <1>1, <2>3, <4>1 DEF WayOf
    <3> QED BY <3>1, <3>2
  <2> QED BY <1>3, <2>1, <2>4
<1>5. ASSUME NEW r \in Runners, Deliver(r) PROVE SpanInv'
  <2> DEFINE m == link[r].request
             s == link[r].session
  <2>1. /\ m \in Messages /\ s \in Sessions
        /\ Accepted(s, m) \/ Lost(m)
    BY <1>5, DeliverIs
  <2>2. Holds(r, link[r].outbox, 0, link[r].bus, link[r].events)
    BY <1>5, DeliverIs
  <2>3. /\ dropped \subseteq dropped'
        /\ \A t \in Sessions : Range(input[t]) \subseteq Range(input'[t])
        /\ m \in dropped' \cup Range(input'[s])
    <3> HIDE DEF m, s
    <3>1. CASE Lost(m)
      BY <3>1 DEF Lost
    <3>2. CASE Accepted(s, m)
      <4>1. input' = [input EXCEPT ![s] = Append(input[s], m)] /\ dropped' = dropped
        BY <3>2 DEF Accepted
      <4>2. Range(Append(input[s], m)) = Range(input[s]) \cup {m}
        BY <2>1, QueuesTyped, Appended
      <4>3. /\ input'[s] = Append(input[s], m)
            /\ \A t \in Sessions : t # s => input'[t] = input[t]
        <5>1. input \in [Sessions -> Seq(Messages)]
          BY DEF ViewTyped
        <5> QED BY <2>1, <4>1, <5>1
      <4> QED BY <2>1, <4>1, <4>2, <4>3
    <3> QED BY <2>1, <3>1, <3>2
  <2>4. ASSUME NEW q \in Held PROVE WayOf(q) \ {0} \subseteq WayOf(q)'
    <3>0. q \in Runners /\ link[q].session \in Sessions
      BY HeldAttached
    <3>1. CASE q = r
      <4>1. /\ link'[r].session = s /\ link'[r].outbox = link[r].outbox
            /\ link'[r].request = 0
        BY <2>2 DEF Holds
      <4>2. link[r].session = s /\ link[r].request = m
        OBVIOUS
      <4> HIDE DEF m, s
      <4> QED BY <1>1, <2>1, <2>3, <3>1, <4>1, <4>2 DEF WayOf
    <3>2. CASE q # r
      <4>1. link'[q] = link[q]
        BY <2>2, <3>0, <3>2 DEF Holds
      <4> QED BY <1>1, <2>3, <3>0, <4>1 DEF WayOf
    <3> QED BY <3>1, <3>2
  <2> QED BY <1>3, <2>2, <2>4
<1>6. ASSUME NEW r \in Runners, TimeOut(r) PROVE SpanInv'
  <2>1. /\ dropped' = dropped \cup Range(link[r].outbox)
        /\ Holds(r, <<>>, link[r].request, link[r].bus, link[r].events)
    BY <1>6, TimeOutIs
  <2>2. input' = input
    BY <1>6 DEF TimeOut
  <2>3. ASSUME NEW q \in Held PROVE WayOf(q) \ {0} \subseteq WayOf(q)'
    <3>0. q \in Runners
      BY HeldAttached
    <3>1. CASE q = r
      <4>1. link'[r].session = link[r].session /\ link'[r].request = link[r].request
        BY <2>1 DEF Holds
      <4> QED BY <1>1, <2>1, <2>2, <3>1, <4>1 DEF WayOf
    <3>2. CASE q # r
      <4>1. link'[q] = link[q]
        BY <2>1, <3>0, <3>2 DEF Holds
      <4> QED BY <1>1, <2>1, <2>2, <4>1 DEF WayOf
    <3> QED BY <3>1, <3>2
  <2> QED BY <1>3, <2>1, <2>3
<1>7. ASSUME NEW r \in Runners, Receive(r) PROVE SpanInv'
  <2>1. UNCHANGED <<input, dropped>>
    BY <1>7 DEF Receive
  <2> DEFINE bus == Tail(link[r].bus)
             es == Append(link[r].events, Head(link[r].bus))
  <2>2. /\ Holds(r, link[r].outbox, link[r].request, bus, es)
        /\ Pending(r)' # <<>> /\ Pending(r) # <<>>
        /\ Last(Pending(r)') = Last(Pending(r))
        /\ Range(Pending(r)') = Range(Pending(r))
    BY <1>7, ReceiveIs
  <2> HIDE DEF bus, es
  <2>3. \A q \in Held : WayOf(q) \ {0} \subseteq WayOf(q)'
    <3>1. \A q \in Runners : /\ link'[q].session = link[q].session
                             /\ link'[q].outbox = link[q].outbox
                             /\ link'[q].request = link[q].request
      BY <2>2 DEF Holds
    <3> QED BY <1>1, <2>1, <3>1, HeldAttached DEF WayOf
  <2> QED BY <1>2, <2>2, <2>3
<1>8. CASE Drain
  <2>1. UNCHANGED <<link, input, dropped>>
    BY <1>8 DEF Drain
  <2>2. \A q \in Held : Calm(q) /\ (Owed(q) => Owed(q)')
    BY <1>1, <2>1 DEF Calm, Owed, WayOf, Announced, Pending, Steady
  <2> QED BY <1>1, <2>2, SpanRests
<1> QED BY <1>4, <1>5, <1>6, <1>7, <1>8 DEF Link

\* A driver takes its messages on, tells of what it does, or dies.
LEMMA SpanByDriver ==
    ASSUME ViewTyped, AttachedOK, SpanInv, NEW s \in Sessions,
           DriverMoves(s)
    PROVE  SpanInv'
<1>1. Driven(s)
  BY DriverTyped
<1>2. UNCHANGED <<view, saved, via, recalled, sure>>
  BY <1>1 DEF Driven
<1>3. CASE Take(s)
  <2>1. /\ driver[s] = "idle" /\ driver'[s] = "screening"
        /\ batch'[s] = input[s] /\ input'[s] = <<>> /\ heard' = heard /\ dropped' = dropped
        /\ UNCHANGED <<link, lagged>>
    BY <1>3, TakeIs
  <2>2. batch[s] = <<>>
    BY <2>1 DEF AttachedOK
  <2>3. Range(<<>>) = {}
    BY DEF Range
  <2>4. \A t \in Sessions : /\ Range(batch[t]) \cup Range(input[t]) =
                               Range(batch'[t]) \cup Range(input'[t])
                            /\ Steady(t)
    <3>1. \A t \in Sessions : t # s => /\ batch'[t] = batch[t] /\ input'[t] = input[t]
                                       /\ driver'[t] = driver[t]
      BY <1>1 DEF Driven
    <3> QED BY <2>1, <2>2, <2>3, <3>1 DEF Steady
  <2>5. ASSUME NEW q \in Held PROVE Calm(q) /\ (Owed(q) => Owed(q)')
    <3>1. q \in Runners /\ link[q].session \in Sessions
      BY HeldAttached
    <3>2. WayOf(q) \ {0} \subseteq WayOf(q)'
      BY <2>1, <2>4, <3>1 DEF WayOf
    <3>3. Owed(q) => Owed(q)'
      BY <1>2, <3>2, OwedKept
    <3>4. Calm(q)
      BY <2>1, <2>4, <3>1 DEF Calm, Announced, Pending
    <3> QED BY <3>3, <3>4
  <2> QED BY <1>2, <2>5, SpanRests
<1>4. CASE Fail(s)
  <2>1. Discarded(s) /\ UNCHANGED <<link, lagged>>
    BY <1>4, FailIs
  <2>2. /\ heard' = heard
        /\ dropped' = dropped \cup Range(input[s]) \cup Range(batch[s])
    BY <2>1 DEF Discarded
  <2>3. driver' = [driver EXCEPT ![s] = "dead"]
    BY <2>1 DEF Discarded
  <2>4. \A t \in Sessions : Steady(t)
    BY <2>3 DEF ViewTyped, Steady
  <2>5. \A t \in Sessions : Range(batch[t]) \cup Range(input[t]) \subseteq
                          Range(batch'[t]) \cup Range(input'[t]) \cup dropped'
    <3>1. \A t \in Sessions : t # s => /\ batch'[t] = batch[t] /\ input'[t] = input[t]
      BY <1>1 DEF Driven
    <3> QED BY <2>2, <3>1
  <2>6. ASSUME NEW q \in Held PROVE Calm(q) /\ (Owed(q) => Owed(q)')
    <3>1. q \in Runners /\ link[q].session \in Sessions
      BY HeldAttached
    <3>2. WayOf(q) \ {0} \subseteq WayOf(q)'
      BY <2>1, <2>2, <2>5, <3>1 DEF WayOf
    <3>3. Owed(q) => Owed(q)'
      BY <1>2, <3>2, OwedKept
    <3>4. Calm(q)
      BY <2>1, <2>2, <2>4, <3>1 DEF Calm, Announced, Pending
    <3> QED BY <3>3, <3>4
  <2> QED BY <1>2, <2>6, SpanRests
<1>5. ASSUME NEW e \in Events, Speaks(s, e) PROVE SpanInv'
  <2>1. /\ heard'[s] # heard[s] => e = "thinking"
        /\ driver'[s] \in {"working", "dead"} <=> e # "idle"
        /\ driver'[s] # "dead" /\ Emitted(s, e) /\ UNCHANGED dropped
    BY <1>5 DEF Speaks
  <2>2. ASSUME NEW q \in Held
        PROVE  (Calm(q) /\ (Owed(q) => Owed(q)')) \/ Roused(q)
    <3>1. q \in Runners /\ link[q].session \in Sessions
      BY HeldAttached
    <3>2. lagged \subseteq lagged' /\ link'[q].session = link[q].session
      BY <2>1, <3>1 DEF Emitted
    <3>3. CASE link[q].session # s
      <4>1. link'[q] = link[q]
        BY <2>1, <3>1, <3>3 DEF Emitted
      <4>2. PICK t \in Sessions : t = link[q].session
        BY <3>1
      <4>3. /\ driver'[t] = driver[t] /\ input'[t] = input[t]
            /\ batch'[t] = batch[t] /\ heard'[t] = heard[t]
        BY <1>1, <3>3, <4>2 DEF Driven
      <4>4. Calm(q)
        BY <3>2, <4>1, <4>2, <4>3 DEF Calm, Announced, Pending, Steady
      <4>5. WayOf(q) \ {0} \subseteq WayOf(q)'
        BY <2>1, <4>1, <4>2, <4>3 DEF WayOf
      <4>6. Owed(q) => Owed(q)'
        BY <1>2, <4>5, OwedKept
      <4> QED BY <4>4, <4>6
    <3>4. CASE link[q].session = s
      <4>1. /\ Pending(q)' # <<>> /\ Last(Pending(q)') = e
            /\ Announced(q) \/ e = "thinking" => Announced(q)'
        BY <2>1, <3>1, <3>4 DEF Emitted
      <4>2. LastTells(q)'
        BY <2>1, <3>2, <3>4, <4>1 DEF LastTells
      <4>3. Announced(q)' \/ heard'[s] = heard[s]
        BY <2>1, <4>1
      <4> QED BY <3>2, <3>4, <4>1, <4>2, <4>3 DEF Roused
    <3> QED BY <3>3, <3>4
  <2> QED BY <1>2, <2>2, SpanRests
<1> QED BY <1>3, <1>4, <1>5, DriverMovesIs

LEMMA ToldView ==
    ASSUME NEW r, NEW S, NEW Q, view'.runner = r, Range(view'.shown) = S,
           Range(view'.queue) = Q, r # 0 => ToldTo(r, S, Q)'
    PROVE  Told(view)'
BY DEF Told, ToldTo, Took, Announced

LEMMA ToldSaved ==
    ASSUME NEW r, NEW S, NEW Q, saved'.runner = r, Range(saved'.shown) = S,
           Range(saved'.queue) = Q, r # 0 => ToldTo(r, S, Q)'
    PROVE  Told(saved)'
BY DEF Told, ToldTo, Took, Announced

LEMMA QuietView ==
    ASSUME NEW r, NEW b, view'.runner = r, view'.busy = b, QuietAt(r, b)'
    PROVE  QuietOK'
BY DEF QuietOK, QuietAt

LEMMA ToldRests ==
    ASSUME NEW r, NEW S, NEW Q, ToldTo(r, S, Q), Took(r)' \subseteq Took(r), Calm(r)
    PROVE  ToldTo(r, S, Q)'
BY DEF ToldTo, Calm

\* A runner just attached has taken nothing and nothing is under way to it; the others are
\* as they were.
LEMMA SeatedSpan ==
    ASSUME ViewTyped, AttachedOK, NEW r, NEW s, Seats(r, s),
           UNCHANGED <<heard, lagged>>
    PROVE  /\ r \in Runners /\ r \notin Held /\ Took(r) = {}
           /\ Pending(r)' = <<>> /\ LastTells(r)' /\ link'[r].session = s
           /\ \A q \in Held : Steady(link[q].session) => Calm(q)
<1>1. r \in Runners /\ link[r].session = NoSession /\ link'[r].session = s
  BY UnusedIs DEF Seats
<1>2. r \notin Held
  BY <1>1, HeldAttached, ConstantsTyped
<1>3. Took(r) = {}
  BY <1>1, ConstantsTyped DEF Took, AttachedOK, Fixed
<1>4. Pending(r)' = <<>>
  <2>1. link'[r].events = <<>> /\ link'[r].bus = <<>>
    BY DEF Seats
  <2>2. <<>> \o <<>> = <<>>
    OBVIOUS
  <2> QED BY <2>1, <2>2 DEF Pending
<1>5. ASSUME NEW q \in Held, Steady(link[q].session) PROVE Calm(q)
  <2>1. q \in Runners /\ q # r
    BY <1>2, HeldAttached
  <2>2. /\ link'[q].session = link[q].session /\ link'[q].bus = link[q].bus
        /\ link'[q].events = link[q].events
    BY <2>1 DEF Seats
  <2>3. Pending(q)' = Pending(q)
    BY <2>2 DEF Pending
  <2> QED BY <1>5, <2>2, <2>3 DEF Calm, Announced
<1> QED BY <1>1, <1>2, <1>3, <1>4, <1>5 DEF LastTells

LEMMA TookRests == ASSUME UNCHANGED <<via, recalled>> PROVE \A r : Took(r)' = Took(r)
BY DEF Took, Fixed

LEMMA SpanByChoice ==
    ASSUME ViewTyped, AttachedOK, SpanInv, Choice
    PROVE  SpanInv'
<1> USE DEF client, daemon, counters, history
<1>1. UNCHANGED <<via, recalled, lagged>>
  BY DEF Choice, AttachForDisplay, EnterSide, EndSide, NewSession, Resume
<1>2. \A r : Took(r)' = Took(r)
  BY <1>1, TookRests
<1>3. CASE AttachForDisplay
  <2>1. PICK s \in Sessions \ Known : Seats(NextRunner, s)
    <3>1. PICK s \in Fresh : link' = Attached(s)
      BY <1>3 DEF AttachForDisplay
    <3>2. view'.runner = NextRunner /\ CanAttach /\ s \in Sessions \ Known
      BY <1>3, ViewsTyped DEF AttachForDisplay, Fresh, ViewTyped, Views
    <3> QED BY <3>1, <3>2, SeatsIs
  <2>2. UNCHANGED <<saved, driver, heard, sure>> /\ view.runner = 0
    BY <1>3 DEF AttachForDisplay
  <2>3. PICK r : r = NextRunner
    OBVIOUS
  <2>4. /\ view'.runner = r /\ view'.busy = view.busy /\ saved'.runner = 0
    <3>1. view' = [view EXCEPT !.runner = NextRunner]
      BY <1>3 DEF AttachForDisplay
    <3> QED BY <2>2, <2>3, <3>1 DEF AttachedOK, ViewTyped, Views
  <2>5. Took(r)' = {} /\ Pending(r)' = <<>> /\ LastTells(r)' /\ link'[r].session = s
    BY <1>1, <1>2, <2>1, <2>2, <2>3, SeatedSpan
  <2>6. ToldOK'
    <3>1. \A S, Q : ToldTo(r, S, Q)'
      BY <2>5 DEF ToldTo
    <3>2. Told(view)'
      BY <2>4, <3>1, ToldView
    <3>3. Told(saved)'
      BY <2>4 DEF Told
    <3> QED BY <3>2, <3>3 DEF ToldOK
  <2>7. LastOK'
    <3>1. \A q \in Held' : q = r
      BY <2>4 DEF Held
    <3> QED BY <2>5, <3>1 DEF LastOK, LastTells
  <2>8. QuietOK'
    <3>1. PICK b : b = view.busy
      OBVIOUS
    <3>2. sure => ~b
      BY <2>2, <3>1 DEF SpanInv, QuietOK, QuietAt
    <3>3. driver'[s] = "idle"
      BY <2>1, <2>2 DEF AttachedOK
    <3>4. QuietAt(r, b)'
      BY <2>2, <2>5, <3>2, <3>3 DEF QuietAt
    <3> QED BY <2>4, <3>1, <3>4, QuietView
  <2> QED BY <2>6, <2>7, <2>8 DEF SpanInv
<1>4. CASE EnterSide
  <2>1. PICK s \in Sessions \ Known : Seats(NextRunner, s)
    <3>1. PICK s \in Fresh : link' = Attached(s)
      BY <1>4 DEF EnterSide
    <3>2. view'.runner = NextRunner /\ CanAttach /\ s \in Sessions \ Known
      BY <1>4, ViewsTyped DEF EnterSide, Fresh, ViewTyped, Views
    <3> QED BY <3>1, <3>2, SeatsIs
  <2>2. UNCHANGED <<driver, heard>> /\ sure' = ~view.busy /\ saved' = view /\ view.runner # 0
    BY <1>4 DEF EnterSide
  <2>3. PICK r, q : r = NextRunner /\ q = view.runner
    OBVIOUS
  <2>4. view'.runner = r /\ view'.busy = view.busy
    BY <1>4, <2>3 DEF EnterSide, ViewTyped, Views
  <2>5. Took(r)' = {} /\ Pending(r)' = <<>> /\ LastTells(r)' /\ link'[r].session = s
    BY <1>1, <1>2, <2>1, <2>2, <2>3, SeatedSpan
  <2>6. q \in Held /\ Calm(q)
    <3>1. q \in Held
      BY <2>2, <2>3, HeldIs
    <3>2. Steady(link[q].session)
      BY <2>2 DEF Steady
    <3> QED BY <1>1, <2>1, <2>2, <2>3, <3>1, <3>2, SeatedSpan
  <2>7. ToldOK'
    <3>1. \A S, Q : ToldTo(r, S, Q)'
      BY <2>5 DEF ToldTo
    <3>2. Told(view)'
      BY <2>4, <3>1, ToldView
    <3>3. PICK S, Q : S = Range(view.shown) /\ Q = Range(view.queue)
      OBVIOUS
    <3>4. ToldTo(q, S, Q)
      BY <2>2, <2>3, <3>3 DEF SpanInv, ToldOK, Told
    <3>5. ToldTo(q, S, Q)'
      BY <1>2, <2>6, <3>4, ToldRests
    <3>6. Told(saved)'
      BY <2>2, <2>3, <3>3, <3>5, ToldSaved
    <3> QED BY <3>2, <3>6 DEF ToldOK
  <2>8. LastOK'
    <3>1. \A p \in Held' : p = r \/ p = q
      BY <2>2, <2>3, <2>4 DEF Held
    <3>2. LastTells(q)'
      BY <2>6, LastKept DEF SpanInv, LastOK
    <3> QED BY <2>5, <3>1, <3>2 DEF LastOK, LastTells
  <2>9. QuietOK'
    <3>1. PICK b : b = view.busy
      OBVIOUS
    <3>2. driver'[s] = "idle"
      BY <2>1, <2>2 DEF AttachedOK
    <3>3. QuietAt(r, b)'
      BY <2>2, <2>5, <3>1, <3>2 DEF QuietAt
    <3> QED BY <2>4, <3>1, <3>3, QuietView
  <2> QED BY <2>7, <2>8, <2>9 DEF SpanInv
<1>5. CASE EndSide
  <2>1. /\ InSide /\ DiscardFork /\ UNCHANGED link /\ sure' = FALSE
        /\ view' = Restored /\ saved'.runner = 0
    BY <1>5, BlankShown DEF EndSide
  <2>2. PICK q : q = saved.runner
    OBVIOUS
  <2>3. /\ view'.runner = q /\ view'.shown = saved.shown /\ view'.queue = saved.queue
        /\ view'.busy = view.busy
    BY <2>1, <2>2 DEF Restored, ViewTyped, Views
  <2>4. heard' = heard /\ \A t \in Sessions : Steady(t)
    <3>1. Current \in Sessions /\ Discarded(Current)
      BY <2>1, ForkIs
    <3> QED BY <3>1 DEF Discarded, ViewTyped, Steady
  <2>5. q # 0 /\ q \in Held /\ Calm(q)
    <3>1. q # 0 /\ q \in Held
      BY <2>1, <2>2, HeldIs DEF InSide
    <3>2. link[q].session \in Sessions
      BY <3>1, HeldAttached
    <3> QED BY <1>1, <2>1, <2>4, <3>1, <3>2 DEF Calm, Announced, Pending
  <2>6. ToldOK'
    <3>1. PICK S, Q : S = Range(saved.shown) /\ Q = Range(saved.queue)
      OBVIOUS
    <3>2. ToldTo(q, S, Q)
      BY <2>2, <2>5, <3>1 DEF SpanInv, ToldOK, Told
    <3>3. ToldTo(q, S, Q)'
      BY <1>2, <2>5, <3>2, ToldRests
    <3>4. Told(view)'
      BY <2>3, <3>1, <3>3, ToldView
    <3>5. Told(saved)'
      BY <2>1 DEF Told
    <3> QED BY <3>4, <3>5 DEF ToldOK
  <2>7. LastOK'
    <3>1. \A p \in Held' : p = q
      BY <2>1, <2>3 DEF Held
    <3>2. LastTells(q)'
      BY <2>5, LastKept DEF SpanInv, LastOK
    <3> QED BY <3>1, <3>2 DEF LastOK, LastTells
  <2>8. QuietOK'
    BY <2>1 DEF QuietOK, QuietAt
  <2> QED BY <2>6, <2>7, <2>8 DEF SpanInv
<1>6. CASE NewSession
  <2>1. view'.runner = 0 /\ saved'.runner = 0 /\ view'.busy = view.busy /\ sure' = ~view.busy
    BY <1>6 DEF NewSession, Blank
  <2>2. ToldOK' /\ LastOK'
    BY <2>1 DEF ToldOK, Told, LastOK, Held
  <2>3. QuietOK'
    BY <2>1 DEF QuietOK, QuietAt
  <2> QED BY <2>2, <2>3 DEF SpanInv
<1>7. ASSUME NEW s \in Sessions, Resume(s) PROVE SpanInv'
  <2>1. /\ link' = Attached(s) /\ view'.runner = NextRunner /\ CanAttach
        /\ saved'.runner = 0 /\ sure' = FALSE /\ EndOpenSide
    BY <1>7 DEF Resume, Blank
  <2>2. heard' = heard
    BY <2>1 DEF EndOpenSide, DiscardFork
  <2>3. Seats(NextRunner, s)
    BY <2>1, SeatsIs
  <2>4. PICK r : r = NextRunner
    OBVIOUS
  <2>5. Took(r)' = {} /\ LastTells(r)'
    BY <1>1, <1>2, <2>2, <2>3, <2>4, SeatedSpan
  <2>6. ToldOK'
    <3>1. \A S, Q : ToldTo(r, S, Q)'
      BY <2>5 DEF ToldTo
    <3>2. Told(view)'
      BY <2>1, <2>4, <3>1, ToldView
    <3>3. Told(saved)'
      BY <2>1 DEF Told
    <3> QED BY <3>2, <3>3 DEF ToldOK
  <2>7. LastOK'
    <3>1. \A q \in Held' : q = r
      BY <2>1, <2>4 DEF Held
    <3> QED BY <2>5, <3>1 DEF LastOK, LastTells
  <2>8. QuietOK'
    BY <2>1 DEF QuietOK, QuietAt
  <2> QED BY <2>6, <2>7, <2>8 DEF SpanInv
<1> QED BY <1>3, <1>4, <1>5, <1>6, <1>7 DEF Choice

\* A message just written, or sent again, was not heard by anybody.
LEMMA Unheard ==
    ASSUME ViewTyped, TransportOK, NEW m,
           m \in recalled \/ m = written + 1
    PROVE  \A t \in Sessions : {m} \cap Fixed \cap Range(heard[t]) = {}
<1>1. ASSUME NEW t \in Sessions PROVE Range(heard[t]) \subseteq 1..written
  <2>1. PICK A : A = Carried
    OBVIOUS
  <2>2. A[<<"heard", t>>] = heard[t] /\ <<"heard", t>> \in Places
    BY <2>1, WhatIsCarried, OnePlace DEF Holdings
  <2>3. Apart(A, Fixed, written)
    BY <2>1 DEF TransportOK
  <2> QED BY <2>2, <2>3 DEF Apart
<1>2. written \in Nat
  BY WritingTyped
<1>3. m \in recalled => {m} \cap Fixed = {}
  BY DEF Fixed
<1>4. ASSUME m = written + 1 PROVE m \notin 1..written
  BY <1>2, <1>4
<1> QED BY <1>1, <1>3, <1>4

\* The session of a fresh runner has a driver at rest, and the view is not busy, if at all,
\* for nothing.
LEMMA SpanBySubmit ==
    ASSUME ViewTyped, AttachedOK, ShownOK, TransportOK, SpanInv,
           Submit
    PROVE  SpanInv'
<1> USE DEF client, daemon, counters, history
<1>1. PICK m : m = Submitted
  OBVIOUS
<1>2. m \in Messages /\ (m \in recalled \/ m = written + 1)
  <2>1. Submitted \in Messages
    BY DEF Submit
  <2> QED BY <1>1, <2>1, SubmittedIs
<1>3. PICK r \in 0..MaxRunners, l \in [Runners -> Links], sent \in BOOLEAN :
            /\ Dispatched(m, r, l, sent)
            /\ \/ r = view.runner /\ l = link
               \/ view.runner = 0 /\ \E s \in Sessions \ Known : Joins(r, s, l)
  BY <1>1, SubmitIs
<1>4. UNCHANGED <<saved, input, batch, driver, heard, dropped, recalled, lagged>>
  BY DEF Submit
<1>5. PICK b : b = view.busy
  OBVIOUS
<1>6. b \in BOOLEAN /\ sure \in BOOLEAN
  BY <1>5 DEF ViewTyped, Views
<1>7. /\ view'.runner = r /\ view'.busy = (sent \/ b) /\ sure' = (sure \/ (~b /\ sent))
      /\ view'.queue = IF b THEN Append(view.queue, m) ELSE view.queue
      /\ view'.shown = IF b THEN view.shown ELSE Append(view.shown, m)
      /\ sent => r \in Runners
  BY <1>3, <1>5 DEF Dispatched
<1>8. PICK S, Q, T, P : /\ S = Range(view.shown) /\ Q = Range(view.queue)
                        /\ T = Range(view'.shown) /\ P = Range(view'.queue)
  OBVIOUS
<1>9. S \subseteq T /\ Q \subseteq P /\ T \cup P = S \cup Q \cup {m}
  <2>1. /\ Range(Append(view.queue, m)) = Q \cup {m}
        /\ Range(Append(view.shown, m)) = S \cup {m}
    BY <1>2, <1>8, ViewsTyped, Appended
  <2> QED BY <1>6, <1>7, <1>8, <2>1
<1>10. PICK N : N = {m} \cap Fixed
  OBVIOUS
<1>11. \A t \in Sessions : N \cap Range(heard[t]) = {}
  BY <1>2, <1>10, Unheard
<1>12. /\ Took(r)' \subseteq Took(r) \cup N
       /\ \A q : q # r => Took(q)' \subseteq Took(q)
       /\ Fixed' = Fixed
  <2>1. \A n \in Messages : via'[n] = IF sent /\ n = m THEN r ELSE via[n]
    BY <1>3 DEF Dispatched
  <2>2. Fixed' = Fixed /\ Fixed \subseteq Messages
    BY <1>4 DEF Fixed
  <2> QED BY <1>10, <2>1, <2>2 DEF Took
<1>13. \A q \in Runners :
          /\ link'[q].session = l[q].session /\ link'[q].request = l[q].request
          /\ link'[q].bus = l[q].bus /\ link'[q].events = l[q].events
          /\ link'[q].outbox = IF sent /\ q = r THEN Append(l[q].outbox, m) ELSE l[q].outbox
          /\ q # r => link'[q] = l[q]
  BY <1>3 DEF Dispatched
<1>14. sent => Owed(r)'
  <2> SUFFICES ASSUME sent PROVE Owed(r)'
    OBVIOUS
  <2>1. r \in Runners /\ l[r].outbox \in Seq(Messages)
    BY <1>7 DEF Links
  <2>2. Range(Append(l[r].outbox, m)) = Range(l[r].outbox) \cup {m}
    BY <1>2, <2>1, Appended
  <2>3. link'[r].outbox = Append(l[r].outbox, m)
    BY <1>13, <2>1
  <2>4. m \in WayOf(r)'
    BY <2>2, <2>3 DEF WayOf
  <2>5. via'[m] = r
    BY <1>2, <1>3 DEF Dispatched
  <2> QED BY <1>2, <2>4, <2>5 DEF Owed
<1>15. CASE r = view.runner /\ l = link
  <2>1. \A q \in Held : Calm(q) /\ LastTells(q)'
    <3>1. ASSUME NEW q \in Held PROVE Calm(q) /\ LastTells(q)'
      <4>1. q \in Runners
        BY HeldAttached
      <4>2. /\ link'[q].session = link[q].session /\ link'[q].bus = link[q].bus
            /\ link'[q].events = link[q].events
        BY <1>13, <1>15, <4>1
      <4>3. Pending(q)' = Pending(q)
        BY <4>2 DEF Pending
      <4>4. Calm(q)
        BY <1>4, <4>2, <4>3 DEF Calm, Announced, Steady
      <4> QED BY <4>4, LastKept DEF SpanInv, LastOK
    <3> QED BY <3>1
  <2>2. Held' = Held
    BY <1>4, <1>7, <1>15 DEF Held
  <2>3. r # 0 => r \in Held /\ link[r].session \in Sessions
    BY <1>15, HeldIs, HeldAttached
  <2>4. ToldOK'
    <3>1. ASSUME r # 0 PROVE ToldTo(r, T, P)'
      <4>1. ToldTo(r, S, Q)
        BY <1>8, <1>15, <3>1 DEF SpanInv, ToldOK, Told
      <4>2. Calm(r) /\ N \cap Range(heard[link[r].session]) = {}
        BY <1>11, <2>1, <2>3, <3>1
      <4>3. /\ Announced(r) => Announced(r)'
            /\ heard'[link'[r].session] = heard[link[r].session]
        BY <1>4, <4>2 DEF Calm
      <4>4. Took(r)' \subseteq T \cup P
        BY <1>9, <1>10, <1>12, <4>1 DEF ToldTo
      <4>5. Announced(r)' \/ Took(r)' \cap Range(heard'[link'[r].session]) \subseteq T
        BY <1>9, <1>12, <4>1, <4>2, <4>3 DEF ToldTo
      <4> QED BY <4>4, <4>5 DEF ToldTo
    <3>2. Told(view)'
      BY <1>7, <1>8, <3>1, ToldView
    <3>3. PICK q, U, V : /\ q = saved.runner /\ U = Range(saved.shown)
                         /\ V = Range(saved.queue)
      OBVIOUS
    <3>4. ASSUME q # 0 PROVE ToldTo(q, U, V)'
      <4>1. ToldTo(q, U, V) /\ q # r /\ q \in Held
        BY <1>15, <3>3, <3>4, HeldIs DEF SpanInv, ToldOK, Told, AttachedOK
      <4> QED BY <1>12, <2>1, <4>1, ToldRests
    <3>5. Told(saved)'
      BY <1>4, <3>3, <3>4, ToldSaved
    <3> QED BY <3>2, <3>5 DEF ToldOK
  <2>5. LastOK'
    BY <2>1, <2>2 DEF LastOK, LastTells
  <2>6. QuietOK'
    <3>1. QuietAt(r, b)
      BY <1>5, <1>15 DEF SpanInv, QuietOK
    <3>2. CASE r = 0
      <4>1. ~sent
        BY <1>7, <3>2, ConstantsTyped
      <4>2. QuietAt(r, b)'
        BY <1>7, <3>1, <3>2, <4>1 DEF QuietAt
      <4> QED BY <1>6, <1>7, <4>1, <4>2, QuietView
    <3>3. CASE r # 0 /\ sent
      <4>1. QuietAt(r, TRUE)'
        BY <1>14, <3>3 DEF QuietAt
      <4>2. view'.busy = TRUE
        BY <1>7, <3>3
      <4> QED BY <1>7, <4>1, <4>2, QuietView
    <3>4. CASE r # 0 /\ ~sent
      <4>1. sure' => sure
        BY <1>6, <1>7, <3>4
      <4>2. WayOf(r) \ {0} \subseteq WayOf(r)'
        <5>1. r \in Runners
          BY <2>3, <3>4, HeldAttached
        <5>2. /\ link'[r].session = link[r].session /\ link'[r].request = link[r].request
              /\ link'[r].outbox = link[r].outbox
          BY <1>13, <1>15, <3>4, <5>1
        <5> QED BY <1>4, <5>2 DEF WayOf
      <4>3. via' = via
        <5>1. /\ via' \in [Messages -> 0..MaxRunners]
              /\ \A n \in Messages : via'[n] = via[n]
          BY <1>3, <3>4 DEF Dispatched
        <5> QED BY <5>1 DEF ViewTyped
      <4>4. Owed(r) => Owed(r)'
        BY <4>2, <4>3, OwedKept
      <4>5. QuietAt(r, b)'
        BY <2>1, <2>3, <3>1, <3>4, <4>1, <4>4, QuietKept
      <4>6. view'.busy = b
        BY <1>6, <1>7, <3>4
      <4> QED BY <1>7, <4>5, <4>6, QuietView
    <3> QED BY <3>2, <3>3, <3>4
  <2> QED BY <2>4, <2>5, <2>6 DEF SpanInv
<1>16. ASSUME view.runner = 0, NEW s \in Sessions \ Known, Joins(r, s, l)
       PROVE  SpanInv'
  <2>1. Seats(r, s)
    <3>1. /\ r \in Runners /\ link[r] = Unused /\ l[r].session = s
          /\ l[r].bus = <<>> /\ l[r].events = <<>> /\ l[r].request = 0
          /\ \A q \in Runners : q # r => l[q] = link[q]
      BY <1>16, UnusedIs DEF Joins
    <3> QED BY <1>7, <1>13, <3>1 DEF Seats
  <2>2. Took(r) = {} /\ Pending(r)' = <<>> /\ LastTells(r)' /\ link'[r].session = s
    BY <1>4, <2>1, SeatedSpan
  <2>3. saved'.runner = 0
    BY <1>4, <1>16 DEF AttachedOK
  <2>4. ToldOK'
    <3>1. Took(r)' \subseteq N
      BY <1>12, <2>2
    <3>2. N \subseteq T \cup P
      BY <1>9, <1>10
    <3>3. heard'[link'[r].session] = heard[s] /\ N \cap Range(heard[s]) = {}
      BY <1>4, <1>11, <2>2
    <3>4. ToldTo(r, T, P)'
      <4>1. Took(r)' \cap Range(heard'[link'[r].session]) \subseteq T
        BY <3>1, <3>3
      <4> QED BY <3>1, <3>2, <4>1 DEF ToldTo
    <3>5. Told(view)'
      BY <1>7, <1>8, <3>4, ToldView
    <3>6. Told(saved)'
      BY <2>3 DEF Told
    <3> QED BY <3>5, <3>6 DEF ToldOK
  <2>5. LastOK'
    <3>1. \A q \in Held' : q = r
      BY <1>7, <2>3 DEF Held
    <3> QED BY <2>2, <3>1 DEF LastOK, LastTells
  <2>6. QuietOK'
    <3>1. sure => ~b
      BY <1>5, <1>16 DEF SpanInv, QuietOK, QuietAt
    <3>2. driver'[s] = "idle"
      BY <1>4 DEF AttachedOK
    <3>3. r # 0
      BY <2>1, ConstantsTyped DEF Seats
    <3>4. PICK d : d = view'.busy
      OBVIOUS
    <3>5. sure' /\ d => Owed(r)'
      BY <1>6, <1>7, <1>14, <3>1, <3>4
    <3>6. QuietAt(r, d)'
      BY <2>2, <3>2, <3>3, <3>5 DEF QuietAt
    <3> QED BY <1>7, <3>4, <3>6, QuietView
  <2> QED BY <2>4, <2>5, <2>6 DEF SpanInv
<1> QED BY <1>3, <1>15, <1>16

LEMMA SpanByRecall ==
    ASSUME ViewTyped, AttachedOK, SpanInv, Recall
    PROVE  SpanInv'
<1> USE DEF client, daemon, counters, history
<1>1. UNCHANGED <<saved, link, input, batch, driver, heard, via, dropped, lagged, sure>>
  BY DEF Recall
<1>2. /\ view'.runner = view.runner /\ view'.busy = view.busy /\ view'.shown = view.shown
      /\ recalled' = recalled \cup {composer'}
      /\ Range(view.queue) = Range(view'.queue) \cup {composer'}
  BY RecallIs
<1>3. \A q : Took(q)' = Took(q) \ {composer'}
  BY <1>1, <1>2 DEF Took, Fixed
<1>4. \A q \in Held : Calm(q) /\ (Owed(q) => Owed(q)')
  BY <1>1 DEF Calm, Owed, WayOf, Announced, Pending, Steady
<1>5. Held' = Held
  BY <1>1, <1>2 DEF Held
<1>6. ToldOK'
  <2>1. PICK r, S, Q, P, c : /\ r = view.runner /\ S = Range(view.shown)
                             /\ Q = Range(view.queue) /\ P = Range(view'.queue)
                             /\ c = composer'
    OBVIOUS
  <2>2. ASSUME r # 0 PROVE ToldTo(r, S, P)'
    <3>1. ToldTo(r, S, Q) /\ r \in Held
      BY <2>1, <2>2, HeldIs DEF SpanInv, ToldOK, Told
    <3>2. Took(r)' = Took(r) \ {c} /\ Q = P \cup {c}
      BY <1>2, <1>3, <2>1
    <3>3. /\ Announced(r) => Announced(r)'
          /\ heard'[link'[r].session] = heard[link[r].session]
      BY <1>4, <3>1 DEF Calm
    <3>4. Took(r)' \subseteq S \cup P
      BY <3>1, <3>2 DEF ToldTo
    <3>5. Announced(r)' \/ Took(r)' \cap Range(heard'[link'[r].session]) \subseteq S
      BY <3>1, <3>2, <3>3 DEF ToldTo
    <3> QED BY <3>4, <3>5 DEF ToldTo
  <2>3. Told(view)'
    BY <1>2, <2>1, <2>2, ToldView
  <2>4. PICK q, U, V : /\ q = saved.runner /\ U = Range(saved.shown)
                       /\ V = Range(saved.queue)
    OBVIOUS
  <2>5. ASSUME q # 0 PROVE ToldTo(q, U, V)'
    <3>1. ToldTo(q, U, V) /\ q \in Held
      BY <2>4, <2>5, HeldIs DEF SpanInv, ToldOK, Told
    <3>2. Took(q)' \subseteq Took(q)
      BY <1>3
    <3> QED BY <1>4, <3>1, <3>2, ToldRests
  <2>6. Told(saved)'
    BY <1>1, <2>4, <2>5, ToldSaved
  <2> QED BY <2>3, <2>6 DEF ToldOK
<1>7. LastOK'
  <2>1. ASSUME NEW q \in Held PROVE LastTells(q)'
    BY <1>4, LastKept DEF SpanInv, LastOK
  <2> QED BY <1>5, <2>1 DEF LastOK, LastTells
<1>8. QuietOK'
  <2>1. PICK r, b : r = view.runner /\ b = view.busy
    OBVIOUS
  <2>2. QuietAt(r, b) /\ (r # 0 => r \in Held)
    BY <2>1, HeldIs DEF SpanInv, QuietOK
  <2>3. QuietAt(r, b)'
    BY <1>1, <1>4, <2>2, QuietKept
  <2> QED BY <1>2, <2>1, <2>3, QuietView
<1> QED BY <1>6, <1>7, <1>8 DEF SpanInv

LEMMA SpanByCommit ==
    ASSUME ViewTyped, AttachedOK, SpanInv, CommitCompact
    PROVE  SpanInv'
<1> USE DEF client, daemon, counters, history
<1>1. UNCHANGED <<saved, driver, heard, recalled, lagged>> /\ ~InSide
  BY DEF CommitCompact
<1>2. PICK m, r : m = written + 1 /\ r = NextRunner
  OBVIOUS
<1>3. PICK s \in Sessions : Committed(m, r, s)
  BY <1>2, CommitIs
<1>4. Seats(r, s)
  BY <1>3 DEF Committed, Seats
<1>5. /\ Took(r) = {} /\ Pending(r)' = <<>> /\ LastTells(r)' /\ r # 0
  BY <1>1, <1>4, SeatedSpan, ConstantsTyped
<1>6. /\ view'.runner = r /\ view'.busy = TRUE /\ view'.shown = <<m>> /\ view'.queue = <<>>
      /\ m \in Messages /\ link'[r].outbox = <<m>>
  BY <1>3 DEF Committed, Messages
<1>7. via' = [via EXCEPT ![m] = r]
  BY <1>3 DEF Committed
<1>8. Range(<<m>>) = {m} /\ Range(<<>>) = {}
  BY DEF Range
<1>9. saved'.runner = 0
  BY <1>1 DEF InSide
<1>10. ToldOK'
  <2>1. Took(r)' \subseteq {m}
    BY <1>1, <1>5, <1>7 DEF Took, Fixed, ViewTyped
  <2>2. ToldTo(r, {m}, {})'
    BY <2>1 DEF ToldTo
  <2>3. Told(view)'
    BY <1>6, <1>8, <2>2, ToldView
  <2>4. Told(saved)'
    BY <1>9 DEF Told
  <2> QED BY <2>3, <2>4 DEF ToldOK
<1>11. LastOK'
  <2>1. \A q \in Held' : q = r
    BY <1>6, <1>9 DEF Held
  <2> QED BY <1>5, <2>1 DEF LastOK, LastTells
<1>12. QuietOK'
  <2>1. Owed(r)'
    BY <1>6, <1>7, <1>8 DEF Owed, WayOf, ViewTyped
  <2>2. QuietAt(r, TRUE)'
    BY <1>5, <2>1 DEF QuietAt
  <2> QED BY <1>6, <2>2, QuietView
<1> QED BY <1>10, <1>11, <1>12 DEF SpanInv

LEMMA TurnsJoined ==
    ASSUME ViewTyped
    PROVE  Range(view.shown \o view.queue) =
         Range(view.shown) \cup Range(view.queue)
<1>1. PICK a \in Seq(Messages), c \in Seq(Messages) :
              a = view.shown /\ c = view.queue
  BY ViewsTyped
<1>2. Range(a \o c) = Range(a) \cup Range(c)
  BY Joined
<1> QED BY <1>1, <1>2

\* The client takes the events in: the flag is what the last one tells, and after a round
\* all it took are turns.
LEMMA SpanByDrain ==
    ASSUME ViewTyped, AttachedOK, SpanInv, DrainEvents
    PROVE  SpanInv'
<1> USE DEF client, daemon, counters, history
<1>1. /\ UNCHANGED <<saved, input, batch, driver, heard, via, dropped, recalled, lagged>>
      /\ sure' = TRUE
  BY DEF DrainEvents
<1>2. PICK r, es, bus : r = view.runner /\ es = link[r].events /\ bus = link[r].bus
  OBVIOUS
<1>3. PICK shows : shows = ("thinking" \in Range(es))
  OBVIOUS
<1>4. /\ r \in Runners /\ es # <<>>
      /\ Holds(r, link[r].outbox, link[r].request, bus, <<>>)
      /\ view'.runner = r /\ view'.busy = (Last(es) # "idle")
      /\ view'.shown = IF shows THEN view.shown \o view.queue ELSE view.shown
      /\ view'.queue = IF shows THEN <<>> ELSE view.queue
  BY <1>2, <1>3, DrainIs
<1>5. /\ es \in Seq(Events) /\ bus \in Seq(Events)
      /\ Range(Pending(r)) = Range(es) \cup Range(bus)
      /\ bus # <<>> => Last(Pending(r)) = Last(bus)
      /\ bus = <<>> => Pending(r) = es
      /\ Pending(r) # <<>>
  BY <1>2, <1>4, PendingSeq
<1>6. Pending(r)' = bus /\ link'[r].session = link[r].session
  <2>1. link'[r].events = <<>> /\ link'[r].bus = bus /\ link'[r].session = link[r].session
    BY <1>4 DEF Holds
  <2>2. <<>> \o bus = bus
    BY <1>5, ConcatEmptySeq
  <2> QED BY <2>1, <2>2 DEF Pending
<1>7. r \in Held /\ r # 0 /\ LastTells(r)
  BY <1>2, <1>4, HeldIs, ConstantsTyped DEF SpanInv, LastOK
<1>8. Held' = Held
  BY <1>1, <1>2, <1>4 DEF Held
<1>9. \A q \in Held : q # r => Calm(q)
  <2>1. ASSUME NEW q \in Held, q # r PROVE Calm(q)
    <3>1. link'[q] = link[q]
      BY <1>4, <2>1, HeldAttached DEF Holds
    <3>2. Pending(q)' = Pending(q)
      BY <3>1 DEF Pending
    <3> QED BY <1>1, <3>1, <3>2 DEF Calm, Announced, Steady
  <2> QED BY <2>1
<1>10. \A q : Took(q)' = Took(q)
  BY <1>1, TookRests
<1>11. ToldOK'
  <2>1. PICK S, Q, T, P : /\ S = Range(view.shown) /\ Q = Range(view.queue)
                          /\ T = Range(view'.shown) /\ P = Range(view'.queue)
    OBVIOUS
  <2>2. ToldTo(r, S, Q)
    BY <1>2, <1>7, <2>1 DEF SpanInv, ToldOK, Told
  <2>3. T \cup P = S \cup Q /\ S \subseteq T /\ (shows => T = S \cup Q)
    <3>1. Range(view.shown \o view.queue) = S \cup Q /\ Range(<<>>) = {}
      <4>1. Range(view.shown \o view.queue) =
          Range(view.shown) \cup Range(view.queue)
        BY TurnsJoined
      <4>2. Range(<<>>) = {}
        BY DEF Range
      <4> QED BY <2>1, <4>1, <4>2
    <3>2. CASE shows
      BY <1>4, <2>1, <3>1, <3>2
    <3>3. CASE ~shows
      BY <1>4, <2>1, <3>3
    <3> QED BY <3>2, <3>3
  <2>4. ~shows /\ Announced(r) => Announced(r)'
    BY <1>1, <1>3, <1>5, <1>6 DEF Announced
  <2>5. ToldTo(r, T, P)'
    <3>1. Took(r)' \subseteq T \cup P
      BY <1>10, <2>2, <2>3 DEF ToldTo
    <3>2. Announced(r)' \/ Took(r)' \cap Range(heard'[link'[r].session]) \subseteq T
      <4>1. CASE shows
        BY <1>10, <2>2, <2>3, <4>1 DEF ToldTo
      <4>2. CASE ~shows
        BY <1>1, <1>6, <1>10, <2>2, <2>3, <2>4, <4>2 DEF ToldTo
      <4> QED BY <4>1, <4>2
    <3> QED BY <3>1, <3>2 DEF ToldTo
  <2>6. Told(view)'
    BY <1>4, <2>1, <2>5, ToldView
  <2>7. PICK q, U, V : /\ q = saved.runner /\ U = Range(saved.shown)
                       /\ V = Range(saved.queue)
    OBVIOUS
  <2>8. ASSUME q # 0 PROVE ToldTo(q, U, V)'
    <3>1. ToldTo(q, U, V) /\ q \in Held /\ q # r
      BY <1>2, <2>7, <2>8, HeldIs DEF SpanInv, ToldOK, Told, AttachedOK
    <3>2. Calm(q) /\ Took(q)' \subseteq Took(q)
      BY <1>9, <1>10, <3>1
    <3> QED BY <3>1, <3>2, ToldRests
  <2>9. Told(saved)'
    BY <1>1, <2>7, <2>8, ToldSaved
  <2> QED BY <2>6, <2>9 DEF ToldOK
<1>12. LastOK'
  <2>1. LastTells(r)'
    BY <1>1, <1>5, <1>6, <1>7 DEF LastTells
  <2>2. ASSUME NEW q \in Held, q # r PROVE LastTells(q)'
    BY <1>9, <2>2, LastKept DEF SpanInv, LastOK
  <2> QED BY <1>8, <2>1, <2>2 DEF LastOK, LastTells
<1>13. QuietOK'
  <2>1. PICK b : b = (Last(es) # "idle")
    OBVIOUS
  <2>2. ASSUME Pending(r)' = <<>>
        PROVE  /\ driver'[link'[r].session] = "working" => b
               /\ b => driver'[link'[r].session] \in {"working", "dead"}
    <3>1. Pending(r) = es
      BY <1>5, <1>6, <2>2
    <3>2. /\ Last(es) # "idle" => driver[link[r].session] \in {"working", "dead"}
          /\ driver[link[r].session] = "working" => Last(es) # "idle"
      BY <1>4, <1>7, <3>1 DEF LastTells
    <3> QED BY <1>1, <1>6, <2>1, <3>2
  <2>3. QuietAt(r, b)'
    BY <1>7, <2>2 DEF QuietAt
  <2> QED BY <1>4, <2>1, <2>3, QuietView
<1> QED BY <1>11, <1>12, <1>13 DEF SpanInv

LEMMA SpanInit == ClientInit => SpanInv
<1> SUFFICES ASSUME ClientInit PROVE SpanInv
  OBVIOUS
<1>1. view = Blank /\ saved = Blank
  BY DEF ClientInit
<1>2. view.runner = 0 /\ saved.runner = 0 /\ view.busy = FALSE
  BY <1>1, BlankShown
<1> QED BY <1>2 DEF SpanInv, ToldOK, Told, LastOK, Held, QuietOK, QuietAt

LEMMA SpanStutters ==
    ASSUME UNCHANGED clientVars, SpanInv
    PROVE  SpanInv'
<1>1. UNCHANGED <<view, saved, link, input, batch, driver, heard, via, dropped, recalled, lagged,
                  sure>>
  BY DEF clientVars, client, daemon, history
<1> QED BY <1>1 DEF SpanInv, ToldOK, Told, ToldTo, Took, Announced, Fixed, LastOK, LastTells,
                    QuietOK, QuietAt, Owed, WayOf, Held, Pending

LEMMA SpanStep ==
    ViewInv /\ SpanInv /\ [ClientNext]_clientVars => SpanInv'
<1> SUFFICES ASSUME ViewInv, SpanInv, [ClientNext]_clientVars PROVE SpanInv'
  OBVIOUS
<1>1. ViewTyped /\ AttachedOK /\ ShownOK /\ TransportOK
  BY DEF ViewInv
<1>2. CASE Choice
  BY <1>1, <1>2, SpanByChoice
<1>3. CASE Message
  BY <1>1, <1>3, SpanBySubmit, SpanByRecall, SpanByCommit DEF Message
<1>4. CASE Link
  BY <1>1, <1>4, SpanByLink, SpanByDrain
<1>5. ASSUME NEW s \in Sessions, DriverMoves(s) PROVE SpanInv'
  BY <1>1, <1>5, SpanByDriver
<1>6. CASE UNCHANGED clientVars
  BY <1>6, SpanStutters
<1>7. ClientNext \/ UNCHANGED clientVars
  OBVIOUS
<1> QED BY <1>2, <1>3, <1>4, <1>5, <1>6, <1>7, ClientSteps

\* Always: what is under way to the client makes of its view what its session does.
THEOREM SpanInvariance == ClientSpec => [](ViewInv /\ SpanInv)
<1>1. ClientInit => ViewInv /\ SpanInv
  BY ClientStarts, SpanInit
<1>2. ViewInv /\ SpanInv /\ [ClientNext]_clientVars => ViewInv' /\ SpanInv'
  BY ViewStep, SpanStep
<1> QED BY <1>1, <1>2, PTL DEF ClientSpec

\* The view once the events under way have arrived.
LEMMA SettledIs ==
    ASSUME ViewTyped, view.runner # 0
    PROVE  LET es == Pending(view.runner)
               w == Settled
               shows == "thinking" \in Range(es)
           IN  /\ w.busy = IF es = <<>> THEN view.busy ELSE Last(es) # "idle"
               /\ w.shown = IF shows THEN view.shown \o view.queue ELSE view.shown
<1>1. view.runner \in Runners
  BY HeldIs, ViewsTyped, ConstantsTyped
<1>2. PICK es \in Seq(Events) : es = Pending(view.runner)
  BY <1>1, PendingSeq
<1>3. view \in Views
  BY DEF ViewTyped
<1>4. Settled = Applied(view, es)
  BY <1>2 DEF Settled
<1> QED BY <1>2, <1>3, <1>4, AppliedIs

(* What the human sees is what the session does: once the events under way have       *)
(* arrived the busy flag is set while the session of the client works, and only then  *)
(* or while a message of its own is on the way or was lost there, whatever the        *)
(* broadcast channel lost to lag, unless the flag is left over from another session.  *)
THEOREM ViewFollowsSession == ClientSpec => []SpanFollowsTurns
<1>1. ViewInv /\ SpanInv => SpanFollowsTurns
  <2> SUFFICES ASSUME ViewInv, SpanInv PROVE SpanFollowsTurns
    OBVIOUS
  <2>1. ViewTyped /\ AttachedOK /\ LastOK
    BY DEF ViewInv, SpanInv
  <2>2. PICK r, b : r = view.runner /\ b = view.busy
    OBVIOUS
  <2>3. QuietAt(r, b)
    BY <2>2 DEF SpanInv, QuietOK
  <2>4. CASE r = 0
    <3>1. Settled.busy = b
      BY <2>2, <2>4 DEF Settled
    <3>2. sure => ~b
      BY <2>3, <2>4 DEF QuietAt
    <3> QED BY <2>2, <2>4, <3>1, <3>2 DEF SpanFollowsTurns
  <2>5. CASE r # 0
    <3>1. PICK es : es = Pending(r)
      OBVIOUS
    <3>2. Settled.busy = IF es = <<>> THEN b ELSE Last(es) # "idle"
      BY <2>1, <2>2, <2>5, <3>1, SettledIs
    <3>3. r \in Held /\ r \in Runners /\ Current = link[r].session
          /\ link[r].session \in Sessions
      BY <2>1, <2>2, <2>5, HeldIs, HeldAttached DEF Current
    <3>4. PICK d : d = driver[link[r].session]
      OBVIOUS
    <3>5. sure \/ es # <<>> =>
             /\ d = "working" => Settled.busy
             /\ Settled.busy => d \in {"working", "dead"} \/ Owed(r)
      <4>1. CASE es = <<>>
        BY <2>3, <2>5, <3>1, <3>2, <3>4, <4>1 DEF QuietAt
      <4>2. CASE es # <<>>
        BY <2>1, <3>1, <3>2, <3>3, <3>4, <4>2 DEF LastOK, LastTells
      <4> QED BY <4>1, <4>2
    <3>6. Owed(r) => Mine \cap dropped # {} \/ \E m \in Mine : OnTheWay(m)
      <4> SUFFICES ASSUME NEW m \in Messages, via[m] = r, m \in WayOf(r)
                   PROVE  Mine \cap dropped # {} \/ \E n \in Mine : OnTheWay(n)
        BY DEF Owed
      <4>1. m \in Mine
        BY <2>2, <2>5 DEF Mine
      <4>2. m \in dropped \/ OnTheWay(m)
        <5>1. CASE m \in dropped
          BY <5>1
        <5>2. CASE m = link[r].request \/ m \in Range(link[r].outbox)
          BY <3>3, <5>2 DEF OnTheWay
        <5>3. PICK s \in Sessions : s = link[r].session
          BY <3>3
        <5>4. CASE m \in Range(input[s]) \cup Range(batch[s])
          BY <5>4 DEF OnTheWay
        <5>5. \/ m \in dropped \/ m = link[r].request \/ m \in Range(link[r].outbox)
              \/ m \in Range(input[s]) \/ m \in Range(batch[s])
          BY <5>3 DEF WayOf
        <5> HIDE DEF OnTheWay
        <5> QED BY <5>1, <5>2, <5>4, <5>5
      <4> QED BY <4>1, <4>2
    <3>7. sure \/ (view.runner # 0 /\ Pending(view.runner) # <<>>) => sure \/ es # <<>>
      BY <2>2, <3>1
    <3>8. d = driver[Current] /\ view.runner # 0
      BY <2>2, <2>5, <3>3, <3>4
    <3>9. sure \/ (view.runner # 0 /\ Pending(view.runner) # <<>>) =>
             /\ view.runner # 0 /\ driver[Current] = "working" => Settled.busy
             /\ Settled.busy =>
                \/ view.runner # 0 /\ driver[Current] \in {"working", "dead"}
                \/ Mine \cap dropped # {}
                \/ \E m \in Mine : OnTheWay(m)
      BY <3>5, <3>6, <3>7, <3>8
    <3> QED BY <3>9 DEF SpanFollowsTurns
  <2> QED BY <2>4, <2>5
<1> QED BY <1>1, SpanInvariance, PTL

(* Nothing the human said vanishes: a message the client's session was given is a turn *)
(* of the view once the events under way have arrived, in whatever round it was folded *)
(* and also after a side conversation, unless it was taken back or the channel lagged. *)
THEOREM QueuedTurnsAppear == ClientSpec => []HeardIsShown
<1>1. ViewInv /\ SpanInv => HeardIsShown
  <2> SUFFICES ASSUME ViewInv, SpanInv,
                      NEW m \in Mine \ recalled, m \in Range(heard[Current]),
                      view.runner \notin lagged
               PROVE  m \in Range(Settled.shown)
    BY DEF HeardIsShown
  <2>1. ViewTyped
    BY DEF ViewInv
  <2>2. PICK r, S, Q, es : /\ r = view.runner /\ S = Range(view.shown)
                           /\ Q = Range(view.queue) /\ es = Pending(r)
    OBVIOUS
  <2>3. r # 0 /\ m \in Took(r) /\ Current = link[r].session
    BY <2>2 DEF Mine, Took, Fixed, Current
  <2>4. ToldTo(r, S, Q)
    BY <2>2, <2>3 DEF SpanInv, ToldOK, Told
  <2>5. Settled.shown =
      IF "thinking" \in Range(es) THEN view.shown \o view.queue ELSE view.shown
    BY <2>1, <2>2, <2>3, SettledIs
  <2>6. Range(view.shown \o view.queue) = S \cup Q
    BY <2>1, <2>2, TurnsJoined
  <2>7. CASE "thinking" \in Range(es)
    BY <2>3, <2>4, <2>5, <2>6, <2>7 DEF ToldTo
  <2>8. CASE "thinking" \notin Range(es)
    <3>1. ~Announced(r)
      BY <2>2, <2>8 DEF Announced
    <3> QED BY <2>2, <2>3, <2>4, <2>5, <2>8, <3>1 DEF ToldTo
  <2> QED BY <2>7, <2>8
<1> QED BY <1>1, SpanInvariance, PTL
=============================================================================
