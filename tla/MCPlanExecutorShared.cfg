\* Two runs and somebody who commits share the repository; both may hold the
\* slot, die, and remove each other's worktrees.  Plan p (c on a) runs in worktrees,
\* plan q in the shared tree.
CONSTANTS
    p = p
    q = q
    a = a
    b = b
    c = c
    d = d
    e = e
    j = j
    k = k
    Outside = Outside
    None = None
    Runs = {r1, r2}
    Plans = {p, q}
    Steps = {a, c, d}
    Projects = {j}
    PlanOf <- StepPlan
    Position <- Order
    Deps <- Needs
    ProjectOf <- OneRepo
    Shared = {q}
    Suite = {p, q}
    BaseIsHead = TRUE
    AlwaysCommits = TRUE
    HeadMayFail = FALSE
    MayStop = TRUE
    MaxOutside = 1
SPECIFICATION Spec
SYMMETRY Symmetry
INVARIANTS DoneStepsLanded BuildsOnDependencies
PROPERTIES LandsWhatItTested RunsAdvance
\* when every run is over, nothing is left to do
CHECK_DEADLOCK FALSE
