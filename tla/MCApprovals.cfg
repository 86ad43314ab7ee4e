CONSTANTS
    p = p
    x = x
    w = w
    dir = dir
    inner = inner
    Pane = Pane
    Sessions = {s1, s2}
    Projects = {p}
    ProjectOf <- OneProject
    Global = Global
    Items = {x, w, dir, inner}
    Wrappers = {w}
    Covers <- PathCovers
    Requests <- SomeRequests
    Signatures = {g1}
    MaxCalls = 3
    MaxDeletes = 1
    MaxCrashes = 1
SPECIFICATION ApprovalSpec
SYMMETRY Symmetry
PROPERTIES PassesOnConsent AsksOnce RulesHonoured
CHECK_DEADLOCK FALSE
