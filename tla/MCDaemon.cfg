SPECIFICATION DaemonSpec
CONSTANTS
    Sessions = {s1}
    Clients = {c1, c2}
    Workers = {w1, w2}
    MaxMessages = 2
    Ephemeral = TRUE
SYMMETRY Symmetric
INVARIANTS AloneUnlessOvertaken  StopNoticed
CHECK_DEADLOCK FALSE
