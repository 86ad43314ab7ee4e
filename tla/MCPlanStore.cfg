SPECIFICATION Spec
CONSTANTS
    Plans = {p1, p2}
    Steps = {a, b, c, d}
    Commands = {c1}
    Runs = {r1}
    MaxEdges = 3
SYMMETRY Symmetric
INVARIANTS Acyclic StallsForAReason
PROPERTY DoneMeansDone
CHECK_DEADLOCK FALSE
