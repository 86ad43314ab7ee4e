\* Agents of different names in two sessions compete for one file; the child of
\* the first delegates and resumes; the daemon may die once, anywhere, or one
\* SQLite statement fails.
CONSTANTS
    s1 = s1
    s2 = s2
    coder = coder
    helper = helper
    coder2 = coder2
    Sessions = {s1, s2}
    Names = {coder, helper, coder2}
    NamesOf <- DistinctNames
    Paths = {f}
    Contents = {v1, v2}
    NoFile = NoFile
    NoOne = NoOne
    NoName = NoName
    MaxDepth = 2
    MaxRestarts = 1
    DbMayFail = TRUE
SPECIFICATION Spec
INVARIANTS MirrorAgrees OnlyActiveHolds
 
SYMMETRY Symmetry
