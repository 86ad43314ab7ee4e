SPECIFICATION CaffeinateSpec
CONSTANTS
    Clients = {c1, c2}
    Sessions = {s1}
    BusCap = 1
    MaxRequests = 2
    MaxConnects = 2
    MaxTurns = 1
 
PROPERTY UntilIdleEnds
CHECK_DEADLOCK FALSE
