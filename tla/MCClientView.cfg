SPECIFICATION ClientSpec
CONSTANTS
    Sessions = {s1, s2}
    NoSession = NoSession
    OutCap = 1
    BusCap = 2
    MaxRunners = 2
    MaxMessages = 2
    MaxExtras = 1
INVARIANTS  HeardIsShown HeardOnce
CHECK_DEADLOCK FALSE
