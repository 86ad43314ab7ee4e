SPECIFICATION WindowSpec
CONSTANTS
    a = a
    b = b
    Keys <- MCKeys
    Batches <- MCBatches
    SeedLists <- MCSeedLists
    TTL = 1
    Margin = 1
    MaxMessages = 2
    MaxRequests = 4
    MaxReads = 3
    MaxAway = 1
    MaxDepth = 2
INVARIANTS MarkersPoint 
PROPERTIES  WarmPrefixKept
CHECK_DEADLOCK FALSE
