\* Three tasks contend for two keys: two can hold different keys while the third
\* queues, or all three meet on one key.  No symmetry, because a liveness
\* property is checked.
CONSTANTS
    Keys = {k1, k2}
    Tasks = {t1, t2, t3}
    NoKey = NoKey
    NoTask = NoTask
SPECIFICATION FairSpec
INVARIANTS MutualExclusion NoLostWakeup EntriesInUse
PROPERTIES ServesInOrder EveryWaiterServed
\* a poisoned mutex really stops every task
CHECK_DEADLOCK FALSE
