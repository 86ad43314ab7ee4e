\* A timer, an endless loop and a command under a cap of two, on a channel of two.
CONSTANTS
    timer = timer
    poll = poll
    fork = fork
    shell = shell
    Unlimited = Unlimited
    Loops = {timer, poll}
    Forks = {}
    Commands = {shell}
    Limit <- Limits
    MaxConcurrent = 2
    EventCap = 2
    MaxCancels = 1
SPECIFICATION FairSpec
INVARIANTS OneTickPerLoop StatusClears
PROPERTIES EndedJobsTold
\* the worker ends
CHECK_DEADLOCK FALSE
