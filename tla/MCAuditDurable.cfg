SPECIFICATION Spec
CONSTANTS
    Types = {"INFO"}
    Stamped = {FALSE}
    Ranks = {0}
    MaxEvents = 3
    MaxTime = 2
    MaxQueue = 2
    FlushAt = 2
    Chunk = 1
    Retention = 0
    BootWindow = 3
    VerifyWindow = 3
    HealDisabled = {FALSE, TRUE}
    Limit <- LimAny
    MaxFaults = 2
INVARIANTS AcceptedOnce ChainLinked
PROPERTY ImplementsJournal
CHECK_DEADLOCK FALSE
