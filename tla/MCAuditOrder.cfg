SPECIFICATION Spec
CONSTANTS
    Types = {"INFO"}
    Stamped = {FALSE, TRUE}
    Ranks = {0, 1}
    MaxEvents = 2
    MaxTime = 2
    MaxQueue = 0
    FlushAt = 2
    Chunk = 1
    Retention = 0
    BootWindow = 3
    VerifyWindow = 3
    HealDisabled = {FALSE}
    Limit <- LimOrder
    MaxFaults = 3
INVARIANT UntamperedVerifies
 
CHECK_DEADLOCK FALSE
