SPECIFICATION Spec
CONSTANTS
    MaxRetries = 1
    MaxChildren = 3
    MaxSpawnFails = 1
    MaxOps = 1
INVARIANTS NoGhost Supervised
PROPERTIES Recovers ShutdownEnds
CHECK_DEADLOCK FALSE
