SPECIFICATION LogRun
CONSTANTS
    Msgs = {1, 2, 3}
    Flushers = {f1, f2}
    BufferMax = 2
    BatchSize = 1
    MaxAttempts = 2
    MaxCrashes = 1
    MaxOutages = 1
    MaxRefused = 1
INVARIANTS Accounted SentOnce
PROPERTY BufferedLeaves
CHECK_DEADLOCK FALSE
