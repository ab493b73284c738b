SPECIFICATION GatesSpec
CONSTANTS
  Limit = 3
  MaxRequests = 4
  MaxWindows = 2
  MaxFaults = 3
  Requests = {r1, r2, r3}
INVARIANT FailedSyncKeepsCounts
CHECK_DEADLOCK FALSE
