SPECIFICATION ServicesSpec
CONSTANTS
  Limit = 3
  MaxRequests = 4
  MaxWindows = 2
  MaxFaults = 3
  Requests = {r1, r2, r3}
  Keys = {k1, k2, k3, k4}
  Values = {v1, v2}
  Capacity = 3
  Null = Null
  Absent = Absent
  Commits = {c1, c2}
  HasTpm = TRUE
  MaxBuffer = 3
  MaxLeaves = 5
  N = 2
  Priority <- MCPriority
  Phoenix = {2}
  MAX_RESTART_ATTEMPTS = 1
  MaxBoots = 3
INVARIANTS
  NeverOvercounted
  FlushedAtShutdown
  RevokedKeyRefused
  EndedSessionRefused
  TreeSound
  RootsCover
  SafeModeSound
  InitExclusive
  ShutdownOrdered
PROPERTY ImplementsLru
CHECK_DEADLOCK FALSE
