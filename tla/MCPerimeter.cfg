SPECIFICATION WallSpec
CONSTANTS
  Callers = {c1, c2}
  PilotMode = TRUE
  MaxCalls = 2
  MaxFaults = 1
INVARIANT BlockHolds
PROPERTY EnforcementEnds
CHECK_DEADLOCK FALSE
