SPECIFICATION WallSpec
CONSTANTS
  Callers = {c1, c2}
  PilotMode = TRUE
  MaxCalls = 2
  MaxFaults = 1
PROPERTY PurgesLapsed
CHECK_DEADLOCK FALSE
