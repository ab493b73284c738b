SPECIFICATION FairSpec
CONSTANTS
  Commands = {c1, c2, c3}
  None = None
  Threshold = 2
  PipeSize = 2
  MaxChildren = 2
INVARIANTS
  TrueSuccess
  CarriedOutOnce
PROPERTIES
  Answered
CHECK_DEADLOCK FALSE
