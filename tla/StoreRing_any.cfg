SPECIFICATION FairSpec
CONSTANTS
  N = 2
  None = None
  Empty = {2}
  TakeTurns = FALSE
  MaxMsgs = 4
  MaxModes = 2
INVARIANTS
  PrintedOnce
PROPERTIES
  PulseEnds
CHECK_DEADLOCK FALSE
