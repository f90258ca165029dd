SPECIFICATION Spec
CONSTANTS
  N = 2
  None = None
  Empty = {2}
  TakeTurns = FALSE
  MaxMsgs = 5
  MaxModes = 2
INVARIANTS
  NoDoubleFree
CHECK_DEADLOCK FALSE
