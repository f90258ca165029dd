SPECIFICATION Spec
CONSTANTS
  N = 3
  None = None
  Empty = {2, 5, 6}
  TakeTurns = TRUE
  MaxMsgs = 8
  MaxModes = 3
INVARIANTS
  TypeOK
  Sound
  NoLeak
PROPERTIES
  QueueSpec
  Announced
CHECK_DEADLOCK FALSE
