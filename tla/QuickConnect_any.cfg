SPECIFICATION FairSpec
CONSTANTS
  f1 = f1
  f2 = f2
  m1 = m1
  m2 = m2
  Freqs <- MCFreqs
  Modes <- MCModes
  InRange <- MCInRange
  InitFreq = f1
  InitMode = m1
  Commands <- AllCommands
  PoliteHost = FALSE
  HeapMayFail = TRUE
  MaxCommands = 4
  MaxErrors = 1
INVARIANTS
  OpenHasMutexes
  AtMostOneLateRun
  BuffersAccounted
PROPERTIES
  Reconnects
  Answered
CHECK_DEADLOCK FALSE
