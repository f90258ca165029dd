SPECIFICATION Spec
CONSTANTS
  f1 = f1
  f2 = f2
  m1 = m1
  m2 = m2
  Freqs <- MCFreqs
  Modes <- MCModes
  InRange <- MCInRange
  InitFreq = f1
  InitMode = m1
  Commands <- QuickCommands
  PoliteHost = FALSE
  HeapMayFail = FALSE
  MaxCommands = 1
  MaxErrors = 0
INVARIANT
  MutexNotNull
