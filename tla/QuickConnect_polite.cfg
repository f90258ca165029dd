SPECIFICATION FairSpec
CONSTANTS
  f1 = f1
  f2 = f2
  m1 = m1
  m2 = m2
  Freqs <- MCFreqs
  Modes <- MCModes
  InRange <- MCInRange
  InitFreq = f1
  InitMode = m1
  Commands <- QuickCommands
  PoliteHost = TRUE
  HeapMayFail = FALSE
  MaxCommands = 6
  MaxErrors = 2
INVARIANTS
  TypeOK
  StopIsFinal
  LinkMatchesRequest
  MustRunMeansRunning
  RunningIsKnown
  InitOnDownStack
  SendsOnLink
