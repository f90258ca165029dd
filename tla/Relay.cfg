SPECIFICATION FairSpec
CONSTANTS
  s = s
  r1 = r1
  r2 = r2
  r3 = r3
  Sender = s
  Relays <- MCRelays
  Near <- MCNear
  Capacity = 9
  Copies = 3
  Modulus = 3
  Lossy = FALSE
  Patient = TRUE
  MaxSends = 3
INVARIANTS
  TypeOK
  RelaysOnce
  NothingDropped
  NoneSkipped
  AllReached
PROPERTIES
  StormEnds
CHECK_DEADLOCK FALSE
