SPECIFICATION FairSpec
CONSTANTS
  d0 = d0
  d1 = d1
  other = other
  Devices <- MCDevices
  Order <- MCOrder
  Slot = 2
  Interval = 2
  DevNum = 3
  Frame = 2
  AirTimes <- MCTimes
  Jitter = 1
  QueueSize = 2
  Word = 64
INVARIANTS
  TypeOK
  NoCollision
PROPERTIES
  GatewayGoesOn
