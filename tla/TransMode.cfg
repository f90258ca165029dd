SPECIFICATION Spec
CONSTANTS
  CR = CR
  LF = LF
  e = e
  x = x
  Chars <- MCChars
  EndString <- MCEndString
  MaxLen = 4
  EndMax = 2
  CrcLen = 2
  MaxTyped = 10
INVARIANTS
  TypeOK
  WritesInside
  SentFits
  SentUnbroken
  NothingLost
  LeavesOnEnd
CHECK_DEADLOCK FALSE
