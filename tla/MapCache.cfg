CONSTANTS
  G = {g1, g2}
  Key = {k1, k2}
  Val = {v1}
  MaxCnt = 1
  Expiration = {1}
  ScanLimit = 0
  Uses = {{"set", "get", "delete"}, {"rawSet", "delete"},
          {"set", "rawSet", "get", "close"}}
  None = None
  MaxTime = 3
  MaxRaw = 1
  MaxAfter = 1
SPECIFICATION FairSpec
INVARIANTS CountExact
PROPERTIES OnlyExpiredEvicted ExpiredRemoved CloseStopsSweeper
CHECK_DEADLOCK FALSE
