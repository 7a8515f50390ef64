CONSTANTS
  Caller = {p1, p2, p3}
  Conn = {c1, c2, c3, c4}
  MaxCnt = 2
  MaxIdleCnt = 1
  InitCnt = 1
  FactoryFails = TRUE
  Timeouts = TRUE
  NoConn = NoConn
SPECIFICATION FairSpec
INVARIANTS OnePlace SendHasRoom WaitersHaveHope
PROPERTIES HandoverCompletes
CHECK_DEADLOCK FALSE
