CONSTANTS
  N = 2
  Req = {r1, r2}
  Callback = {c1, c2}
  Stubborn = {c2}
  WaitTime = 2
  CbTimeout = 1
  CloseTime = 1
  ShutdownTimeout = 5
  MaxSignals = 2
SPECIFICATION FairSpec
INVARIANTS CallbacksAfterRequests GracefulInTime
PROPERTIES SignalEnds
CHECK_DEADLOCK FALSE
