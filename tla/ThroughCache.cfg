SPECIFICATION FairSpec
CONSTANTS
  Caller = {c1, c2}
  Worker = {w1, w2}
  ReadKinds = {"Get", "GetV1", "GetV2", "GetV3", "GenericGet", "SingleFlightV1", "Bloom", "BloomV1"}
  WriteKinds = {"Set", "SetV1", "SetV2", "SetV3"}
  MaxWrites = 2
INVARIANTS CacheFromDB OneLoad
PROPERTIES AckStored StaleEnds
CHECK_DEADLOCK FALSE
