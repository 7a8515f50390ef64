\* Two requests at a time, two sessions, both stores, every failure of redis.
SPECIFICATION Spec
CONSTANTS
  Req = {r1, r2}
  Browser = {"b1", "b2"}
  Id = {i1, i2}
  NoId = NoId
  Exp = 2
SYMMETRY MCSymmetry
INVARIANTS IssuedExpires LogoutMeansGone GoneIsRejected
PROPERTIES GoneForGood
CHECK_DEADLOCK FALSE
