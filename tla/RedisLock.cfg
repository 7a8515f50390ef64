\* Three applications of the lock under fairness.
CONSTANTS
  h1 = h1
  h2 = h2
  Handle = {h1, h2}
  NoVal = NoVal
  Exp = 2
  RetryMax = {0, 1}
  Uses <- MCUses
  MaxLate = 1
  MaxLateKinds = 1
SPECIFICATION FairSpec
INVARIANTS MutualExclusion
PROPERTIES OwnerReleases ImplementsLeaseLock OrphanExpires AutoRefreshStops
CHECK_DEADLOCK FALSE
