\* A handle of TryLock is refreshed while another one waits for the lock.
CONSTANTS
  h1 = h1
  h2 = h2
  Handle = {h1, h2}
  NoVal = NoVal
  Exp = 2
  RetryMax = {0, 1}
  Uses <- TryUses
  MaxLate = 1
  MaxLateKinds = 1
SPECIFICATION Spec
INVARIANTS AtMostOne
CHECK_DEADLOCK FALSE
