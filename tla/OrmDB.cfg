CONSTANTS
  Client = {c1, c2}
  Tx = {t1, t2, t3}
  NoTx = NoTx
SPECIFICATION Spec
INVARIANTS NilMeansCommitted DoTxSettles NoOrphan
PROPERTIES PanicNeverCommits CustomStays
CHECK_DEADLOCK FALSE
