CONSTANTS
  Client = {c1}
  Tx = {t1}
  NoTx = NoTx
SPECIFICATION Spec
PROPERTY ErrorRollsBack
CHECK_DEADLOCK FALSE
