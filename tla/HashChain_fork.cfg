SPECIFICATION Spec
CONSTANTS
  Entry = {a, b}
  Forged = forged
  MaxBatch = 2
  MaxLedger = 2
  ColdStart = TRUE
  MaxCrash = 0
  MaxEdit = 0
CHECK_DEADLOCK FALSE
INVARIANTS ChainUnbroken
