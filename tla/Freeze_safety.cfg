SPECIFICATION FreezeSpec
CONSTANTS
  Pid = {p1}
  Thread = {t1}
  LeaseId = {1, 2}
  NoLease = NoLease
  NoPid = NoPid
  Shutdown = Shutdown
  Nobody = Nobody
  MaxInc = 1
  Nests = TRUE
  StartReadable = {TRUE}
  MaxGen = 2
  MaxBoot = 2
  Faults = {{"service"}, {"watchdog"}}
  H_Entry = {a, b, c}
  H_Forged = forged
  H_MaxBatch = 2
  H_MaxLedger = 1
  H_ColdStart = FALSE
  H_MaxCrash = 1
  H_MaxEdit = 1
  P_Incident = {i1, i2}
  P_Pid = {p1}
  P_Hold = {1, 2}
  P_LeaseId = {1}
  P_NoPid = NoPid
  P_NoHold = NoHold
  P_NoLease = NoLease
  P_Retires = TRUE
SYMMETRY Symmetry
CHECK_DEADLOCK FALSE
INVARIANTS
  FreezeTypeOK
  FreezeIsCovered
  FreezeIsKnown
  ChainInOrder
  ChainTellsTrue
  NoHoldIsLost
