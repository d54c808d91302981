SPECIFICATION LiveSpec
CONSTANTS
  Pid = {p1}
  Thread = {t1}
  LeaseId = {1, 2}
  NoLease = NoLease
  NoPid = NoPid
  Shutdown = Shutdown
  Nobody = Nobody
  MaxInc = 1
  Nests = TRUE
  StartReadable = {TRUE}
  MaxGen = 1
  MaxBoot = 1
  Faults = {{"service"}}
  L_Path = {a, b}
  L_Lane = {1}
  L_QueueMax = 1
  L_Controller = {c1}
  L_Nobody = Nobody
  L_MaxJob = 3
  L_MaxThread = 2
  I_MaxNote = 2
  I_Adder = {a}
  I_Sweeper = Sweeper
  I_Stopper = Stopper
  I_Stops = FALSE
  I_MaxPending = 1
  I_Span = 2
  I_MaxNow = 3
  I_Path = {a}
  I_Content = {h}
  I_Coalesce = 1
  I_Nobody = Nobody
  E_Pid = {p1}
  E_NoPid = NoPid
  E_Worker = {w1, w2}
  E_MaxQuestion = 2
  E_MaxTail = 1
  E_MaxOwed = 1
  E_MaxAnchor = 2
  E_Stops = FALSE
  H_Entry = {a, b, c}
  H_Forged = forged
  H_MaxBatch = 2
  H_MaxLedger = 1
  H_ColdStart = TRUE
  H_MaxCrash = 1
  H_MaxEdit = 0
  C_Entry = {a, b}
  C_MaxBatch = 2
  C_MaxLedger = 2
  C_ColdStart = TRUE
  C_MaxCrash = 1
  C_MaxEdit = 0
CHECK_DEADLOCK FALSE
PROPERTIES
  KeepsItsPromise
  EveryCallReturns
  LeasesEnd
  MonitorCatchesUp
