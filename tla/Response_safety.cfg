SPECIFICATION ResponseSpec
CONSTANTS
  Pid = {p1}
  Thread = {t1, t2}
  LeaseId = {l1, l2}
  NoLease = NoLease
  NoPid = NoPid
  Shutdown = Shutdown
  Nobody = Nobody
  MaxInc = 2
  Nests = TRUE
  StartReadable = {TRUE}
  G_Content = {plain, cipher, torn}
  G_Flagged = {cipher}
  G_Partial = torn
  G_Gone = Gone
  G_Watcher = {w1, w2}
  G_Recoverer = {r1}
  G_Lookback = 2
  G_MaxChange = 1
  G_MaxAsk = 1
  G_MaxBlock = 2
  G_MaxRun = 2
  F_Incident = {i1}
  F_Writer = w
  F_Other = o
  F_NoPid = NoPid
  F_MaxGen = 2
  F_Backends = {"iptables", "off", "pfctl"}
  S_Copy = {"s1", "s2"}
  S_File = {"f"}
  S_Kept <- MCKept
  S_Request <- MCRequest
  S_Asked <- MCAsked
  S_RunNow = {TRUE, FALSE}
  S_MaxWrite = 1
  S_MaxAsk = 1
  S_MaxRecord = 1
  S_MaxRun = 1
SYMMETRY Symmetry
CHECK_DEADLOCK FALSE
INVARIANTS
  TypeOK
  OneLeasePerPid
  FrozenWhileHeld
  ShutdownReleasesAll
  EndRecordedOnce
  ResponseTypeOK
  BaselineIsSound
  NamedIsCertain
  AnsweredInFull
  RestoresWhatIsNamed
PROPERTIES
  FreezesTheVetted
  EndsOnce
