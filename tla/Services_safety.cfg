SPECIFICATION ServicesSpec
CONSTANTS
  Caller = {c1}
  NoToken = NoToken
  Wanted <- MCWanted
  Key <- MCKey
  Rate <- MCRate
  Burst <- MCBurst
  Cost = 2
  MaxTime = 1
  DevTokens = TRUE
  Secret = TRUE
  Routes = {"read", "act", "analyze"}
  pa = pa
  pb = pb
  pm = pm
  T_Pid = {pa, pb, pm}
  T_Own = {pm}
  T_Image = {"tool", "system"}
  T_System = {"system"}
  T_Window = 1
  T_Tolerance = 0
  T_MaxInc = 3
  T_MaxTouch = 2
  T_MaxNow = 1
  V_Path = {"a", "b"}
  V_Dir = {"d"}
  V_DirOf <- MCDirOf
  V_Ransom = {"b"}
  V_Reading <- MCReading
  V_Whites <- MCWhites
  V_Watcher = {w1}
  V_Threshold = 4
  V_Rise = 2
  V_RiseFloor = 4
  V_Policy = "legacy"
  V_MaxPaths = 1
  V_MaxCandidates = 1
  V_Dwell = 1
  V_Duration = 1
  V_MaxNow = 1
  R_Type = {"detected"}
  R_Spelling <- MCSpelling
  R_None = None
  R_MaxRows = 3
  R_PageSize = 1
  R_Limits = {1}
  M_Call = {c1, c2}
  M_MaxObs = 2
  M_Audited = TRUE
  D_Ransom = {}
  D_Threshold = 3
  D_Rise = 2
  D_RiseFloor = 3
  D_Policy = "legacy"
  D_Real <- RealFiles
  D_Forged <- ForgedFiles
  D_Before <- ThereBefore
  D_File = "f"
  D_HeadSize = 4
  D_TailSize = 2
  D_MaxOpen = 1
  D_MaxLock = 1
  Y_Files = 2
  Y_MaxRun = 2
  Y_MaxRestore = 2
  C_Content = {"cipher", "locked"}
  C_Measured <- MCMeasured
  C_Flagged = {"cipher"}
  C_Renamed = {"locked"}
  C_MaxEvent = 2
  C_MaxModel = 1
  C_MaxAlarm = 1
SYMMETRY Symmetry
CHECK_DEADLOCK FALSE
INVARIANTS
  ServicesTypeOK
  WithinBudget
  DoneIsAllowed
  FreezesTheWriter
  RulesAreEarned
  LedgerAnswersInFull
  OneWatch
  FileIsJudged
  RunIsUndone
  ScoresAgree
