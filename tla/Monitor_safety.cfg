SPECIFICATION MonitorSpec
CONSTANTS
  L_Path = {a, b}
  L_Lane = {1}
  L_QueueMax = 2
  L_Controller = {c1, c2}
  L_Nobody = Nobody
  L_MaxJob = 3
  L_MaxThread = 2
  I_MaxNote = 2
  I_Adder = {a}
  I_Sweeper = Sweeper
  I_Stopper = Stopper
  I_Stops = TRUE
  I_MaxPending = 1
  I_Span = 2
  I_MaxNow = 3
  I_Path = {a}
  I_Content = {h}
  I_Coalesce = 1
  I_Nobody = Nobody
  E_Pid = {p1}
  E_NoPid = NoPid
  E_Worker = {w1, w2}
  E_MaxQuestion = 2
  E_MaxTail = 1
  E_MaxOwed = 1
  E_MaxAnchor = 1
  E_Stops = TRUE
  W_Pid = {p1, p2}
  W_Window = 0
  W_Competition = 1
  W_Tolerance = 0
  W_Horizon = 1
  W_MaxEntries = 1
  W_MaxRecord = 3
  W_MaxNow = 2
  K_Image = {x, y}
  K_Tolerance = 1
  K_MaxKills = 1
  K_Attempts = 1
  K_MaxProc = 2
  K_MaxQuestion = 2
  K_MaxNow = 2
SYMMETRY Symmetry
CHECK_DEADLOCK FALSE
INVARIANTS
  MonitorTypeOK
  LanesKeepOrder
  AnswerIsFinal
  BlocksFollow
  CertainIsSoleWriter
  KillsTheWriterOnce
PROPERTIES
  NeverRaised
