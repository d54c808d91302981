SPECIFICATION Spec
CONSTANTS
  Pid = {p1}
  Thread = {t1, t2}
  LeaseId = {l1}
  NoLease = NoLease
  NoPid = NoPid
  Shutdown = Shutdown
  Nobody = Nobody
  MaxInc = 2
  Nests = TRUE
  StartReadable = {TRUE, FALSE}
SYMMETRY Symmetry
CHECK_DEADLOCK FALSE
INVARIANTS
  TerminatedIsGone
