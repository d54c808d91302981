SPECIFICATION Spec
CONSTANTS
  Incident = {i1, i2}
  Pid = {p1, p2}
  Hold = {1, 2}
  LeaseId = {1, 2}
  NoPid = NoPid
  NoHold = NoHold
  NoLease = NoLease
  Retires = FALSE
SYMMETRY Symmetry
INVARIANT FreezeIsAnswered
CHECK_DEADLOCK FALSE
