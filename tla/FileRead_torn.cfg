SPECIFICATION Spec
CONSTANTS
  Ransom = {}
  Threshold = 3
  Rise = 2
  RiseFloor = 3
  Policy = "legacy"
  Real <- RealFiles
  Forged <- ForgedFiles
  Before <- ThereBefore
  File = "f"
  HeadSize = 4
  TailSize = 2
  MaxOpen = 1
  MaxLock = 1
CHECK_DEADLOCK FALSE
INVARIANTS BenefitOfTheDoubt
