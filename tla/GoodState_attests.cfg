SPECIFICATION Spec
CONSTANTS
  Content = {plain, cipher, torn}
  Flagged = {cipher}
  Partial = torn
  Gone = Gone
  Watcher = {w1}
  Recoverer = {r1}
  Lookback = 3
  MaxChange = 2
  MaxAsk = 2
  MaxBlock = 3
  MaxRun = 1
CHECK_DEADLOCK FALSE
INVARIANTS BaselineCatchesIt
