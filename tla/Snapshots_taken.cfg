SPECIFICATION LiveSpec
CONSTANTS
  Copy = {s1}
  File = {"f"}
  Request = {}
  Asked = {}
  Kept = {}
  RunNow = {FALSE}
  MaxWrite = 0
  MaxAsk = 0
  MaxRecord = 1
  MaxRun = 1
CHECK_DEADLOCK FALSE
PROPERTIES SnapshotsAreTaken
