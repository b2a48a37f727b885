CONSTANTS
  configs = configs
  old = old
  p1 = p1
  p2 = p2
  bad = bad
  Void = Void
  Dests = {configs}
  Payloads = {old, p1, p2, bad, Void}
  Valid = {old, p1, p2, Void}
  KeepTx = TRUE
  Absent = Absent
  Empty = Empty
  Partial = Partial
  OldConfigs = old
  Uploads <- MCUploads
  MaxFaults = 3
SPECIFICATION ConfigsSpec
CHECK_DEADLOCK FALSE
INVARIANT UploadRepairs
PROPERTY AnsweredIsActive
