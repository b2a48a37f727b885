CONSTANTS
  u1 = u1
  u2 = u2
  p1 = p1
  p2 = p2
  p3 = p3
  bad = bad
  odd = odd
  Dests = {u1, u2}
  Payloads = {p1, p2, p3, bad, odd, Void}
  Valid <- Acceptable
  Tarballs <- MCTarballs
  Samples <- MCSamples
  MaxItemSize = 3
  MaxDiskSize = 12
  MaxNumItems = 5
  MaxPathLen = 3
  BlockSize = 2
  TufEnabled = TRUE
  Void = Void
  KeepTx = FALSE
  Absent = Absent
  Empty = Empty
  Partial = Partial
  NoRow = NoRow
  Deletes <- MCDeletes
  Uploads <- MCUploads
  MaxFaults = 2
SPECIFICATION Spec
CHECK_DEADLOCK FALSE
INVARIANTS
  TypeOK
  RowHasContent
  FailsOnlyByFault
  UnpackedWithinLimits
