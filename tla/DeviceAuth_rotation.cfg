CONSTANTS
  d1 = d1
  c1 = c1
  c2 = c2
  c3 = c3
  t1 = t1
  Devices = {d1}
  Certs = {c1, c2, c3}
  Owner <- MCOwner
  NotAfter <- MCNotAfter
  Tags = {t1}
  NoRow = NoRow
  NoTag = NoTag
  NoHeader = NoHeader
  NoEntry = NoEntry
  MaxNow = 2
  Requests <- Rotations
  MaxFaults = 1
SPECIFICATION Spec
CHECK_DEADLOCK FALSE
INVARIANTS
  TypeOK
  CurrentNotRetired
  RetiredRecorded
