CONSTANTS
  a = a
  b = b
  c = c
  Contents = {a, b, c}
  None = None
  Merge <- MCMerge
  KeepLatest = 2
  Requests <- PutsAndPatch
  MaxFaults = 2
SPECIFICATION Spec
CONSTRAINTS FewOverlap FirstFirst
CHECK_DEADLOCK FALSE
INVARIANTS
  TypeOK
  HistoryReadable
  LatestLostByFailedSave
PROPERTIES
  PurgeRemovesOrphans
  ImplementsRegister
