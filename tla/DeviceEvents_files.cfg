CONSTANTS
  NoLog = NoLog
  NoTarget = NoTarget
  NoTargets = NoTargets
  OwnTarget = OwnTarget
  OldTarget = OldTarget
  None = None
  NoTag = NoTag
  TagOf <- MCTagOf
  Tagged <- MCTagged
  d1 = d1
  d2 = d2
  u1 = u1
  u2 = u2
  Devices = {d1, d2}
  Updates = {u1, u2}
  Requests <- MCRequests
  TargetsOf <- MCTargetsOf
  MaxFiles = 1
  MaxTime = 2
  Workloads <- MCWorkloads
  MaxStirs = 2
  Assigned <- MCAssigned
SPECIFICATION Spec
INVARIANTS AnsweredKept ReportsRight FailsForAReason DeletedStaysGone
CHECK_DEADLOCK FALSE
CONSTRAINT OneDevice
