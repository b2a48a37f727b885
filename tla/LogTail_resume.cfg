CONSTANTS
  NoLog = NoLog
  NoTarget = NoTarget
  NoTargets = NoTargets
  Nothing = Nothing
  d1 = d1
  d2 = d2
  Slots = {1, 2}
  Effect = {d1}
  Lines <- MCLines
  MaxBreaks = 1
  MaxErrors = 1
SPECIFICATION TailSpec
INVARIANT TailExact
PROPERTY TailCatchesUp
CHECK_DEADLOCK FALSE
