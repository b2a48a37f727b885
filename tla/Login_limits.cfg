CONSTANTS
  a = a
  b = b
  weak = weak
  Procs = {p1, p2}
  Passwords = {a, b, weak}
  Classes <- MCClasses
  Required = {"digit"}
  FirstPassword = a
  PasswordHistory = 2
  PasswordAge = 1
  AttemptsPerSecond = 1
  AttemptsBlock = 2
  BadAuthLimit = 2
  BadAuthBlock = 3
  Refill = 3
SPECIFICATION Spec
CONSTRAINT Apart
PROPERTY BlockEnds
INVARIANTS
  LimiterRemembers
  NoRepeat
  ResetForcesChange
