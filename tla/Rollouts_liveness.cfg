CONSTANTS
  d1 = d1
  d2 = d2
  t1 = t1
  t2 = t2
  g1 = g1
  u1 = u1
  r1 = r1
  r2 = r2
  Tags = {t1}
  Groups = {g1}
  Updates = {u1}
  RolloutNames = {r1, r2}
  UpdateTag <- MCUpdateTag
  Fleet <- MCFleet
  NoTag = NoTag
  NoGroup = NoGroup
  NoUpdate = NoUpdate
  NoFile = NoFile
  Devices = {d1}
  Requests <- TwoNames
  MaxFaults = 2
SPECIFICATION FairSpec
PROPERTIES
  RolloutsConverge
