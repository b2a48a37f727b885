CONSTANTS
  g = g
  f = f
  w = w
  x = x
  y = y
  apps = apps
  tags = tags
  Groups = {g}
  NoGroup = NoGroup
  Changes <- MCChanges
  Scenarios <- MCScenarios
  Archives <- MCArchives
  Sota = Sota
  PatchNames = {w}
  BadToml = BadToml
  NoFiles = NoFiles
  NoValue = NoValue
  MaxTime = 3
  MaxOverlap = 2
  MaxEvents = 1
SPECIFICATION DeliverySpec
INVARIANT UpToDate
PROPERTY Delivered
