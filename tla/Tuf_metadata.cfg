CONSTANTS
  Updates = {u1, u2}
  Archives <- MCArchives
  Contents <- MCContents
  Supplied <- MCSupplied
  TimestampExpiration = 2
  None = None
  HashLen = 1
  MaxInits = 2
  MaxUploads = 2
  MaxNow = 2
  MaxCrashes = 1
CONSTRAINTS InitFirst ImageAlone TaggedFirst
SYMMETRY Symmetry
SPECIFICATION Spec
CHECK_DEADLOCK FALSE
INVARIANTS
  FilesBelongTogether
  DeviceTrusts
  TargetsDescribeImage

  
