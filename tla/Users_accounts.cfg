CONSTANTS
  UserNames = {root, ann}
  root = root
  Accounts <- MCAccounts
  NewUserScopes <- MCNewUserScopes
  ann = ann
  Profiles <- MCProfiles
  AllowedOrgs = {"acme"}
  AllowedDomains = {"example"}
  ScopeLists <- MCScopeLists
  SessionIds = {s1, s2}
  TokenIds = {t1, t2}
  Codes = {c1}
  Procs = {p1, p2}
  SessionTTL = 0
  CodeTTL = 0
  TokenTTL = 0
  MaxTokenLifetime = 1
  MaxNow = 1
  MaxRequests = 4
  NoRow = NoRow
  Unused = Unused
  Removed = Removed
SYMMETRY Symmetry
SPECIFICATION Spec
CHECK_DEADLOCK FALSE
INVARIANTS
  TypeOK
  DeletedStaysDeleted
  ScopesWithinGrant
  OneTokenPerCode
  TokensListable
