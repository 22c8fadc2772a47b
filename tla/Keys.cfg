SPECIFICATION Spec
CONSTANTS
  bare = bare
  alice = alice
  notes = notes
  wiki = wiki
  Team = Team
  team = team
  vip = vip
  r1 = r1
  r2 = r2
  Username <- OneUsername
  Account <- Accounts
  AccountOf <- Owner
  Repo <- Repos
  TagName <- Names
  Fold <- Folded
  Request <- Reqs
  MaxKeys = 2
  MaxTags = 2
  MaxNames = 1
  MaxRequests = 3
  MaxChanges = 1
SYMMETRY Sym
INVARIANTS
  TypeOK
  OneKeyPerName
  RevokedStaysRevoked
  MirrorWasEntitled
  CatalogueConsistent
PROPERTY
  ImplementsTagBook
CHECK_DEADLOCK FALSE
