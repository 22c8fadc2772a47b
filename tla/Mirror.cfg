SPECIFICATION FairSpec
CONSTANTS
  notes = notes
  wiki = wiki
  github = github
  p1 = p1
  p2 = p2
  worker = worker
  first = first
  second = second
  main = main
  draft = draft
  audit = audit
  Repo <- Repos
  Dest <- OneDest
  RepoOf <- OneOwner
  Url <- Urls
  Handler <- OneHandler
  Worker = worker
  Branch <- Branches
  HeadBranch = main
  Trail = audit
  QueueSize = 1
  MaxUpdates = 2
  MaxAdmin = 1
  MaxCrashes = 1
INVARIANTS
  TypeOK
  Delivered
PROPERTIES
  BadgeKnows
  CatchesUp
CHECK_DEADLOCK FALSE
