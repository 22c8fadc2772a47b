SPECIFICATION Spec
CONSTANTS
  notes = notes
  wiki = wiki
  github = github
  p1 = p1
  p2 = p2
  worker = worker
  first = first
  second = second
  main = main
  draft = draft
  audit = audit
  Repo <- OneRepo
  Dest <- OneDest
  RepoOf <- OneOwner
  Url <- Urls
  Handler <- Handlers
  Worker = worker
  Branch <- Branches
  HeadBranch = main
  Trail = audit
  QueueSize = 1
  MaxUpdates = 3
  MaxAdmin = 1
  MaxCrashes = 0
SYMMETRY Symmetry
INVARIANT
  BadgeCannotLie
CHECK_DEADLOCK FALSE
