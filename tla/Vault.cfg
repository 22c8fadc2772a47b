SPECIFICATION Spec
CONSTANTS
  addresses = addresses
  d1 = d1
  d2 = d2
  github = github
  pat1 = pat1
  formidable = formidable
  k1 = k1
  k2 = k2
  r1 = r1
  r2 = r2
  Repo <- Repos
  Dest <- Dests
  Cred <- Creds
  Secret <- OneSecret
  Client <- Clients
  PubKey <- PubKeys
  Request <- Reqs
  MaxRequests = 5
  MaxMade = 2
  MaxStops = 2
  MaxRotations = 2
SYMMETRY Sym
INVARIANTS
  TypeOK
  RotationLosesNothing
PROPERTIES
  NothingForgotten
  StraysExplained
  OrphansExplained
  OnlyRacesCreateTwice
CHECK_DEADLOCK FALSE
