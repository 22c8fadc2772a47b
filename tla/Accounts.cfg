SPECIFICATION Spec
CONSTANTS
  root = root
  alice = alice
  github_bob = github_bob
  proxy_eve = proxy_eve
  pw1 = pw1
  r1 = r1
  r2 = r2
  Local <- Locals
  Idp <- Idps
  Gateway <- Gateways
  Seeds <- RootAndBob
  Registers = TRUE
  Password <- OnePw
  Request <- Reqs
  MaxRequests = 3
  MaxSignIns = 2
  MaxRestarts = 1
SYMMETRY Sym
INVARIANTS
  TypeOK
  FilesFollowMemory
  EndedStaysEnded
  StateSpentOnce
PROPERTIES
  OnlyRacesRegrade
  PasswordKept
  OnlyRacesEmptyAdmins
CHECK_DEADLOCK FALSE
