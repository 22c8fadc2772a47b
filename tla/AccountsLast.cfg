SPECIFICATION Spec
CONSTANTS
  root = root
  alice = alice
  github_bob = github_bob
  proxy_eve = proxy_eve
  pw1 = pw1
  r1 = r1
  r2 = r2
  Local <- BothLocals
  Idp <- Nobody
  Gateway <- Nobody
  Seeds <- BothLocals
  Registers = FALSE
  Password <- OnePw
  Request <- Reqs
  MaxRequests = 3
  MaxSignIns = 0
  MaxRestarts = 0
SYMMETRY Sym
INVARIANT
  AnAdminRemains
CHECK_DEADLOCK FALSE
