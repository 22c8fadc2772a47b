SPECIFICATION MCSpec
CONSTANTS
  a1 = a1
  a2 = a2
  p1 = p1
  p2 = p2
  w1 = w1
  seeder = seeder
  main = main
  dev = dev
  Admin <- Admins
  Push <- Pushers
  Pusher <- Pushers
  Writer <- OneWriter
  Seeder = seeder
  Branch <- Branches
  Main = main
  Slots <- SlotChoices
  Attempts = 2
  MaxPatches = 2
  MaxPushes = 2
  MaxMoves = 2
  MaxStops = 2
SYMMETRY Sym
INVARIANTS
  TypeOK
  OnePoller
  LiveAsConfigured
  HeadsAudited
  SeededOnce
PROPERTIES
  SlotsAccounted
  ImplementsAuditLog
CHECK_DEADLOCK FALSE
