SPECIFICATION FairSpec
CONSTANTS
  rec = rec
  doc = doc
  ign = ign
  w1 = w1
  w2 = w2
  a = a
  b = b
  x = x
  Absent = Absent
  Unborn = Unborn
  Path <- MCPath
  Hunk <- MCHunk
  Text <- MCText
  Writer = {w1, w2}
  Request <- MCFairRequest
  PushTree <- MCFairPushTree
  Broken = {x}
  RecordPath = {rec}
  MarkerPath = doc
  StarterPath = {doc}
  IgnorePath = ign
  EntryHunk = 1
  Starter <- MCStarter
  MaxAttempts = 2
  MaxCalls = 4
  MaxRewinds = 1
INVARIANTS
  TypeOK
  AckedSurvive
PROPERTIES
  BothSidesKept
  ImplementsAtomicRepo
  CallsRunOut
  EveryCallReturns
CHECK_DEADLOCK FALSE
