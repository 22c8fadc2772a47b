SPECIFICATION Spec
CONSTANTS
  c1 = c1
  c2 = c2
  f1 = f1
  v1 = v1
  v2 = v2
  Client <- Clients
  Field <- Fields
  Value <- Values
  Id <- Ids
  Tag <- Spellings
  Plain <- LowerCase
  Times <- Clock
  Absent = Absent
  Null = Null
  MaxEdits = 2
  MaxPuts = 3
SYMMETRY Sym
INVARIANTS
  EditsLand
  RetryHarmless
  OrderIrrelevant
CHECK_DEADLOCK FALSE
