SPECIFICATION Spec
CONSTANTS
  alice = alice  bob = bob  c1 = c1  c2 = c2  c3 = c3  b1 = b1  b2 = b2  h1 = h1
  Users = {alice, bob}
  Conns = {c1, c2, c3}
  UserOf <- TwoAndOne
  Casts = {b1, b2}
  Callers = {h1}
  None = None
  Buffer = 1
  MaxSeq = 1
  MaxCalls = 2
INVARIANTS
  TypeOK
  ToldTheTruth
  NobodyIsStuck
PROPERTY WatermarksRise
SYMMETRY Symmetry
CHECK_DEADLOCK FALSE
