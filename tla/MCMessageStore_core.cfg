SPECIFICATION Spec
CONSTANTS
  c1 = c1  c2 = c2  r1 = r1  r2 = r2  r3 = r3  a1 = a1  a2 = a2  alice = alice  bob = bob
  Convs = {c1}
  Requests = {r1, r2, r3}
  Anonymous = {}
  Attachments = {a1}
  Users = {alice, bob}
  Procs = {p1, p2}
  Nobody = Nobody
  Nothing = Nothing
  ConvOf <- OneConvOf
  SenderOf <- OneSenderOf
  AttsOf <- OneAttsOf
  OwnerOf <- OneOwnerOf
  MaxCalls = 4
  MaxCrashes = 2
  MayFail = {"read", "message", "hint", "conv", "rebuild", "prune"}
  LateRetries = FALSE
SYMMETRY ProcSymmetry
INVARIANTS
  TypeOK
  NoDuplicateMessage
  RecoveryWindow
  SingleUseInTimeline
PROPERTY ImplementsTimeline
CHECK_DEADLOCK FALSE
