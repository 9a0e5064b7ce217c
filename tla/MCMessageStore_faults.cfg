SPECIFICATION Spec
CONSTANTS
  c1 = c1  c2 = c2  r1 = r1  r2 = r2  r3 = r3  a1 = a1  a2 = a2  alice = alice  bob = bob
  Convs = {c1}
  Requests = {r1, r2, r3}
  Anonymous = {r2}
  Attachments = {a1}
  Users = {alice, bob}
  Procs = {p1, p2}
  Nobody = Nobody
  Nothing = Nothing
  ConvOf <- OneConvOf
  SenderOf <- OneSenderOf
  AttsOf <- OneAttsOf
  OwnerOf <- OneOwnerOf
  MaxCalls = 4
  MaxCrashes = 1
  MayFail = {"read", "message", "attachment", "index", "hint", "conv", "rebuild", "prune"}
  LateRetries = TRUE
SYMMETRY ProcSymmetry
INVARIANTS
  DenseTimeline
  IndexLeadsToOriginal
  AnswersHold
  HeldByCall
PROPERTIES AppendOnly CallsAdvance
CHECK_DEADLOCK FALSE
