SPECIFICATION Spec
CONSTANTS
  c1 = c1  c2 = c2  r1 = r1  r2 = r2  r3 = r3  a1 = a1  a2 = a2  alice = alice  bob = bob
  Convs = {c1, c2}
  Requests = {r1, r2, r3}
  Anonymous = {}
  Attachments = {a1, a2}
  Users = {alice, bob}
  Procs = {p1, p2}
  Nobody = Nobody
  Nothing = Nothing
  ConvOf <- TwoConvOf
  SenderOf <- TwoSenderOf
  AttsOf <- TwoAttsOf
  OwnerOf <- TwoOwnerOf
  MaxCalls = 3
  MaxCrashes = 0
  MayFail = {}
  LateRetries = FALSE
INVARIANT SingleUse
CHECK_DEADLOCK FALSE
