SPECIFICATION Spec
CONSTANTS
  u1 = u1
  c1 = c1
  a1 = a1
  a2 = a2
  a3 = a3
  w1 = w1
  w2 = w2
  Attachments = {a1, a2}
  Users = {u1}
  Convs = {c1}
  Workers = {w1}
  Nobody = Nobody
  Nothing = Nothing
  OwnerOf <- AllMineOwner
  UsesOf <- SendOneUses
  MayHappen = {"late recovery"}
  MayFail = {}
  MaxTroubles = 1
INVARIANT ReferencesAreBacked
