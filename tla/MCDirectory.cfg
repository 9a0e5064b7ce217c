SPECIFICATION Spec
CONSTANTS
  alice = alice  bob = bob  carol = carol  w1 = w1  w2 = w2
  Names = {alice, bob, carol}
  Accounts = {alice, bob}
  NameOf <- TwoNames
  Workers = {w1, w2}
  Nobody = Nobody
  Wanted <- TwoFriends
  Retries = 5
  MaxTroubles = 2
  MayFail = {"user", "username", "profile", "conv", "member", "usermember", "dm", "counter"}
SYMMETRY Symmetry
INVARIANTS
  TypeOK
  NamesLeadToAccounts
  RegistrationsHold
  ShownIsAuthorised
  DMsStayPrivate
  KeyedDMIsComplete
  OneDMAnswered
PROPERTIES
  IDsAreFresh
  EditsAreKept
  ImplementsNames
  ImplementsDMs
CHECK_DEADLOCK FALSE
