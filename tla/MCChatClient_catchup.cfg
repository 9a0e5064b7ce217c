SPECIFICATION Spec
CONSTANTS
  k1 = k1  k2 = k2
  NRows = 1
  WithFiles = {1}
  Refused = {}
  Others = 3
  Backlog = 2
  Held = {2}
  Buffer = 2
  ReplayCap = 2
  SyncBatch = 1
  PageSize = 1
  Catchups = {k1}
  MaxTroubles = 1
  MaxRetries = 1
  MaxPages = 0
INVARIANTS
  LocalIsTrue
  OutboxLosesNothing
  NothingMissed
  FlushIsOwed
CHECK_DEADLOCK FALSE
