SPECIFICATION FairSpec
CONSTANTS
  k1 = k1  k2 = k2
  NRows = 2
  WithFiles = {}
  Refused = {2}
  Others = 0
  Backlog = 0
  Held = {}
  Buffer = 1
  ReplayCap = 1
  SyncBatch = 1
  PageSize = 2
  Catchups = {k1}
  MaxTroubles = 0
  MaxRetries = 0
  MaxPages = 1
INVARIANTS
  TypeOK
  OvertakenRowsSlipped
PROPERTY RowsMoveOn
CHECK_DEADLOCK FALSE
