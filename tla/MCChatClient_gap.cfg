SPECIFICATION Spec
CONSTANTS
  k1 = k1  k2 = k2
  NRows = 0
  WithFiles = {}
  Refused = {}
  Others = 4
  Backlog = 3
  Held = {1}
  Buffer = 2
  ReplayCap = 1
  SyncBatch = 3
  PageSize = 1
  Catchups = {k1}
  MaxTroubles = 0
  MaxRetries = 0
  MaxPages = 0
INVARIANT NoHoles
CHECK_DEADLOCK FALSE
