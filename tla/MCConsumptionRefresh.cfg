SPECIFICATION FairSpec
CONSTANTS
  Rows = {x1, x2}
  Views = 3
  LastSlot = 2
  Timeout = 2
  LockTTL = 1
  MaxRetry = 1
  NoTask = NoTask
  Faults = {"view", "redis", "release", "crash"}
INVARIANTS
  TypeOK
  NoRowForgotten
  Serialised
PROPERTIES
  Materialised
CHECK_DEADLOCK FALSE
