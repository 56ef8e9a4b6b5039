SPECIFICATION Spec
CONSTANTS
  Rows = {x1, x2, x3}
  Views = 2
  LastSlot = 2
  Timeout = 2
  LockTTL = 2
  MaxRetry = 1
  NoTask = NoTask
  Faults = {}
PROPERTIES
  ContentionIsFree
CHECK_DEADLOCK FALSE
