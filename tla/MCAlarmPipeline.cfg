SPECIFICATION FairSpec
CONSTANTS
  Last = 1
  HourLen = 1
  MaxTime = 1
  Frequency = 1
  MaxBill = 1
  MaxEvents = 2
  MaxRetry = 1
  LookupLimit = 1
  Rules <- AllRules
  Faults = {"db", "queue", "mail", "crash"}
INVARIANTS
  TypeOK
  BillFiredOnce
  SuppressedWasTold
  NotifiedWasMailed
PROPERTIES
  Settles
CHECK_DEADLOCK FALSE
