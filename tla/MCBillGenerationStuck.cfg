SPECIFICATION FairSpec
CONSTANTS
  Execs = {x1}
  NoExec = NoExec
  MaxInputs = 1
  Quality <- Improves
  Printed = {1}
  MaxBills = 2
  Faults = {}
PROPERTIES
  NotStuck
CHECK_DEADLOCK FALSE
