SPECIFICATION FairSpec
CONSTANTS
  Execs = {x1, x2}
  NoExec = NoExec
  MaxInputs = 2
  Quality <- Improving
  Printed = {1}
  MaxBills = 3
  Faults = {"fail", "lease", "render"}
INVARIANTS
  TypeOK
  AlwaysBilledOnce
  DetailMatchesBill
PROPERTIES
  IssuedStands
  Rendered
CHECK_DEADLOCK FALSE
