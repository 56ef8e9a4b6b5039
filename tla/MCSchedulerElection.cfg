SPECIFICATION FairSpec
CONSTANTS
  Instances = {s1, s2}
  NoOne = NoOne
  Orphan = Orphan
  Watch = 2
  Faults = {"session", "query", "lead", "crash"}
INVARIANTS
  TypeOK
  ActiveApart
  NoticedInTime
  FlagFirst
  LockNotLeaked
PROPERTIES
  TakenOver
  ImplementsLeadership
CHECK_DEADLOCK FALSE
