SPECIFICATION ServicesSpec
CONSTANTS
  Requests = {q1, q2}
  MaxSessions = 3
  MaxClock = 2
  RotationGrace = 1
  SessionTTL = 2
  Senders = {k1, k2, k3}
  Bodies = {b1, b2}
  NoBody = NoBody
  KeyFaults = {"redis", "cancel", "crash"}
  Callers = {c1, c2, c3}
  NoCaller = NoCaller
  MaxToken = 3
  MaxEdit = 1
  TokenFaults = {"refused", "lost", "crash"}
  LastInstant = 5
  Usage = {1}
  FirstIndexes = {0, 3}
  MaxSwaps = 2
  MaxFlaws = 1
  Due <- MCDue
  Tolerance <- MCTolerance
  SettleDelay = 1
  BucketWidth = 2
  Series <- MCSeries
  Blank = Blank
  Recorders = {g1, g2}
  Resolvers = {o1, o2}
  Nobody = Nobody
  ra = ra
  Registers = {ra, rb}
  Verdicts <- MCVerdicts
  MaxPicks = 2
SYMMETRY MCSymmetry
INVARIANTS
  ServicesTypeOK
  OneLivePerLogin
  OncePerKey
  ReplayMatches
  PendingIsRunning
  NotStranded
  RefreshedOnce
  HandedOutFresh
  DerivationSound
  SettledForGood
  RecordStands
PROPERTIES
  EndsForGood
  FirstReasonStands
CHECK_DEADLOCK FALSE
