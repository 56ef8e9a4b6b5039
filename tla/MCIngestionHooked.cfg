SPECIFICATION HookedSpec
CONSTANTS
  Tasks = {r1, r2}
  NoTask = NoTask
  Live = Live
  MaxNow = 3
  Lookback = 2
  RefreshAge = 1
  PageSpan = 2
  MaxPages = 2
  Windows <- MCRecentWindow
  Mints = {plain}
  Faults = {"fetch", "store", "enqueue", "crash"}
  Fetches = {w1, w2}
  NoFetch = NoFetch
  NoAnchor = NoAnchor
  NoValue = NoValue
  LastTs = 4
  AnchorLookback = 1
  SliceSpan = 2
  Interval <- MCInterval
  PagesOf <- MCPages
  StoredAnchors <- MCAnchors
SYMMETRY Symmetry
INVARIANTS
  TypeOK
  CursorCoverage
  RefreshOwed
  GenerationTypeOK
  ForwardReconciled
CHECK_DEADLOCK FALSE
