SPECIFICATION GenSpec
CONSTANTS
  Fetches = {w1, w2}
  NoFetch = NoFetch
  NoAnchor = NoAnchor
  NoValue = NoValue
  LastTs = 3
  AnchorLookback = 1
  SliceSpan = 2
  Interval <- MCInterval
  PagesOf <- MCSingles
  StoredAnchors <- MCOperatorAnchor
INVARIANTS
  BackwardReconciled
CHECK_DEADLOCK FALSE
