SPECIFICATION Spec
CONSTANTS
  Tasks = {r1}
  NoTask = NoTask
  Live = Live
  MaxNow = 3
  Lookback = 2
  RefreshAge = 1
  PageSpan = 2
  MaxPages = 2
  Windows <- MCRecentWindow
  Mints = {plain}
  Faults = {"hook"}
INVARIANTS
  RefreshOwed
CHECK_DEADLOCK FALSE
