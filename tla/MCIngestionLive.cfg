SPECIFICATION BacklogSpec
CONSTANTS
  Tasks = {r1, r2}
  NoTask = NoTask
  Live = Live
  MaxNow = 3
  Lookback = 1
  RefreshAge = 3
  PageSpan = 1
  MaxPages = 2
  Windows <- MCRecentWindow
  Mints = {plain}
  Faults = {"fetch", "store", "hook", "enqueue", "crash"}
PROPERTIES
  CatchesUp
CHECK_DEADLOCK FALSE
