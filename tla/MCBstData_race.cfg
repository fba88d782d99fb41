SPECIFICATION MCSpec
CONSTANTS
  Counters = {c1, c2}
  MaxValue = 1
  Disturbances <- AllDisturbances
  Ids <- MCIds
  CancelIds <- MCIds
  MaxRecords = 2
  QueueSize = 2
  TimerFaults = FALSE
  Overlap = TRUE
INVARIANTS
  FreeRecordsHaveNoTimer
