SPECIFICATION MCFairSpec
CONSTANTS
  Counters = {c1, c2}
  MaxValue = 1
  Disturbances <- AllDisturbances
  Ids <- MCIds
  CancelIds <- MCCancelIds
  MaxRecords = 2
  QueueSize = 3
  TimerFaults = TRUE
  Overlap = FALSE
INVARIANTS
  TypeOK
  RecordsDistinct
  PeriodicInSync
  CancelNamesRequest
  TableSound
  RecordsServeRequests
PROPERTIES
  PeriodicReportsSent
