SPECIFICATION Spec
CONSTANTS
  Clients = {c1, c2, c3}
  Apps = {bst, pt}
  Server = Server
  Free = Free
  Gone = Gone
  Report = Report
  MaxSessions = 2
  MaxFds = 6
  QueueSize = 1
  Cases <- NoCases
INVARIANTS
  NoOrphans
CHECK_DEADLOCK FALSE
