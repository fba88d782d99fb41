SPECIFICATION FairSpec
CONSTANTS
  Clients = {c1, c2}
  Apps = {bst}
  Server = Server
  Free = Free
  Gone = Gone
  Report = Report
  MaxSessions = 3
  MaxFds = 5
  QueueSize = 1
  Cases <- HangUps
INVARIANTS
  ConnectionsKept
PROPERTIES
  EveryRequestEnds
