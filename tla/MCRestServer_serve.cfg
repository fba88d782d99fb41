SPECIFICATION Spec
CONSTANTS
  Clients = {c1, c2}
  Apps = {bst, pt}
  Server = Server
  Free = Free
  Gone = Gone
  Report = Report
  MaxSessions = 2
  MaxFds = 3
  QueueSize = 1
  Cases <- AllCases
INVARIANTS
  TypeOK
  OwnAnswers
SYMMETRY Peers
