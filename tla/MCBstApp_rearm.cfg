SPECIFICATION Spec
CONSTANTS
  c1 = c1
  c2 = c2
  ingress = ingress
  egress = egress
  Counters = {c1, c2}
  Groups = {ingress, egress}
  GroupOf <- MCGroupOf
  FeatureRequests <- TimerRequests
  PeakRequests = {}
  MaxRequests = 1
  AppQueueSize = 3
  TriggerQueueSize = 1
  MaxCount = 1
  Faults = {}
INVARIANTS
  ArmedTimerCollects
