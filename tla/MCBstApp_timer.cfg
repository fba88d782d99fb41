SPECIFICATION Spec
CONSTANTS
  c1 = c1
  c2 = c2
  ingress = ingress
  egress = egress
  Counters = {c1}
  Groups = {ingress, egress}
  GroupOf <- MCGroupOf1
  FeatureRequests <- TimerRequests
  PeakRequests = {TRUE}
  MaxRequests = 1
  AppQueueSize = 2
  TriggerQueueSize = 1
  MaxCount = 1
  Faults = {"config_get", "config_set"}
INVARIANTS
  TypeOK
  TimerFollowsConfig
