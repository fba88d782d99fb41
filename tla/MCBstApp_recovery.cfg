SPECIFICATION FairSpec
CONSTANTS
  c1 = c1
  c2 = c2
  ingress = ingress
  egress = egress
  Counters = {c1, c2}
  Groups = {ingress, egress}
  GroupOf <- MCGroupOf
  FeatureRequests <- EnableRequests
  PeakRequests = {}
  MaxRequests = 1
  AppQueueSize = 2
  TriggerQueueSize = 1
  MaxCount = 2
  Faults = {}
INVARIANTS
  RecoveryPending RateLimit CountsHaveTimer
PROPERTIES
  TrackingResumes
  MuteEnds
