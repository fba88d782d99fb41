SPECIFICATION MCSpec
CONSTANTS
  Apps = {"pt", "bhd"}
  Residents = {"pt"}
  MaxHooks = 2
  MuxQueueSize = 1
  Nobody = "nobody"
  Ids = {1, 2}
  CarelessIds = {1}
  Kinds = {"profile", "lag"}
  MaxProfiles = 2
  MaxTimers = 2
  MaxRules = 2
  MaxGroups = 2
  PktQueue = 2
  HalfQueue = 0
  PktLimit = 1
  PtFaults = {"policy", "install", "timer", "pcap", "destroy"}
  Units = {1, 2}
  Unit1 = 1
  Chips = {"th", "td2", "qumran"}
  BhdGroups = {1, 2, 3, 4}
  SampleCount = 1
  BhdQueue = 2
  BhdHalfQueue = 0
  BhdFaults = {"group", "rule", "stat", "egress", "mirror", "timer", "destroy", "encode"}
INVARIANTS
  AppsTypeOK
  HooksRight
  
  RoomForRequests
  CollectsWhatWasAsked
  
PROPERTIES
  ReportsWithinLimits
  PacketProgress
