SPECIFICATION MCSpec
CONSTANTS
  Built = {"bst", "bhd"}
  MaxModules = 4
  MsgQueueSize = 1
  MaxRuns = 2
  MaxFailures = 1
  MaxAsked = 1
  Intervals = {0, 5, 10}
  DefaultInterval = 5
  HbQueueSize = 2
  HbSessions = 2
  MaxHbFailures = 2
  MayCall <- MCMayCall
  Registrations <- MCRegistrations
  ChipOf <- MCChipOf
  MaxPlugins = 2
  MaxFeatures = 4
  MaxAsics = 1
  WriterFirst = FALSE
  Scale <- MCScale
  Largest <- MCLargest
  Watched <- MCWatched
  ConfigFiles <- MCConfigFiles
  DatabaseAt = "configured"
  MaxDbChanges = 1
  MaxCalls = 1
INVARIANTS
  AgentTypeOK
  StartupSafe
  HeartbeatRight
  PluginsRight
PROPERTIES
  ListHeld
  AgentProgress
CHECK_DEADLOCK FALSE
