SPECIFICATION MCSpec
CONSTANTS
  MaxOptional = 2
  Values = {0, 33, 101}
  MaxNamed = 2
  MaxCells = 199
  CellToByte = 208
  Limit = 41392
  NumPorts = 2
  NumIndices = 2
  MaxIncluded = 2
  DropPorts = 2
  Queues = 2
  MaxCount = 2
  MaxDropping = 3
  TracePorts = {1, 2}
  GroupMembers = {1, 2}
  SmallSlices = 4
  LargeSlices = 3
  MaxDocuments = 8
INVARIANTS
  RequestsTypeOK
  RequestsDecoded
  ThresholdsInRange
  ThresholdsAsAsked
  DocumentsWellFormed
  DocumentsTell
  PoolsServe
PROPERTIES
  ThresholdsUnmixed
