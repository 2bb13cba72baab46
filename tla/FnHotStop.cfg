SPECIFICATION Spec
CONSTANTS
  MAX_CHANNEL_SIZE = 2
  MAX_DEVICE_SIZE = 2
  Bits = {0, 1, 2, 3}
  LineSet <- LineSetDef
  MaxLines = 5
  Parses <- ParsesDef
  FirstParse <- FirstParseDef
  MaxSaves = 2
  MaxStops = 1
  HOUR = 1
  DAY = 2
  RETRY = 2
  FileConfigs <- FileConfigsDef
  MaxDepth = 3
  MaxLogs = 5
  MaxTime = 5
  MaxEvents = 1
PROPERTY UpdateReturns
CHECK_DEADLOCK FALSE
