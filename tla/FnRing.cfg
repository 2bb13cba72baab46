CONSTANTS
  Threads = {t1, t2}
  Writer = w
  BUFFER_LEN = 3
  Types = {"async", "sync"}
  MaxLogs = 3
  MaxStops = 1
  MaxCrashes = 1
  LapFree = TRUE
SPECIFICATION Spec
   
CHECK_DEADLOCK FALSE
PROPERTIES AcceptedWritten 
