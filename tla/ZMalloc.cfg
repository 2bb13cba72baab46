SPECIFICATION Spec
CONSTANTS
  FINE_GRAINED_SIZE = 2
  BINMAP_SIZE = 8
  BIG_MAX_REQUEST = 32
  DEFAULT_BLOCK_SIZE = 64
  PowerOf2 = FALSE
  MaxReserve = 1
  Requests = {3, 13, 17, 30, 40}
  Colors = {1}
  Slots = {0, 1}
  SlotRequests <- SlotRequestsDef
  SLOT_BINMAP_SIZE = 1
  MaxBlocks = 2
  MaxLive = 3
  MaxErrors = 1
INVARIANTS HeapSound LentKept Drained  ChecksQuiet
CHECK_DEADLOCK FALSE
