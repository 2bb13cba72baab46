SPECIFICATION Spec
CONSTANTS
  FINE_GRAINED_SIZE = 2
  BINMAP_SIZE = 8
  BIG_MAX_REQUEST = 32
  DEFAULT_BLOCK_SIZE = 64
  PowerOf2 = FALSE
  MaxReserve = 1
  Requests = {}
  Colors = {1}
  Slots = {0}
  SlotRequests <- SlotRequestsDef
  SLOT_BINMAP_SIZE = 1
  MaxBlocks = 2
  MaxLive = 3
  MaxErrors = 1
INVARIANT PanicExplained
CHECK_DEADLOCK FALSE
