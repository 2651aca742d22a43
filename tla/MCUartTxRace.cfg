SPECIFICATION Spec
CONSTANTS
  TX_DATA_BUFF_SIZE = 3
  MAX_DATA_CHUNK_SIZE = 3
  Lens = {1, 2, 3}
  LAST = 5
INVARIANT OnlyWrittenIsSent
CHECK_DEADLOCK FALSE
