SPECIFICATION FairSpec
CONSTANTS
  TX_DATA_BUFF_SIZE = 3
  MAX_DATA_CHUNK_SIZE = 3
  Lens = {1, 2, 3}
  LAST = 5
INVARIANTS TypeOK NothingStranded SentInOrder
PROPERTY AllSent
CHECK_DEADLOCK FALSE
