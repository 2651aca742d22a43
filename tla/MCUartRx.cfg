SPECIFICATION Spec
CONSTANTS
  RX_DATA_BUFF_SIZE = 3
  LEN_WRAP = 3
  Lens = {1, 2}
  LAST = 6
INVARIANTS TypeOK ReadInOrder ReinitIsFresh TestedReadIsWhole StaysArmed
