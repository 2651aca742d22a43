SPECIFICATION Spec
CONSTANTS
  Byte = {1, 2}
  NoByte = 1
  LENGTH = 3
  Blocks <- MCBlocks
  Lengths = {0, 1, 2, 4}
INVARIANTS TypeOK WriteIsPuts
PROPERTY QueueSpec
