SPECIFICATION FairSpec
CONSTANTS
  Byte <- MCByte
  PREAMBLE <- MCPREAMBLE
  POSTAMBLE <- MCPOSTAMBLE
  HEADER_SIZE_BYTES = 1
  CRC_SIZE_BYTES = 1
  MAX_PAYLOAD_SIZE = 3
  CRC_STRIDE = 2
  ValidHeader <- MCValidHeader
  PayloadLen <- MCPayloadLen
  CrcOf <- MCCrcOf
  RX_DATA_BUFF_SIZE = 10
  LEN_WRAP = 5
  HEADER_BYTES_TIMEOUT_MS = 2
  POSTAMBLE_BYTES_TIMEOUT_MS = 1
  Streams <- Traffic
  HostPackets <- MCHostPackets
  MayLose = TRUE
  AppProcesses = TRUE
INVARIANTS TypeOK OnlyOwnTimerRuns ReadFits AckedIntact
PROPERTIES ReleaseIsFresh StallRecovers
