SPECIFICATION FairSpec
CONSTANTS
  Byte <- MCByte
  PREAMBLE <- MCPREAMBLE
  POSTAMBLE <- MCPOSTAMBLE
  HEADER_SIZE_BYTES = 1
  CRC_SIZE_BYTES = 1
  MAX_PAYLOAD_SIZE = 3
  CRC_STRIDE = 2
  ValidHeader <- MCValidHeader
  HeaderPayloadLen <- MCHeaderPayloadLen
  CrcOf <- MCCrcOf
  RX_DATA_BUFF_SIZE = 10
  LEN_WRAP = 256
  HEADER_BYTES_TIMEOUT_MS = 1
  POSTAMBLE_BYTES_TIMEOUT_MS = 1
  Streams <- MCStreams
  FramesIn <- MCFramesIn
  MessagesWith <- MCMessagesWith
  HostPackets <- MCHostPackets
  AppProcesses = TRUE
  ACK = ack  NACK = nack  NoPacket = none
  Message = {msg}
  PacketPayloadLen <- MCPacketPayloadLen
  ExtEvents = {}
  TX_QUEUE_BUFF_SIZE = 6
  TX_DATA_BUFF_SIZE = 8
  MAX_DATA_CHUNK_SIZE = 50
  MAX_ACK_TIMEOUT_MS = 1
  MAX_NUM_OF_TRANSFER_RETRIES = 1
INVARIANTS TypeOK AnswersKeepUp OneAckEach IntactNotRefused
PROPERTIES PartsSpec 
