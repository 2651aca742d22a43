SPECIFICATION Spec
CONSTANTS
  res = res  evt = evt  none = none
  Packet = {res, evt}
  NoPacket = none
  PayloadLen <- MCPayloadLen
  ExtEvents = {"ack_received", "nack_received"}
  PREAMBLE_SIZE_BYTES = 1
  HEADER_SIZE_BYTES = 1
  CRC_SIZE_BYTES = 1
  POSTAMBLE_SIZE_BYTES = 1
  TX_QUEUE_BUFF_SIZE = 8
  TX_DATA_BUFF_SIZE = 8
  MAX_DATA_CHUNK_SIZE = 4
  MAX_ACK_TIMEOUT_MS = 1
  MAX_NUM_OF_TRANSFER_RETRIES = 2
INVARIANT FramesWhole

