SPECIFICATION Spec
CONSTANTS
  Packet = {"answer", "short", "long", "over"}
  NoPacket = "none"
  PayloadLen <- MCPayloadLen
  Source = {"rx_fsm", "fw_user"}
  Submitted <- MCSubmitted
  HEADER_SIZE_BYTES = 2
  TX_QUEUE_BUFF_SIZE = 11
  MAX_PAYLOAD_SIZE = 3
  LEN_WRAP = 5
INVARIANTS TypeOK CountAgrees
PROPERTY RequestQueueSpec
CONSTRAINT BeforeReadBack
