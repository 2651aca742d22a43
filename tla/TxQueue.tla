------------------------------ MODULE TxQueue -------------------------------
(***************************************************************************)
(* host_comm_tx_queue.c: requests laid out byte by byte in a circular      *)
(* buffer.  Everything runs in the main loop, a call is one step.          *)
(*                                                                         *)
(* The k-th byte of a packet in memory - header first, then payload - is   *)
(* the pair of the packet and k; the bytes for src and ack_expected carry  *)
(* their names.                                                            *)
(***************************************************************************)
EXTENDS CircularBuffer

CONSTANTS
  Packet, PayloadLen, NoPacket,
  Source,                 \* the values of src
  Submitted,              \* the requests that callers write
  HEADER_SIZE_BYTES, TX_QUEUE_BUFF_SIZE,
  MAX_PAYLOAD_SIZE,       \* no caller writes a longer payload
  LEN_WRAP                \* packet_data_len is a uint8_t: 2^8

ASSUME PacketAssumption ==
  /\ NoPacket \notin Packet
  /\ PayloadLen \in [Packet \cup {NoPacket} -> 0..MAX_PAYLOAD_SIZE]
  /\ PayloadLen[NoPacket] = 0

ASSUME SizesAssumption ==
  /\ HEADER_SIZE_BYTES \in Nat \ {0} /\ TX_QUEUE_BUFF_SIZE \in Nat \ {0}
  /\ Submitted \subseteq [src : Source, ack_expected : BOOLEAN, packet : Packet]
  /\ MAX_PAYLOAD_SIZE \in Nat /\ LEN_WRAP \in Nat \ {0}

VARIABLES
  cb, packet_cnt,         \* tx_queue
  tx_request,             \* the request of the transmit machine, read into
  accepted,               \* history: the requests written and not yet read
  wrapped                 \* history: the length of one of them did not fit

vars == <<cb, packet_cnt, tx_request, accepted, wrapped>>

Bytes(packet, n) == [k \in 1..n |-> <<packet, k>>]

SrcByte(req) == <<"src", req.src>>
AckByte(req) == <<"ack_expected", IF req.ack_expected THEN 1 ELSE 0>>

(* A request as its reader sees it, without what is left behind its        *)
(* payload.                                                                *)
View(req) ==
  [src |-> SrcByte(req), ack_expected |-> AckByte(req),
   header |-> Bytes(req.packet, HEADER_SIZE_BYTES),
   payload |-> [k \in 1..PayloadLen[req.packet] |-> <<req.packet, HEADER_SIZE_BYTES + k>>]]

Nothing ==
  [src |-> <<>>, ack_expected |-> <<>>,
   header |-> Bytes(NoPacket, HEADER_SIZE_BYTES),
   payload |-> [k \in 1..MAX_PAYLOAD_SIZE |-> <<>>]]

Init ==
  /\ cb = circular_buff_init(TX_QUEUE_BUFF_SIZE, <<>>)
  /\ packet_cnt = 0
  /\ tx_request = Nothing
  /\ accepted = <<>> /\ wrapped = FALSE

-----------------------------------------------------------------------------
(* host_comm_tx_queue_write_request *)

PacketLen(req) == HEADER_SIZE_BYTES + PayloadLen[req.packet]
PacketDataLen(req) == PacketLen(req) % LEN_WRAP

(* A fault: the two bytes before the packet are not reckoned with.         *)
HasRoomForPacket(req) == FreeSpace(cb) >= PacketDataLen(req)

HasRoom(req) == FreeSpace(cb) > PacketDataLen(req) + 1

WithPacket(c, data) == IF Accepts(c, data) THEN Written(c, data) ELSE c

host_comm_tx_queue_write_request(req) ==
  /\ HasRoom(req)
  /\ LET c == Put(Put(cb, SrcByte(req)), AckByte(req))
     IN  cb' = WithPacket(c, Bytes(req.packet, PacketDataLen(req)))
  /\ packet_cnt' = packet_cnt + 1
  /\ accepted' = Append(accepted, req)
  /\ wrapped' = (wrapped \/ PacketLen(req) >= LEN_WRAP)
  /\ UNCHANGED tx_request

-----------------------------------------------------------------------------
(* host_comm_tx_queue_read_request *)

(* What a destination holds after a read that came out short.              *)
Over(bytes, old) == bytes \o SubSeq(old, Len(bytes) + 1, Len(old))

ByteOver(bytes, old) == IF bytes = <<>> THEN old ELSE bytes[1]

(* The length that a header holds; one that is not the header of a packet  *)
(* can hold any.                                                           *)
LenIn(header) ==
  LET of == {p \in Packet \cup {NoPacket} : header = Bytes(p, HEADER_SIZE_BYTES)}
  IN  IF of = {} THEN 0..MAX_PAYLOAD_SIZE ELSE {PayloadLen[p] : p \in of}

(* Fault: the payload is left in the ring.                                 *)
ReadLeavesPayload ==
  /\ packet_cnt > 0
  /\ LET c1 == AfterRead(cb, 1)
         c2 == AfterRead(c1, 1)
         c3 == AfterRead(c2, HEADER_SIZE_BYTES)
         header == Over(BytesRead(c2, HEADER_SIZE_BYTES), tx_request.header)
     IN  \E n \in LenIn(header) :
           /\ tx_request' =
                [src          |-> ByteOver(BytesRead(cb, 1), tx_request.src),
                 ack_expected |-> ByteOver(BytesRead(c1, 1), tx_request.ack_expected),
                 header       |-> header,
                 payload      |-> Over(BytesRead(c3, n), tx_request.payload)]
           /\ cb' = c3
  /\ packet_cnt' = packet_cnt - 1
  /\ accepted' = Tail(accepted)
  /\ UNCHANGED wrapped

host_comm_tx_queue_read_request ==
  /\ packet_cnt > 0
  /\ LET c1 == AfterRead(cb, 1)
         c2 == AfterRead(c1, 1)
         c3 == AfterRead(c2, HEADER_SIZE_BYTES)
         header == Over(BytesRead(c2, HEADER_SIZE_BYTES), tx_request.header)
     IN  \E n \in LenIn(header) :
           /\ tx_request' =
                [src          |-> ByteOver(BytesRead(cb, 1), tx_request.src),
                 ack_expected |-> ByteOver(BytesRead(c1, 1), tx_request.ack_expected),
                 header       |-> header,
                 payload      |-> Over(BytesRead(c3, n), tx_request.payload)]
           /\ cb' = AfterRead(c3, n)
  /\ packet_cnt' = packet_cnt - 1
  /\ accepted' = Tail(accepted)
  /\ UNCHANGED wrapped

-----------------------------------------------------------------------------

Next ==
  \/ \E req \in Submitted : host_comm_tx_queue_write_request(req)
  \/ host_comm_tx_queue_read_request

Spec == Init /\ [][Next]_vars

-----------------------------------------------------------------------------
(* Properties *)

TypeOK ==
  /\ cb.head \in 0..(TX_QUEUE_BUFF_SIZE - 1) /\ cb.tail \in 0..(TX_QUEUE_BUFF_SIZE - 1)
  /\ cb.full \in BOOLEAN /\ cb.length = TX_QUEUE_BUFF_SIZE
  /\ packet_cnt \in Nat /\ accepted \in Seq(Submitted) /\ wrapped \in BOOLEAN
  /\ Len(tx_request.header) = HEADER_SIZE_BYTES

(* The counter and the ring are kept apart, and agree: the ring holds the  *)
(* bytes of packet_cnt requests and no others, wherever it goes round.     *)
(* left[k] is how many bytes are left before the k-th of them.             *)
CountAgrees ==
  ~wrapped =>
    /\ packet_cnt = Len(accepted)
    /\ \E left \in [1..(Len(accepted) + 1) -> 0..DataLen(cb)] :
         /\ left[1] = DataLen(cb) /\ left[Len(accepted) + 1] = 0
         /\ \A k \in 1..Len(accepted) : left[k] = 2 + PacketLen(accepted[k]) + left[k + 1]

Seen(request) ==
  LET n == CHOOSE n \in LenIn(request.header) : TRUE
  IN  [request EXCEPT !.payload = SubSeq(@, 1, n)]

(* The bytes implement a queue of requests, as TxFsm has it: each comes    *)
(* out with its source, its flag, its header and its payload, in order,    *)
(* and none is taken for which there is no room - up to the first request  *)
(* whose length does not fit packet_data_len.                              *)
Requests ==
  INSTANCE RequestQueue WITH
    requests <- accepted, taken <- Seen(tx_request), bytes <- DataLen(cb),
    kept <- ~wrapped,
    Request <- Submitted, NoRequest <- Seen(Nothing),
    Size <- LAMBDA req : 2 + PacketLen(req),
    Oversized <- LAMBDA req : PacketLen(req) >= LEN_WRAP,
    CAPACITY <- TX_QUEUE_BUFF_SIZE

RequestQueueSpec == Requests!Spec

(* README, Peripheral Data Processing: what is queued is transmitted in    *)
(* turn.  A read returns the oldest request that was accepted and not yet  *)
(* read, whatever the length of its payload.                               *)
QueuedIsRead ==
  [][packet_cnt' < packet_cnt => Seen(tx_request') = View(Head(accepted))]_vars

=============================================================================
