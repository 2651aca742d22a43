------------------------------- MODULE TxFsm --------------------------------
(***************************************************************************)
(* The transmit side: host_comm_tx_fsm.c, its request queue                *)
(* host_comm_tx_queue.c, and the transmit half of uart_driver.c.           *)
(*                                                                         *)
(* The main loop runs the state machine; SysTick updates its timer and the *)
(* UART's transmit interrupt drains the transmit buffer between any two of *)
(* its steps.  A packet is abstracted to its identity and payload length,  *)
(* the buffers to the bytes they hold.  tx_send_packet is split: each      *)
(* uart_transmit_it is a step that writes a segment of the frame (pc =     *)
(* "write") and a step that tests gState (pc = "kick").  Everything else   *)
(* the main loop does between two such calls is one step (pc = "run").     *)
(***************************************************************************)
EXTENDS TimeEvents, Sequences, FiniteSets, Functions

CONSTANTS
  Packet,                       \* the packets submitted
  PayloadLen,                   \* header.payload_len of each
  NoPacket,                     \* the zeroed packet of host_comm_tx_fsm_init
  ExtEvents,                    \* the external events the application sets
  PREAMBLE_SIZE_BYTES, HEADER_SIZE_BYTES, CRC_SIZE_BYTES, POSTAMBLE_SIZE_BYTES,
  TX_QUEUE_BUFF_SIZE,           \* bytes of the request queue
  TX_DATA_BUFF_SIZE,            \* bytes of the UART transmit buffer
  MAX_DATA_CHUNK_SIZE,          \* one more than the interrupt sends at once
  MAX_ACK_TIMEOUT_MS,
  MAX_NUM_OF_TRANSFER_RETRIES

ASSUME PacketAssumption ==
  /\ NoPacket \notin Packet
  /\ PayloadLen \in [Packet \cup {NoPacket} -> Nat]
  /\ PayloadLen[NoPacket] = 0

ASSUME ExtEventsAssumption == ExtEvents \subseteq {"ack_received", "nack_received"}

(* One chunk holds at least a byte; every segment is at least a byte.      *)
ASSUME SizesAssumption ==
  /\ PREAMBLE_SIZE_BYTES \in Nat \ {0} /\ HEADER_SIZE_BYTES \in Nat \ {0}
  /\ CRC_SIZE_BYTES \in Nat \ {0} /\ POSTAMBLE_SIZE_BYTES \in Nat \ {0}
  /\ TX_QUEUE_BUFF_SIZE \in Nat /\ TX_DATA_BUFF_SIZE \in Nat
  /\ MAX_DATA_CHUNK_SIZE \in Nat /\ MAX_DATA_CHUNK_SIZE > 1

ASSUME LimitsAssumption ==
  /\ MAX_ACK_TIMEOUT_MS \in Nat
  /\ MAX_NUM_OF_TRANSFER_RETRIES \in Nat

(* packet_data_len is a uint8_t.  The messages of tdd.c and the 200 byte   *)
(* buffer of host_comm_printf keep longer packets out of the queue.        *)
ASSUME LenFitsAssumption ==
  \A p \in Packet : HEADER_SIZE_BYTES + PayloadLen[p] < 256

VARIABLES
  state,            \* handle->state
  internal,         \* handle->event.internal, without its ev_int_comm_tx_
  external,         \* handle->event.external, without its ev_ext_comm_tx_
  ack_timeout,      \* handle->event.time.ack_timeout
  retry_cnt,        \* handle->iface.retry_cnt
  request,          \* handle->iface.request
  queue,            \* the requests in tx_queue
  pc, segment,      \* where the main loop is in tx_send_packet
  tx_len,           \* bytes in uart_data.tx.cb
  busy,             \* huart2.gState # HAL_UART_STATE_READY
  waited            \* history: ticks since the latest of them, to the timeout

handle == <<state, internal, external, ack_timeout, retry_cnt, request>>
uart   == <<tx_len, busy>>
vars   == <<handle, queue, pc, segment, uart, waited>>

Request   == [packet : Packet, ack_expected : BOOLEAN]
NoRequest == [packet |-> NoPacket, ack_expected |-> FALSE]

-----------------------------------------------------------------------------
(* The frame, segment by segment in the order of tx_send_packet.           *)

Whole == 6      \* segment after the last one: the frame is written

SegmentLen(i, req) ==
  CASE i = 1 -> PREAMBLE_SIZE_BYTES
    [] i = 2 -> HEADER_SIZE_BYTES
    [] i = 3 -> PayloadLen[req.packet]
    [] i = 4 -> CRC_SIZE_BYTES
    [] OTHER -> POSTAMBLE_SIZE_BYTES

(* A packet without payload has no payload segment.                        *)
NextSegment(i, req) ==
  IF i = 2 /\ PayloadLen[req.packet] = 0 THEN 4 ELSE i + 1

-----------------------------------------------------------------------------
(* host_comm_tx_queue.c: a request takes a byte for its source, a byte for *)
(* ack_expected, its header and its payload.                               *)

PacketDataLen(req) == HEADER_SIZE_BYTES + PayloadLen[req.packet]

QueuedBytes ==
  FoldFunction(LAMBDA req, n : 2 + PacketDataLen(req) + n, 0, queue)

QueueHasRoom(req) ==
  TX_QUEUE_BUFF_SIZE - QueuedBytes > PacketDataLen(req) + 1

(* host_comm_tx_queue_write_request, from the main loop; a request that    *)
(* does not fit is dropped.                                                *)
WriteRequest(req) ==
  /\ pc = "run"
  /\ QueueHasRoom(req)
  /\ queue' = Append(queue, req)
  /\ UNCHANGED <<handle, pc, segment, uart, waited>>

(* host_comm_tx_fsm_write_dbg_msg refuses an empty message.                *)
WriteDbgMsg ==
  \E req \in Request : PayloadLen[req.packet] > 0 /\ WriteRequest(req)

(* host_comm_tx_fsm_send_packet_no_payload, as host_comm_rx_fsm.c calls it *)
(* for ACK and NACK.                                                       *)
SendPacketNoPayload ==
  \E req \in Request :
    PayloadLen[req.packet] = 0 /\ ~req.ack_expected /\ WriteRequest(req)

-----------------------------------------------------------------------------
(* host_comm_tx_fsm_init *)

Init ==
  /\ state = "poll_pending_transfer"
  /\ internal = "invalid" /\ external = "invalid"
  /\ ack_timeout = Stopped
  /\ retry_cnt = 0 /\ request = NoRequest
  /\ queue = <<>>
  /\ pc = "run" /\ segment = Whole
  /\ tx_len = 0 /\ busy = FALSE
  /\ waited = 0

-----------------------------------------------------------------------------
(* Entering the states.  Both clear the events and stop the timer first    *)
(* (set_next_state).                                                       *)

EnterPoll ==
  /\ state' = "poll_pending_transfer"
  /\ internal' = "invalid" /\ external' = "invalid"
  /\ ack_timeout' = Stopped
  /\ retry_cnt' = 0
  /\ waited' = 0
  /\ UNCHANGED <<request, queue, pc, segment, uart>>

(* Faults: the entry action runs before the events are cleared; the timer  *)
(* of the previous transmission runs on; an old answer is kept.            *)
ClearedAfterEntry(req) ==
  /\ internal' = IF req.ack_expected THEN "invalid" ELSE "no_ack_expected"
  /\ external' = "invalid"
  /\ ack_timeout' = Stopped

TimerRunsOn(req) ==
  /\ internal' = IF req.ack_expected THEN "invalid" ELSE "no_ack_expected"
  /\ external' = "invalid"
  /\ ack_timeout' = IF req.ack_expected /\ ~ack_timeout.active
                    THEN Started(MAX_ACK_TIMEOUT_MS) ELSE ack_timeout

AnswerKept(req) ==
  /\ internal' = IF req.ack_expected THEN "invalid" ELSE "no_ack_expected"
  /\ external' = external
  /\ ack_timeout' = IF req.ack_expected THEN Started(MAX_ACK_TIMEOUT_MS) ELSE Stopped

(* set_next_state, then the choice of entry_action_transmit_packet.        *)
TransmitEvents(req) ==
  /\ internal' = IF req.ack_expected THEN "invalid" ELSE "no_ack_expected"
  /\ external' = "invalid"
  /\ ack_timeout' = IF req.ack_expected THEN Started(MAX_ACK_TIMEOUT_MS) ELSE Stopped

(* enter_seq_transmit_packet, up to its call of tx_send_packet.            *)
EnterTransmit(req) ==
  /\ state' = "transmit_packet"
  /\ TransmitEvents(req)
  /\ pc' = "write" /\ segment' = 1
  /\ waited' = 0
  /\ UNCHANGED uart

-----------------------------------------------------------------------------
(* poll_pending_transfers_on_react *)

(* Faults: the queue is not tested; an event of no concern here blocks it. *)
PollDuringUntested ==
  /\ pc = "run" /\ state = "poll_pending_transfer"
  /\ internal # "pending_packet"
  /\ internal' = "pending_packet"
  /\ UNCHANGED <<state, external, ack_timeout, retry_cnt, request,
                 queue, pc, segment, uart, waited>>

PollDuringBlocked ==
  /\ external = "invalid"
  /\ queue # <<>>
  /\ PollDuringUntested

PollDuring ==
  /\ pc = "run" /\ state = "poll_pending_transfer"
  /\ internal # "pending_packet"
  /\ queue # <<>>
  /\ internal' = "pending_packet"
  /\ UNCHANGED <<state, external, ack_timeout, retry_cnt, request,
                 queue, pc, segment, uart, waited>>

(* A fault: the request is fetched and stays in the queue.                 *)
PollExitFetches ==
  /\ pc = "run" /\ state = "poll_pending_transfer"
  /\ internal = "pending_packet"
  /\ request' = IF queue = <<>> THEN request ELSE Head(queue)
  /\ EnterTransmit(request')
  /\ UNCHANGED <<queue, retry_cnt>>

(* host_comm_tx_queue_read_request leaves the request as it is if nothing  *)
(* is queued.                                                              *)
PollExit ==
  /\ pc = "run" /\ state = "poll_pending_transfer"
  /\ internal = "pending_packet"
  /\ request' = IF queue = <<>> THEN request ELSE Head(queue)
  /\ queue' = IF queue = <<>> THEN queue ELSE Tail(queue)
  /\ EnterTransmit(request')
  /\ UNCHANGED retry_cnt

-----------------------------------------------------------------------------
(* tx_send_packet: a segment that does not fit ends the call, and nobody   *)
(* looks at its result.                                                    *)

SegmentFits ==
  /\ pc = "write"
  /\ tx_len < TX_DATA_BUFF_SIZE
  /\ SegmentLen(segment, request) <= TX_DATA_BUFF_SIZE - tx_len
  /\ tx_len' = tx_len + SegmentLen(segment, request)
  /\ pc' = "kick"
  /\ UNCHANGED <<handle, queue, segment, busy, waited>>

SegmentRefused ==
  /\ pc = "write"
  /\ \/ tx_len = TX_DATA_BUFF_SIZE
     \/ SegmentLen(segment, request) > TX_DATA_BUFF_SIZE - tx_len
  /\ pc' = "run"
  /\ UNCHANGED <<handle, queue, segment, uart, waited>>

(* An idle transmitter is given the first byte of the buffer.  If the      *)
(* interrupt has emptied the buffer meanwhile, circular_buff_get leaves    *)
(* the byte unset and an undefined byte goes out.                          *)
Kick ==
  /\ pc = "kick"
  /\ tx_len' = IF busy \/ tx_len = 0 THEN tx_len ELSE tx_len - 1
  /\ busy' = TRUE
  /\ segment' = NextSegment(segment, request)
  /\ pc' = IF segment' = Whole THEN "run" ELSE "write"
  /\ UNCHANGED <<handle, queue, waited>>

(* A fault: the interrupt does not look for more bytes.                    *)
TxCpltOnce ==
  /\ busy
  /\ busy' = FALSE
  /\ UNCHANGED <<handle, queue, pc, segment, tx_len, waited>>

(* HAL_UART_TxCpltCallback *)
TxCplt ==
  /\ busy
  /\ busy' = (tx_len > 0)
  /\ tx_len' = IF tx_len < MAX_DATA_CHUNK_SIZE
               THEN 0 ELSE tx_len - (MAX_DATA_CHUNK_SIZE - 1)
  /\ UNCHANGED <<handle, queue, pc, segment, waited>>

-----------------------------------------------------------------------------
(* transmit_packet_on_react *)

Transmitted == pc = "run" /\ state = "transmit_packet"

Answered == external = "ack_received" \/ internal = "no_ack_expected"

Resend ==
  /\ EnterTransmit(request)
  /\ UNCHANGED <<request, queue>>

Finish ==
  /\ Transmitted
  /\ Answered
  /\ EnterPoll

Nack ==
  /\ Transmitted
  /\ ~Answered /\ external = "nack_received"
  /\ Resend
  /\ UNCHANGED retry_cnt

TimedOut ==
  /\ Transmitted
  /\ ~Answered /\ external # "nack_received"
  /\ ack_timeout.raised

(* Faults: a retry is not counted; one retry too many.                     *)
RetryUncounted ==
  /\ TimedOut
  /\ retry_cnt < MAX_NUM_OF_TRANSFER_RETRIES
  /\ retry_cnt' = retry_cnt
  /\ Resend

RetryOnceMore ==
  /\ TimedOut
  /\ retry_cnt <= MAX_NUM_OF_TRANSFER_RETRIES
  /\ retry_cnt' = retry_cnt + 1
  /\ Resend

(* The test and count of retry_cnt++ >= MAX_NUM_OF_TRANSFER_RETRIES.       *)
Retry ==
  /\ TimedOut
  /\ retry_cnt < MAX_NUM_OF_TRANSFER_RETRIES
  /\ retry_cnt' = retry_cnt + 1
  /\ Resend

GiveUp ==
  /\ TimedOut
  /\ retry_cnt >= MAX_NUM_OF_TRANSFER_RETRIES
  /\ EnterPoll

-----------------------------------------------------------------------------

(* host_comm_tx_fsm_set_ext_event, from the main loop: an event overwrites *)
(* the one before it.                                                      *)
SetExtEvent ==
  /\ pc = "run"
  /\ \E event \in ExtEvents : external' = event
  /\ UNCHANGED <<state, internal, ack_timeout, retry_cnt, request,
                 queue, pc, segment, uart, waited>>

(* host_comm_tx_fsm_time_event_update, from SysTick.                       *)
SysTick ==
  /\ ack_timeout' = Updated(ack_timeout)
  /\ waited' = IF state = "transmit_packet" /\ waited <= MAX_ACK_TIMEOUT_MS
               THEN waited + 1 ELSE waited
  /\ UNCHANGED <<state, internal, external, retry_cnt, request,
                 queue, pc, segment, uart>>

-----------------------------------------------------------------------------

(* One call of host_comm_tx_fsm_run, or the next step of the one going on. *)
Run ==
  \/ PollDuring \/ PollExit
  \/ SegmentFits \/ SegmentRefused \/ Kick
  \/ Finish \/ Nack \/ Retry \/ GiveUp

Next ==
  \/ WriteDbgMsg \/ SendPacketNoPayload
  \/ Run
  \/ SetExtEvent
  \/ SysTick
  \/ TxCplt

Spec == Init /\ [][Next]_vars

(* The main loop calls run again and again, SysTick and the transmit       *)
(* interrupt keep coming.                                                  *)
Fairness == WF_vars(Run) /\ WF_vars(SysTick) /\ WF_vars(TxCplt)

FairSpec == Spec /\ Fairness

-----------------------------------------------------------------------------
(* Properties *)

(* The handle and the buffers hold values of their C types; the retry      *)
(* counter stays within the limit and neither buffer overflows.            *)
TypeOK ==
  /\ state \in {"poll_pending_transfer", "transmit_packet"}
  /\ internal \in {"invalid", "pending_packet", "no_ack_expected"}
  /\ external \in {"invalid", "ack_received", "nack_received"}
  /\ ack_timeout \in TimeEvent
  /\ retry_cnt \in 0..MAX_NUM_OF_TRANSFER_RETRIES
  /\ request \in Request \cup {NoRequest}
  /\ queue \in Seq(Request)
  /\ pc \in {"run", "write", "kick"} /\ segment \in 1..Whole
  /\ tx_len \in 0..TX_DATA_BUFF_SIZE /\ busy \in BOOLEAN
  /\ waited \in Nat

(* poll_pending_transfers_on_react acts on pending_packet one run after it *)
(* tested the queue: there is still a request to read.                     *)
PendingIsReal ==
  internal = "pending_packet" => state = "poll_pending_transfer" /\ queue # <<>>

(* transmit_packet_on_react always has a way out: the timer runs, or no    *)
(* acknowledgement is expected.                                            *)
TransmitCanEnd ==
  state = "transmit_packet" =>
    IF request.ack_expected THEN ack_timeout.active
                            ELSE internal = "no_ack_expected"

(* uart_driver.c: bytes written to the transmit buffer are never left      *)
(* behind with the transmitter idle, however the interrupt falls between   *)
(* the write and the test of gState.                                       *)
NoBytesStranded ==
  tx_len > 0 /\ pc # "kick" => busy

(* MAX_ACK_TIMEOUT_MS: the host always has the whole time to answer each   *)
(* transmission before the packet is sent again or given up; a timeout     *)
(* left from an earlier transmission never counts against a later one.     *)
FullAckWindow ==
  [][Transmitted /\ request.ack_expected /\ external = "invalid"
       /\ (pc' = "write" \/ state' = "poll_pending_transfer")
     => waited > MAX_ACK_TIMEOUT_MS]_vars

Serving == IF state = "transmit_packet" THEN request ELSE NoRequest

AnswerSeen ==
  IF state # "transmit_packet" THEN "none"
  ELSE CASE external = "ack_received"  -> "ack"
         [] external = "nack_received" -> "nack"
         [] OTHER                      -> "none"

Service == INSTANCE TxService WITH
  waiting <- queue, serving <- Serving, answer <- AnswerSeen, unanswered <- retry_cnt

(* The state machine serves the requests in order, one at a time, sends a  *)
(* packet again only for a reason that belongs to its latest transmission, *)
(* and gives it up only after the permitted number of silences.            *)
ServiceSpec == Service!Spec

(* Unless the host refuses a packet for ever, every packet is done with:   *)
(* the state machine comes back to poll the queue.                         *)
PacketsEnd ==
  <>[](external # "nack_received") => []<>(state = "poll_pending_transfer")

(* A request in the queue is taken once the machine polls.                 *)
QueueServed ==
  <>[](external # "nack_received")
    => [](queue # <<>> => <>(state = "transmit_packet"))

(* README, Peripheral Data Processing: the circular buffer is there to     *)
(* prevent data loss.  The code abandons a frame half-way when the buffer  *)
(* cannot take its next segment.                                           *)
FramesWhole ==
  Transmitted => segment \in {1, Whole}

(* retry_cnt is the "counter for number of transmission retry": each time  *)
(* a packet is transmitted again it is counted, so that                    *)
(* MAX_NUM_OF_TRANSFER_RETRIES bounds how often.                           *)
RetriesCounted ==
  [][Transmitted /\ pc' = "write" => retry_cnt' = retry_cnt + 1]_vars

=============================================================================
