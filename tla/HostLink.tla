------------------------------ MODULE HostLink ------------------------------
(***************************************************************************)
(* The firmware as a whole: main.c's loop runs the receive machine (RxFsm) *)
(* and the transmit machine (TxFsm) in turn.  An answer of the first is a  *)
(* request to the second, in the queue that messages to the host also use; *)
(* one SysTick updates the timers of both.                                 *)
(*                                                                         *)
(* What either machine does is its own module's.  Here are the turns, so   *)
(* that neither gets more runs than main.c gives it, and the hand-over.    *)
(* The line loses no byte here: RxFsm has the losses.                      *)
(***************************************************************************)
EXTENDS Naturals, Sequences, FiniteSets

CONSTANTS
  Byte, PREAMBLE, POSTAMBLE, HEADER_SIZE_BYTES, CRC_SIZE_BYTES, MAX_PAYLOAD_SIZE,
  CRC_STRIDE, ValidHeader(_), HeaderPayloadLen(_), CrcOf(_),
  RX_DATA_BUFF_SIZE, LEN_WRAP, HEADER_BYTES_TIMEOUT_MS, POSTAMBLE_BYTES_TIMEOUT_MS,
  Streams, HostPackets, AppProcesses,                   \* for the receive side
  ACK, NACK,                    \* the answers, packets without payload
  Message,                      \* the packets of write_dbg_msg
  PacketPayloadLen, NoPacket, ExtEvents,
  TX_QUEUE_BUFF_SIZE, TX_DATA_BUFF_SIZE, MAX_DATA_CHUNK_SIZE,
  MAX_ACK_TIMEOUT_MS, MAX_NUM_OF_TRANSFER_RETRIES,      \* for the transmit side
  FramesIn,                     \* the whole frames in each stream
  MessagesWith                  \* bound: messages submitted beside each stream

ASSUME AnswersAssumption ==
  /\ PacketPayloadLen[ACK] = 0 /\ PacketPayloadLen[NACK] = 0
  /\ ACK # NACK /\ NoPacket \notin {ACK, NACK}

VARIABLES
  rx_state, rx_internal, rx_external, time, header, payload,
  rx, rx_pc, block, coming, reply, released, mishaps,
  tx_state, tx_internal, tx_external, ack_timeout, retry_cnt, request,
  queue, tx_pc, segment, tx_len, busy, waited,
  turn,         \* the machine that main.c is running
  credit,       \* bound: messages still to be submitted
  crowded,      \* history: a message came since the transmit side was last idle
  owed,         \* history: frames the host sends
  accepted,     \* history: packets the receive machine accepted
  acked,        \* history: acknowledgements written whole
  spoiled       \* history: "dropped" (queue full), "torn" (UART buffer full)

Rx == INSTANCE RxFsm WITH
  PayloadLen <- HeaderPayloadLen, MayLose <- FALSE,
  state <- rx_state, internal <- rx_internal, external <- rx_external, pc <- rx_pc

Tx == INSTANCE TxFsm WITH
  Packet <- {ACK, NACK} \cup Message, PayloadLen <- PacketPayloadLen,
  PREAMBLE_SIZE_BYTES <- Len(PREAMBLE), POSTAMBLE_SIZE_BYTES <- Len(POSTAMBLE),
  state <- tx_state, internal <- tx_internal, external <- tx_external, pc <- tx_pc

(* The sizes, streams and packets are such as either machine asks.         *)
ASSUME RxAssumption ==
  /\ Rx!BytesAssumption /\ Rx!PreambleAssumption
  /\ Rx!SizesAssumption /\ Rx!ValidHeaderAssumption
ASSUME TxAssumption ==
  /\ Tx!PacketAssumption /\ Tx!ExtEventsAssumption /\ Tx!SizesAssumption
  /\ Tx!LimitsAssumption /\ Tx!LenFitsAssumption
ASSUME CountsAssumption ==
  FramesIn \in [Streams -> Nat] /\ MessagesWith \in [Streams -> Nat]

rx_vars == <<rx_state, rx_internal, rx_external, time, header, payload,
             rx, rx_pc, block, coming, reply, released, mishaps>>
tx_side == <<tx_state, tx_internal, tx_external, ack_timeout, retry_cnt, request,
             tx_pc, segment, tx_len, busy, waited>>
tx_vars == <<tx_side, queue>>
tally   == <<credit, crowded, owed, accepted, acked, spoiled>>
vars    == <<rx_vars, tx_vars, turn, tally>>

Init ==
  /\ Rx!Init /\ Tx!Init
  /\ turn = "rx"
  /\ credit = MessagesWith[coming] /\ crowded = FALSE
  /\ owed = FramesIn[coming] /\ accepted = 0 /\ acked = 0 /\ spoiled = {}

-----------------------------------------------------------------------------
(* The receive machine's turn *)

(* A fault: an answer is queued whether there is room or not.              *)
AnswerRegardless(packet) ==
  /\ queue' = Append(queue, [packet |-> packet, ack_expected |-> FALSE])
  /\ UNCHANGED spoiled

(* host_comm_tx_fsm_send_packet_no_payload; nobody looks at its result.    *)
Answer(packet) ==
  LET req == [packet |-> packet, ack_expected |-> FALSE]
  IN  \/ /\ Tx!QueueHasRoom(req)
         /\ queue' = Append(queue, req)
         /\ UNCHANGED spoiled
      \/ /\ ~Tx!QueueHasRoom(req)
         /\ spoiled' = spoiled \cup {"dropped"}
         /\ UNCHANGED queue

Accept ==
  /\ Rx!CrcAndPostambleOk
  /\ Answer(ACK)
  /\ accepted' = accepted + 1

Refuse ==
  /\ Rx!HeaderFailed \/ Rx!PayloadFailed \/ Rx!CrcAndPostambleFailed
  /\ Answer(NACK)
  /\ UNCHANGED accepted

Receive ==
  /\ \/ Rx!BeginRead \/ Rx!GetByte \/ Rx!GetNothing
     \/ Rx!JudgePreamble \/ Rx!JudgeHeader \/ Rx!JudgePayload \/ Rx!JudgeCrcAndPostamble
     \/ Rx!PreambleOk \/ Rx!HeaderOk \/ Rx!PayloadOk \/ Rx!PacketProcessed
  /\ UNCHANGED <<queue, accepted, spoiled>>

(* A run that finds neither an event nor enough bytes.                     *)
RxIdle ==
  /\ rx_pc = "react"
  /\ \/ rx_state = "packet_ready" /\ rx_external # "packet_proccessed"
     \/ /\ rx_state # "packet_ready" /\ rx_internal = "invalid" /\ ~Rx!TimedOut
        /\ Rx!uart_get_rx_data_len < Rx!Needed
  /\ UNCHANGED <<rx_vars, queue, accepted, spoiled>>

host_comm_rx_fsm_run ==
  /\ turn = "rx"
  /\ Accept \/ Refuse \/ Receive \/ RxIdle
  /\ turn' = IF rx_pc' = "react" THEN "tx" ELSE "rx"
  /\ UNCHANGED <<tx_side, credit, crowded, owed, acked>>

-----------------------------------------------------------------------------
(* The transmit machine's turn *)

AckWritten ==
  tx_state = "transmit_packet" /\ request.packet = ACK /\ segment = Tx!Whole

Transmit ==
  /\ Tx!Run
  /\ acked' = IF AckWritten /\ tx_state' # tx_state THEN acked + 1 ELSE acked
  /\ spoiled' = IF tx_pc = "write" /\ tx_pc' = "run" THEN spoiled \cup {"torn"} ELSE spoiled

(* A run that finds neither a request nor an event.                        *)
TxIdle ==
  /\ tx_pc = "run"
  /\ \/ /\ tx_state = "poll_pending_transfer"
        /\ tx_internal # "pending_packet" /\ queue = <<>>
     \/ /\ tx_state = "transmit_packet"
        /\ ~Tx!Answered /\ tx_external # "nack_received" /\ ~ack_timeout.raised
  /\ UNCHANGED <<tx_vars, acked, spoiled>>

TransmitTurn ==
  /\ turn = "tx"
  /\ Transmit \/ TxIdle
  /\ turn' = IF tx_pc' = "run" THEN "rx" ELSE "tx"
  /\ crowded' = (crowded /\ (queue' # <<>> \/ tx_state' = "transmit_packet"))
  /\ UNCHANGED <<rx_vars, credit, owed, accepted>>

(* A fault: main.c runs the transmit machine only while the UART is idle.  *)
RunWhenSilent ==
  \/ ~(busy /\ tx_pc = "run") /\ TransmitTurn
  \/ /\ busy /\ tx_pc = "run" /\ turn = "tx" /\ turn' = "rx"
     /\ UNCHANGED <<rx_vars, tx_vars, tally>>

host_comm_tx_fsm_run == TransmitTurn

-----------------------------------------------------------------------------
(* Between two calls: the application.  main.c tells neither machine of    *)
(* external events; with AppProcesses an application may report packets    *)
(* processed, and need not.                                                *)

BetweenCalls == rx_pc = "react" /\ tx_pc = "run"

WriteDbgMsg ==
  /\ BetweenCalls
  /\ credit > 0 /\ credit' = credit - 1
  /\ Tx!WriteDbgMsg
  /\ crowded' = TRUE
  /\ UNCHANGED <<rx_vars, turn, owed, accepted, acked, spoiled>>

PacketProcessed ==
  /\ BetweenCalls
  /\ Rx!SetExtEvent
  /\ UNCHANGED <<tx_vars, turn, tally>>

-----------------------------------------------------------------------------
(* The interrupts *)

HAL_SYSTICK_Callback ==
  /\ Rx!SysTick /\ Tx!SysTick
  /\ UNCHANGED <<turn, tally>>

HAL_UART_RxCpltCallback ==
  /\ Rx!Arrive
  /\ UNCHANGED <<tx_vars, turn, tally>>

HAL_UART_TxCpltCallback ==
  /\ Tx!TxCplt
  /\ UNCHANGED <<rx_vars, turn, tally>>

-----------------------------------------------------------------------------

MainLoop == host_comm_rx_fsm_run \/ host_comm_tx_fsm_run

Next ==
  \/ MainLoop
  \/ WriteDbgMsg \/ PacketProcessed
  \/ HAL_SYSTICK_Callback
  \/ HAL_UART_RxCpltCallback
  \/ HAL_UART_TxCpltCallback

Spec == Init /\ [][Next]_vars

(* As in the two machines, except that the main loop's fairness is one: it *)
(* never skips a machine, and each has its turn because the other's ends.  *)
(* Nothing is assumed of the application, which main.c does not have yet.  *)
Fairness ==
  /\ WF_vars(MainLoop)
  /\ WF_vars(HAL_SYSTICK_Callback)
  /\ WF_vars(HAL_UART_RxCpltCallback) /\ WF_vars(HAL_UART_TxCpltCallback)

FairSpec == Spec /\ Fairness

-----------------------------------------------------------------------------
(* Properties *)

(* Both sides keep their types, and only the machine whose turn it is is   *)
(* in the middle of a call.                                                *)
TypeOK ==
  /\ Rx!TypeOK /\ Tx!TypeOK
  /\ rx_pc # "react" => turn = "rx"
  /\ tx_pc # "run" => turn = "tx"
  /\ accepted \in Nat /\ acked \in Nat /\ owed \in Nat
  /\ spoiled \subseteq {"dropped", "torn"}

(* What was checked and proved of either machine with an environment of    *)
(* its own is true of the firmware: together they do nothing that RxFsm    *)
(* and TxFsm do not allow.                                                 *)
PartsSpec == Rx!Spec /\ Tx!Spec

(* The result of send_packet_no_payload is ignored, which is safe only as  *)
(* long as there is room.  Left to themselves the answers never queue up:  *)
(* it takes the receive machine more runs to come to a verdict than it     *)
(* takes the transmit machine to send it off, however slow the line is.    *)
AnswersKeepUp == ~crowded => Len(queue) <= 1

Waiting(packet) ==
  Cardinality({i \in DOMAIN queue : queue[i].packet = packet})
    + (IF Tx!Serving.packet = packet THEN 1 ELSE 0)

(* README, Acknowledge Frame: each accepted packet is acknowledged once,   *)
(* neither twice nor in place of a NACK; the ones not yet acknowledged are *)
(* on their way.  It ends with an answer dropped at a full queue, or torn  *)
(* at a full UART buffer.                                                  *)
OneAckEach == spoiled = {} => accepted = acked + Waiting(ACK)

(* README, Packet Integrity, of the firmware as a whole: a host that sends *)
(* frames, and those intact, none lost or late, gets no NACK.              *)
IntactNotRefused == owed > 0 => Rx!IntactNotRefused


(* README, Acknowledge Frame: every frame the host sends is acknowledged.  *)
(* packet_ready is left only when somebody reports the packet processed.   *)
EveryFrameAcknowledged ==
  <>(acked = owed \/ mishaps # {} \/ spoiled # {})

=============================================================================
