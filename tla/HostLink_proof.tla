--------------------------- MODULE HostLink_proof ---------------------------
(***************************************************************************)
(* The firmware as a whole is a behaviour of each of its machines' own     *)
(* specifications, so that what RxFsm_proof and TxFsm_proof prove holds of *)
(* it; the answers of the one, as requests to the other, match the packets *)
(* accepted one for one, and do not pile up.                               *)
(***************************************************************************)
EXTENDS HostLink, FiniteSetTheorems, TLAPS

(* A machine is in the middle of a call only while it has its turn, so an  *)
(* answer is never queued in the middle of tx_send_packet.                 *)
TurnInv ==
  /\ rx_pc # "react" => turn = "rx"
  /\ tx_pc # "run" => turn = "tx"

LEMMA InitTurn == Init => TurnInv
  BY DEF Init, TurnInv, Rx!Init, Tx!Init

(* The interrupts leave both machines where they are in their calls.       *)
LEMMA InterruptKeepsTurn ==
  ASSUME HAL_SYSTICK_Callback \/ HAL_UART_RxCpltCallback \/ HAL_UART_TxCpltCallback
  PROVE  UNCHANGED <<rx_pc, tx_pc, turn>>
<1>1. CASE HAL_SYSTICK_Callback
  BY <1>1 DEF HAL_SYSTICK_Callback, Rx!SysTick, Tx!SysTick
<1>2. CASE HAL_UART_RxCpltCallback
  BY <1>2 DEF HAL_UART_RxCpltCallback, Rx!Arrive, tx_vars, tx_side
<1>3. CASE HAL_UART_TxCpltCallback
  BY <1>3 DEF HAL_UART_TxCpltCallback, Tx!TxCplt, rx_vars
<1>4. QED
  BY <1>1, <1>2, <1>3

LEMMA NextTurn == TurnInv /\ [Next]_vars => TurnInv'
<1> SUFFICES ASSUME TurnInv, [Next]_vars PROVE TurnInv'
  OBVIOUS
<1>1. CASE host_comm_rx_fsm_run
  <2>1. turn = "rx" /\ turn' = (IF rx_pc' = "react" THEN "tx" ELSE "rx") /\ tx_pc' = tx_pc
    BY <1>1 DEF host_comm_rx_fsm_run, tx_side
  <2>2. QED
    BY <2>1 DEF TurnInv
<1>2. CASE host_comm_tx_fsm_run
  <2>1. turn = "tx" /\ turn' = (IF tx_pc' = "run" THEN "rx" ELSE "tx") /\ rx_pc' = rx_pc
    BY <1>2 DEF host_comm_tx_fsm_run, TransmitTurn, rx_vars
  <2>2. QED
    BY <2>1 DEF TurnInv
<1>3. CASE WriteDbgMsg
  <2>1. UNCHANGED <<rx_pc, tx_pc, turn>>
    BY <1>3 DEF WriteDbgMsg, Tx!WriteDbgMsg, Tx!WriteRequest, rx_vars
  <2>2. QED
    BY <2>1 DEF TurnInv
<1>4. CASE PacketProcessed
  <2>1. UNCHANGED <<rx_pc, tx_pc, turn>>
    BY <1>4 DEF PacketProcessed, Rx!SetExtEvent, tx_vars, tx_side
  <2>2. QED
    BY <2>1 DEF TurnInv
<1>5. CASE HAL_SYSTICK_Callback \/ HAL_UART_RxCpltCallback \/ HAL_UART_TxCpltCallback
  BY <1>5, InterruptKeepsTurn DEF TurnInv
<1>6. CASE UNCHANGED vars
  BY <1>6 DEF vars, rx_vars, tx_vars, tx_side, TurnInv
<1>7. QED
  BY <1>1, <1>2, <1>3, <1>4, <1>5, <1>6 DEF Next, MainLoop

-----------------------------------------------------------------------------
(* The receive machine *)

LEMMA UnchangedRx == UNCHANGED rx_vars => UNCHANGED Rx!vars
  BY DEF rx_vars, Rx!vars, Rx!handle, Rx!history

(* Every step is one of RxFsm's or leaves the receive side alone.          *)
LEMMA StepOfRx == [Next]_vars => [Rx!Next]_Rx!vars
<1> SUFFICES ASSUME [Next]_vars PROVE [Rx!Next]_Rx!vars
  OBVIOUS
<1>1. CASE host_comm_rx_fsm_run
  <2>1. CASE Accept \/ Refuse \/ Receive
    BY <2>1 DEF Accept, Refuse, Receive, Rx!Next, Rx!Run
  <2>2. CASE RxIdle
    BY <2>2, UnchangedRx DEF RxIdle
  <2>3. QED
    BY <1>1, <2>1, <2>2 DEF host_comm_rx_fsm_run
<1>2. CASE host_comm_tx_fsm_run \/ WriteDbgMsg \/ HAL_UART_TxCpltCallback
  BY <1>2, UnchangedRx
     DEF host_comm_tx_fsm_run, TransmitTurn, WriteDbgMsg, HAL_UART_TxCpltCallback
<1>3. CASE PacketProcessed \/ HAL_SYSTICK_Callback \/ HAL_UART_RxCpltCallback
  BY <1>3 DEF PacketProcessed, HAL_SYSTICK_Callback, HAL_UART_RxCpltCallback, Rx!Next
<1>4. CASE UNCHANGED vars
  BY <1>4, UnchangedRx DEF vars
<1>5. QED
  BY <1>1, <1>2, <1>3, <1>4 DEF Next, MainLoop

-----------------------------------------------------------------------------
(* The transmit machine *)

LEMMA UnchangedTx == UNCHANGED tx_vars => UNCHANGED Tx!vars
  BY DEF tx_vars, tx_side, Tx!vars, Tx!handle, Tx!uart

(* An answer is a request without payload, or is dropped.                  *)
LEMMA AnswerIsRequest ==
  ASSUME TurnInv, turn = "rx", NEW packet \in {ACK, NACK}, Answer(packet), UNCHANGED tx_side
  PROVE  [Tx!Next]_Tx!vars
<1> DEFINE req == [packet |-> packet, ack_expected |-> FALSE]
<1>1. CASE queue' = Append(queue, req) /\ Tx!QueueHasRoom(req)
  <2>1. req \in Tx!Request /\ PacketPayloadLen[req.packet] = 0 /\ ~req.ack_expected
    BY AnswersAssumption DEF Tx!Request
  <2>2. tx_pc = "run"
    BY DEF TurnInv
  <2> HIDE DEF req
  <2>3. Tx!WriteRequest(req)
    BY <1>1, <2>2 DEF Tx!WriteRequest, Tx!handle, Tx!uart, tx_side
  <2>4. QED
    BY <2>1, <2>3 DEF Tx!Next, Tx!SendPacketNoPayload
<1>2. CASE queue' = queue
  BY <1>2, UnchangedTx DEF tx_vars
<1>3. QED
  BY <1>1, <1>2 DEF Answer

(* Every step is one of TxFsm's or leaves the transmit side alone.         *)
LEMMA StepOfTx == TurnInv /\ [Next]_vars => [Tx!Next]_Tx!vars
<1> SUFFICES ASSUME TurnInv, [Next]_vars PROVE [Tx!Next]_Tx!vars
  OBVIOUS
<1>1. CASE host_comm_rx_fsm_run
  <2>1. turn = "rx" /\ UNCHANGED tx_side
    BY <1>1 DEF host_comm_rx_fsm_run
  <2>2. CASE Accept \/ Refuse
    BY <2>1, <2>2, AnswerIsRequest DEF Accept, Refuse
  <2>3. CASE Receive \/ RxIdle
    BY <2>1, <2>3, UnchangedTx DEF Receive, RxIdle, tx_vars
  <2>4. QED
    BY <1>1, <2>2, <2>3 DEF host_comm_rx_fsm_run
<1>2. CASE host_comm_tx_fsm_run
  <2>1. CASE Transmit
    BY <2>1 DEF Transmit, Tx!Next
  <2>2. CASE TxIdle
    BY <2>2, UnchangedTx DEF TxIdle
  <2>3. QED
    BY <1>2, <2>1, <2>2 DEF host_comm_tx_fsm_run, TransmitTurn
<1>3. CASE PacketProcessed \/ HAL_UART_RxCpltCallback
  BY <1>3, UnchangedTx DEF PacketProcessed, HAL_UART_RxCpltCallback
<1>4. CASE WriteDbgMsg \/ HAL_SYSTICK_Callback \/ HAL_UART_TxCpltCallback
  BY <1>4 DEF WriteDbgMsg, HAL_SYSTICK_Callback, HAL_UART_TxCpltCallback, Tx!Next
<1>5. CASE UNCHANGED vars
  BY <1>5, UnchangedTx DEF vars
<1>6. QED
  BY <1>1, <1>2, <1>3, <1>4, <1>5 DEF Next, MainLoop

-----------------------------------------------------------------------------

(* main.c's loop, its two machines and the interrupts do nothing that the  *)
(* specification of either machine alone does not allow.                   *)
THEOREM FirmwareImplementsParts == Spec => PartsSpec
<1>1. Init => Rx!Init /\ Tx!Init
  BY DEF Init
<1>2. QED
  BY <1>1, InitTurn, NextTurn, StepOfRx, StepOfTx, PTL
     DEF Spec, PartsSpec, Rx!Spec, Tx!Spec

-----------------------------------------------------------------------------
(* What is proved of either machine holds of the firmware                  *)

RxP == INSTANCE RxFsm_proof WITH
  PayloadLen <- HeaderPayloadLen, MayLose <- FALSE,
  state <- rx_state, internal <- rx_internal, external <- rx_external, pc <- rx_pc

TxP == INSTANCE TxFsm_proof WITH
  Packet <- {ACK, NACK} \cup Message, PayloadLen <- PacketPayloadLen,
  PREAMBLE_SIZE_BYTES <- Len(PREAMBLE), POSTAMBLE_SIZE_BYTES <- Len(POSTAMBLE),
  state <- tx_state, internal <- tx_internal, external <- tx_external, pc <- tx_pc

(* RxP and Rx define the same, and so do TxP and Tx.                       *)
LEMMA SameRxStep == Rx!Next => RxP!Next
  BY DEF Rx!Started, RxP!Started, Rx!Stopped, RxP!Stopped, Rx!Updated,
         RxP!Updated, Rx!handle, RxP!handle, Rx!history, RxP!history,
         Rx!Arrive, RxP!Arrive, Rx!Lose, RxP!Lose, Rx!uart_get_rx_data_len,
         RxP!uart_get_rx_data_len, Rx!SysTick, RxP!SysTick, Rx!TimedOut,
         RxP!TimedOut, Rx!Needed, RxP!Needed, Rx!BeginRead, RxP!BeginRead,
         Rx!ReadOver, RxP!ReadOver, Rx!GetByte, RxP!GetByte, Rx!Unread,
         RxP!Unread, Rx!GetNothing, RxP!GetNothing, Rx!Judged, RxP!Judged,
         Rx!JudgePreamble, RxP!JudgePreamble, Rx!JudgeHeader, RxP!JudgeHeader,
         Rx!JudgePayload, RxP!JudgePayload, Rx!CoveredOf, RxP!CoveredOf,
         Rx!Covered, RxP!Covered, Rx!JudgeCrcAndPostamble,
         RxP!JudgeCrcAndPostamble, Rx!SetNextState, RxP!SetNextState,
         Rx!Reacting, RxP!Reacting, Rx!Nack, RxP!Nack, Rx!Ack, RxP!Ack,
         Rx!PreambleOk, RxP!PreambleOk, Rx!HeaderOk, RxP!HeaderOk,
         Rx!HeaderFailed, RxP!HeaderFailed, Rx!PayloadOk, RxP!PayloadOk,
         Rx!PayloadFailed, RxP!PayloadFailed, Rx!CrcAndPostambleOk,
         RxP!CrcAndPostambleOk, Rx!CrcAndPostambleFailed,
         RxP!CrcAndPostambleFailed, Rx!PacketProcessed, RxP!PacketProcessed,
         Rx!SetExtEvent, RxP!SetExtEvent, Rx!Run, RxP!Run, Rx!Next, RxP!Next,
         Rx!Last, RxP!Last

LEMMA SameRxSpec == Rx!Spec => RxP!Spec
<1>1. Rx!Init => RxP!Init
  BY DEF Rx!Init, RxP!Init, Rx!Zeros, RxP!Zeros, Rx!Stopped, RxP!Stopped
<1>2. UNCHANGED Rx!vars => UNCHANGED RxP!vars
  BY DEF Rx!vars, RxP!vars, Rx!handle, RxP!handle, Rx!history, RxP!history
<1>3. QED
  BY <1>1, <1>2, SameRxStep, PTL DEF Rx!Spec, RxP!Spec

LEMMA SameTxStep == Tx!Next => TxP!Next
  BY DEF Tx!Started, TxP!Started, Tx!Stopped, TxP!Stopped, Tx!Updated,
         TxP!Updated, Tx!handle, TxP!handle, Tx!NoRequest, TxP!NoRequest,
         Tx!Whole, TxP!Whole, Tx!SegmentLen, TxP!SegmentLen, Tx!NextSegment,
         TxP!NextSegment, Tx!PacketDataLen, TxP!PacketDataLen, Tx!QueuedBytes,
         TxP!QueuedBytes, Tx!QueueHasRoom, TxP!QueueHasRoom, Tx!WriteRequest,
         TxP!WriteRequest, Tx!WriteDbgMsg, TxP!WriteDbgMsg,
         Tx!SendPacketNoPayload, TxP!SendPacketNoPayload, Tx!EnterPoll,
         TxP!EnterPoll, Tx!TransmitEvents, TxP!TransmitEvents,
         Tx!EnterTransmit, TxP!EnterTransmit, Tx!PollDuring, TxP!PollDuring,
         Tx!PollExit, TxP!PollExit, Tx!SegmentFits, TxP!SegmentFits,
         Tx!SegmentRefused, TxP!SegmentRefused, Tx!Kick, TxP!Kick, Tx!TxCplt,
         TxP!TxCplt, Tx!Transmitted, TxP!Transmitted, Tx!Answered,
         TxP!Answered, Tx!Resend, TxP!Resend, Tx!Finish, TxP!Finish, Tx!Nack,
         TxP!Nack, Tx!TimedOut, TxP!TimedOut, Tx!Retry, TxP!Retry, Tx!GiveUp,
         TxP!GiveUp, Tx!SetExtEvent, TxP!SetExtEvent, Tx!SysTick, TxP!SysTick,
         Tx!Run, TxP!Run, Tx!Next, TxP!Next, Tx!Request, TxP!Request, Tx!uart,
         TxP!uart, Tx!FoldFunction, TxP!FoldFunction, Tx!FoldFunctionOnSet,
         TxP!FoldFunctionOnSet, Tx!MapThenFoldSet, TxP!MapThenFoldSet

LEMMA SameTxSpec == Tx!Spec => TxP!Spec
<1>1. Tx!Init => TxP!Init
  BY DEF Tx!Init, TxP!Init, Tx!Stopped, TxP!Stopped, Tx!NoRequest,
         TxP!NoRequest, Tx!EnterPoll, TxP!EnterPoll, Tx!Whole, TxP!Whole,
         Tx!handle, TxP!handle
<1>2. UNCHANGED Tx!vars => UNCHANGED TxP!vars
  BY DEF Tx!vars, TxP!vars, Tx!handle, TxP!handle, Tx!uart, TxP!uart
<1>3. QED
  BY <1>1, <1>2, SameTxStep, PTL DEF Tx!Spec, TxP!Spec

LEMMA SameAssumptions ==
  /\ RxP!BytesAssumption /\ RxP!PreambleAssumption
  /\ RxP!SizesAssumption /\ RxP!ValidHeaderAssumption
  /\ TxP!PacketAssumption /\ TxP!ExtEventsAssumption /\ TxP!SizesAssumption
  /\ TxP!LimitsAssumption /\ TxP!LenFitsAssumption
  BY RxAssumption, TxAssumption
     DEF Rx!BytesAssumption, RxP!BytesAssumption, Rx!SizesAssumption, RxP!SizesAssumption,
         Rx!ValidHeaderAssumption, RxP!ValidHeaderAssumption,
         Rx!PreambleAssumption, RxP!PreambleAssumption,
         Tx!PacketAssumption, TxP!PacketAssumption,
         Tx!ExtEventsAssumption, TxP!ExtEventsAssumption,
         Tx!SizesAssumption, TxP!SizesAssumption, Tx!LimitsAssumption, TxP!LimitsAssumption,
         Tx!LenFitsAssumption, TxP!LenFitsAssumption

TalliesInv ==
  /\ accepted \in Nat /\ acked \in Nat /\ owed \in Nat
  /\ spoiled \subseteq {"dropped", "torn"}

LEMMA InitTallies == Init => TalliesInv
<1> SUFFICES ASSUME Init PROVE TalliesInv
  OBVIOUS
<1>1. coming \in Streams
  BY DEF Init, Rx!Init
<1>2. QED
  BY <1>1, CountsAssumption DEF Init, TalliesInv

LEMMA NextTallies == TalliesInv /\ [Next]_vars => TalliesInv'
<1> SUFFICES ASSUME TalliesInv, [Next]_vars PROVE TalliesInv'
  OBVIOUS
<1>1. CASE host_comm_rx_fsm_run
  <2>1. /\ acked' = acked /\ owed' = owed
        /\ accepted' \in {accepted, accepted + 1}
        /\ spoiled' \in {spoiled, spoiled \cup {"dropped"}}
    BY <1>1 DEF host_comm_rx_fsm_run, Accept, Refuse, Receive, RxIdle, Answer
  <2>2. QED
    BY <2>1 DEF TalliesInv
<1>2. CASE host_comm_tx_fsm_run
  <2>1. /\ accepted' = accepted /\ owed' = owed
        /\ acked' \in {acked, acked + 1}
        /\ spoiled' \in {spoiled, spoiled \cup {"torn"}}
    BY <1>2 DEF host_comm_tx_fsm_run, TransmitTurn, Transmit, TxIdle
  <2>2. QED
    BY <2>1 DEF TalliesInv
<1>3. ASSUME UNCHANGED <<owed, accepted, acked, spoiled>> PROVE TalliesInv'
  BY <1>3 DEF TalliesInv
<1>4. CASE WriteDbgMsg
  BY <1>3, <1>4 DEF WriteDbgMsg
<1>5. CASE \/ PacketProcessed \/ HAL_SYSTICK_Callback
           \/ HAL_UART_RxCpltCallback \/ HAL_UART_TxCpltCallback
  BY <1>3, <1>5 DEF PacketProcessed, HAL_SYSTICK_Callback, HAL_UART_RxCpltCallback,
     HAL_UART_TxCpltCallback, tally
<1>6. CASE UNCHANGED vars
  BY <1>3, <1>6 DEF vars, tally
<1>7. QED
  BY <1>1, <1>2, <1>4, <1>5, <1>6 DEF Next, MainLoop

(* main.c: with both machines in turn, the answers of one in the queue of  *)
(* the other, and the interrupts anywhere between, every variable keeps    *)
(* its type, no buffer overflows, and only one machine is in a call.       *)
THEOREM TypeCorrect == Spec => []TypeOK
<1>1. Spec => []RxP!TypeOK
  BY FirmwareImplementsParts, SameRxSpec, SameAssumptions, RxP!TypeCorrect, PTL DEF PartsSpec
<1>2. Spec => []TxP!TypeOK
  BY FirmwareImplementsParts, SameTxSpec, SameAssumptions, TxP!TypeCorrect, PTL DEF PartsSpec
<1>3. RxP!TypeOK => Rx!TypeOK
  BY DEF Rx!TypeOK, RxP!TypeOK, Rx!TimeEvent, RxP!TimeEvent
<1>4. TxP!TypeOK => Tx!TypeOK
  BY DEF Tx!TypeOK, TxP!TypeOK, Tx!TimeEvent, TxP!TimeEvent, Tx!Request, TxP!Request,
     Tx!NoRequest, TxP!NoRequest, Tx!Whole, TxP!Whole
<1>5. Rx!TypeOK /\ Tx!TypeOK /\ TurnInv /\ TalliesInv => TypeOK
  BY DEF TypeOK, TurnInv, TalliesInv
<1>6. QED
  BY <1>1, <1>2, <1>3, <1>4, <1>5, InitTurn, NextTurn, InitTallies, NextTallies, PTL DEF Spec

(* main.c: what keeps either machine right alone keeps it right in the     *)
(* firmware: no timer strikes a later state, no payload is read past its   *)
(* end, a packet is only released afresh; pending requests are real, no    *)
(* state is without a way out, no byte is stranded, and the host has the   *)
(* whole time to answer.                                                   *)
THEOREM MachinesStayCorrect ==
  Spec => /\ [](Rx!OnlyOwnTimerRuns /\ Rx!ReadFits)
          /\ Rx!ReleaseIsFresh
          /\ [](Tx!PendingIsReal /\ Tx!TransmitCanEnd /\ Tx!NoBytesStranded)
          /\ Tx!FullAckWindow
<1>1. Spec => RxP!Spec /\ TxP!Spec
  BY FirmwareImplementsParts, SameRxSpec, SameTxSpec, PTL DEF PartsSpec
<1>2. RxP!Spec => []RxP!OnlyOwnTimerRuns /\ []RxP!ReadFits /\ RxP!ReleaseIsFresh
  BY SameAssumptions, RxP!TimersOwned, RxP!ReadsFit, RxP!ReleasesFresh, PTL
<1>3. TxP!Spec => /\ []TxP!PendingIsReal /\ []TxP!TransmitCanEnd
                  /\ []TxP!NoBytesStranded /\ TxP!FullAckWindow
  BY SameAssumptions, TxP!PendingStaysReal, TxP!TransmitAlwaysEnds, TxP!BytesNeverStranded,
     TxP!WindowIsFull, PTL
<1>4. RxP!OnlyOwnTimerRuns /\ RxP!ReadFits => Rx!OnlyOwnTimerRuns /\ Rx!ReadFits
  BY DEF Rx!OnlyOwnTimerRuns, RxP!OnlyOwnTimerRuns, Rx!ReadFits, RxP!ReadFits,
     Rx!Needed, RxP!Needed
<1>5. TxP!PendingIsReal /\ TxP!TransmitCanEnd /\ TxP!NoBytesStranded
        => Tx!PendingIsReal /\ Tx!TransmitCanEnd /\ Tx!NoBytesStranded
  BY DEF Tx!PendingIsReal, TxP!PendingIsReal, Tx!TransmitCanEnd, TxP!TransmitCanEnd,
     Tx!NoBytesStranded, TxP!NoBytesStranded
<1>6. RxP!ReleaseIsFresh => Rx!ReleaseIsFresh
  <2>1. UNCHANGED RxP!vars => UNCHANGED Rx!vars
    BY DEF Rx!vars, RxP!vars, Rx!handle, RxP!handle, Rx!history, RxP!history
  <2>2. QED
    BY <2>1, PTL DEF Rx!ReleaseIsFresh, RxP!ReleaseIsFresh
<1>7. TxP!FullAckWindow => Tx!FullAckWindow
  <2>1. UNCHANGED TxP!vars => UNCHANGED Tx!vars
    BY DEF Tx!vars, TxP!vars, Tx!handle, TxP!handle, Tx!uart, TxP!uart
  <2>2. Tx!Transmitted <=> TxP!Transmitted
    BY DEF Tx!Transmitted, TxP!Transmitted
  <2>3. QED
    BY <2>1, <2>2, PTL DEF Tx!FullAckWindow, TxP!FullAckWindow
<1>8. QED
  BY <1>1, <1>2, <1>3, <1>4, <1>5, <1>6, <1>7, PTL

(* host_comm_rx_fsm.c in the firmware: where the CRC tells, a packet that  *)
(* is accepted is one the host sent.                                       *)
THEOREM AcceptsOnlySent == Rx!CrcTells => (Spec => []Rx!AckedIntact)
<1> SUFFICES ASSUME Rx!CrcTells PROVE Spec => []Rx!AckedIntact
  OBVIOUS
<1>1. RxP!CrcTells
  BY DEF Rx!CrcTells, RxP!CrcTells, Rx!Delivered, RxP!Delivered, Rx!CoveredOf, RxP!CoveredOf
<1>2. Spec => []RxP!AckedIntact
  BY <1>1, FirmwareImplementsParts, SameRxSpec, SameAssumptions, RxP!AcksIntact, PTL
     DEF PartsSpec
<1>3. RxP!AckedIntact => Rx!AckedIntact
  BY DEF Rx!AckedIntact, RxP!AckedIntact
<1>4. QED
  BY <1>2, <1>3, PTL

(* What a host sends that sends frames is intact.                          *)
FramesIntact == \A s \in Streams : FramesIn[s] > 0 => Rx!Intact(s)

(* README, Packet Integrity, of the firmware as a whole: with the answers  *)
(* of one machine in the queue of the other, no frame of such a host is    *)
(* refused as long as none of its bytes is lost or late.                   *)
THEOREM FramesNotRefused == FramesIntact => (Spec => []IntactNotRefused)
<1> SUFFICES ASSUME FramesIntact PROVE Spec => []IntactNotRefused
  OBVIOUS
<1>1. Init => ~(owed > 0) \/ RxP!Intact(coming)
  <2>1. Init => ~(owed > 0) \/ Rx!Intact(coming)
    BY DEF Init, Rx!Init, FramesIntact
  <2>2. Rx!Intact(coming) => RxP!Intact(coming)
    BY DEF Rx!Intact, RxP!Intact, Rx!MadeOf, RxP!MadeOf, Rx!FrameThen, RxP!FrameThen,
       Rx!NoiseThen, RxP!NoiseThen, Rx!IsPacket, RxP!IsPacket, Rx!CoveredOf, RxP!CoveredOf,
       Rx!Zeros, RxP!Zeros
  <2>3. QED
    BY <2>1, <2>2
<1>2. ~(owed > 0) /\ [Next]_vars => ~(owed > 0)'
  <2>1. [Next]_vars => owed' = owed
    BY DEF Next, MainLoop, host_comm_rx_fsm_run, Accept, Refuse, Receive, RxIdle, Answer,
       host_comm_tx_fsm_run, TransmitTurn, Transmit, TxIdle, WriteDbgMsg, PacketProcessed,
       HAL_SYSTICK_Callback, HAL_UART_RxCpltCallback, HAL_UART_TxCpltCallback, tally, vars
  <2>2. QED
    BY <2>1
<1>3. Spec /\ RxP!Intact(coming) => []RxP!IntactNotRefused
  BY FirmwareImplementsParts, SameRxSpec, SameAssumptions, RxP!IntactNotNacked, PTL
     DEF PartsSpec
<1>4. RxP!IntactNotRefused => IntactNotRefused
  BY DEF IntactNotRefused, Rx!IntactNotRefused, RxP!IntactNotRefused
<1>5. ~(owed > 0) => IntactNotRefused
  BY DEF IntactNotRefused
<1>6. QED
  BY <1>1, <1>2, <1>3, <1>4, <1>5, PTL DEF Spec

-----------------------------------------------------------------------------
(* The transmit side under the requests that HostLink makes of it: the     *)
(* host's acknowledgements do not reach it, and answers ask for none.      *)

Plain(req) == req.packet \in {ACK, NACK} => ~req.ack_expected

QueuedInv ==
  /\ queue \in Seq(Tx!Request)
  /\ \A i \in DOMAIN queue : Plain(queue[i])

PendingInv ==
  tx_internal = "pending_packet" => tx_state = "poll_pending_transfer" /\ queue # <<>>

PollInv ==
  tx_state = "poll_pending_transfer" => tx_pc = "run" /\ tx_internal # "no_ack_expected"

(* A request that asks for no acknowledgement is done with in one run;     *)
(* only a full UART buffer ends its frame early.                           *)
ServedInv ==
  tx_state = "transmit_packet" =>
    /\ request \in Tx!Request /\ Plain(request)
    /\ ~request.ack_expected => tx_internal = "no_ack_expected"
    /\ tx_pc = "run" => segment = Tx!Whole \/ "torn" \in spoiled

TxInv ==
  /\ tx_state \in {"poll_pending_transfer", "transmit_packet"}
  /\ TurnInv /\ QueuedInv /\ PendingInv /\ PollInv /\ ServedInv

(* How many packets of a kind are queued.                                  *)
Places(packet, q) == {i \in DOMAIN q : q[i].packet = packet}

LEMMA PlacesFinite ==
  ASSUME NEW R, NEW q \in Seq(R), NEW packet
  PROVE  IsFiniteSet(Places(packet, q)) /\ Cardinality(Places(packet, q)) \in Nat
<1>1. Places(packet, q) \in SUBSET (1..Len(q)) /\ IsFiniteSet(1..Len(q))
  BY FS_Interval DEF Places
<1>2. IsFiniteSet(Places(packet, q))
  BY <1>1, FS_Subset
<1>3. QED
  BY <1>2, FS_CardinalityType

LEMMA PlacesEmpty == ASSUME NEW packet PROVE Cardinality(Places(packet, <<>>)) = 0
<1>1. Places(packet, <<>>) = {}
  BY DEF Places
<1>2. QED
  BY <1>1, FS_EmptySet

LEMMA PlacesAppend ==
  ASSUME NEW R, NEW q \in Seq(R), NEW req \in R, NEW packet
  PROVE  Cardinality(Places(packet, Append(q, req))) =
           Cardinality(Places(packet, q)) + (IF req.packet = packet THEN 1 ELSE 0)
<1> DEFINE longer == Append(q, req)
<1>1. /\ DOMAIN longer = 1..(Len(q) + 1) /\ DOMAIN q = 1..Len(q) /\ Len(q) \in Nat
      /\ longer[Len(q) + 1] = req
      /\ \A i \in 1..Len(q) : longer[i] = q[i]
  OBVIOUS
<1>2. IsFiniteSet(Places(packet, q)) /\ Cardinality(Places(packet, q)) \in Nat
  BY PlacesFinite
<1> HIDE DEF longer
<1>3. CASE req.packet = packet
  <2>1. Places(packet, longer) = Places(packet, q) \cup {Len(q) + 1}
    BY <1>1, <1>3 DEF Places
  <2>2. Len(q) + 1 \notin Places(packet, q)
    BY <1>1 DEF Places
  <2>3. QED
    BY <1>2, <1>3, <2>1, <2>2, FS_AddElement, ZenonT(30) DEF longer
<1>4. CASE req.packet # packet
  <2>1. Places(packet, longer) = Places(packet, q)
    BY <1>1, <1>4 DEF Places
  <2>2. QED
    BY <1>2, <1>4, <2>1 DEF longer
<1>5. QED
  BY <1>3, <1>4

LEMMA PlacesTail ==
  ASSUME NEW R, NEW q \in Seq(R), q # <<>>, NEW packet
  PROVE  Cardinality(Places(packet, q)) =
           Cardinality(Places(packet, Tail(q))) + (IF Head(q).packet = packet THEN 1 ELSE 0)
<1> DEFINE rest == Tail(q)
           Later == Places(packet, q) \ {1}
<1>1. /\ rest \in Seq(R) /\ Len(rest) = Len(q) - 1 /\ Len(q) \in Nat \ {0}
      /\ DOMAIN rest = 1..(Len(q) - 1) /\ DOMAIN q = 1..Len(q)
      /\ Head(q) = q[1]
      /\ \A i \in 1..(Len(q) - 1) : rest[i] = q[i + 1]
  OBVIOUS
<1>2. /\ IsFiniteSet(Places(packet, q)) /\ Cardinality(Places(packet, q)) \in Nat
      /\ IsFiniteSet(Places(packet, rest)) /\ Cardinality(Places(packet, rest)) \in Nat
  BY <1>1, PlacesFinite
<1> HIDE DEF rest
<1>3. Cardinality(Later) = Cardinality(Places(packet, rest))
  <2> DEFINE shift == [i \in Places(packet, rest) |-> i + 1]
  <2>1. shift \in [Places(packet, rest) -> Later]
    BY <1>1 DEF Places
  <2>2. \A i, j \in Places(packet, rest) : shift[i] = shift[j] => i = j
    BY <1>1 DEF Places
  <2>3. \A j \in Later : \E i \in Places(packet, rest) : shift[i] = j
    <3>1. SUFFICES ASSUME NEW j \in Later
                   PROVE  j - 1 \in Places(packet, rest) /\ (j - 1) + 1 = j
      OBVIOUS
    <3>2. j \in 2..Len(q) /\ q[j].packet = packet
      BY <1>1 DEF Places
    <3>3. j - 1 \in 1..(Len(q) - 1) /\ (j - 1) + 1 = j
      BY <1>1, <3>2
    <3>4. QED
      BY <1>1, <3>2, <3>3 DEF Places
  <2>4. shift \in Bijection(Places(packet, rest), Later)
    BY <2>1, <2>2, <2>3 DEF Bijection, Injection, Surjection, IsInjective
  <2>5. ExistsBijection(Places(packet, rest), Later)
    BY <2>4 DEF ExistsBijection
  <2>6. QED
    BY <1>2, <2>5, FS_Bijection
<1>4. Cardinality(Later) = IF 1 \in Places(packet, q) THEN Cardinality(Places(packet, q)) - 1
                                                      ELSE Cardinality(Places(packet, q))
  BY <1>2, FS_RemoveElement
<1>5. 1 \in Places(packet, q) <=> Head(q).packet = packet
  BY <1>1 DEF Places
<1>6. QED
  BY <1>2, <1>3, <1>4, <1>5 DEF rest

-----------------------------------------------------------------------------
(* The invariant of the transmit side                                      *)

LEMMA InitTx == Init => TxInv
  BY InitTurn DEF Init, Tx!Init, TxInv, QueuedInv, PendingInv, PollInv, ServedInv

(* One more request in the queue changes nothing else.                     *)
LEMMA QueuedMore ==
  ASSUME TxInv, TurnInv', NEW req \in Tx!Request, Plain(req), queue' = Append(queue, req),
         UNCHANGED tx_side, "torn" \in spoiled => "torn" \in spoiled'
  PROVE  TxInv'
<1>1. queue \in Seq(Tx!Request) /\ \A i \in DOMAIN queue : Plain(queue[i])
  BY DEF TxInv, QueuedInv
<1>2. QueuedInv'
  BY <1>1 DEF QueuedInv, Plain
<1>3. queue' # <<>>
  BY <1>1
<1>4. QED
  BY <1>2, <1>3 DEF TxInv, PendingInv, PollInv, ServedInv, Plain, tx_side

LEMMA UnchangedTxInv ==
  ASSUME TxInv, TurnInv', UNCHANGED tx_vars, "torn" \in spoiled => "torn" \in spoiled'
  PROVE  TxInv'
  BY DEF TxInv, QueuedInv, PendingInv, PollInv, ServedInv, Plain, tx_vars, tx_side

(* An answer asks for no acknowledgement.                                  *)
AnswerRequest(packet) == [packet |-> packet, ack_expected |-> FALSE]

LEMMA AnswerType ==
  ASSUME NEW packet \in {ACK, NACK}
  PROVE  AnswerRequest(packet) \in Tx!Request /\ Plain(AnswerRequest(packet))
  BY DEF AnswerRequest, Tx!Request, Plain

LEMMA AnswerStep ==
  ASSUME NEW packet \in {ACK, NACK}, Answer(packet)
  PROVE  \/ queue' = Append(queue, AnswerRequest(packet)) /\ spoiled' = spoiled
         \/ queue' = queue /\ spoiled' = spoiled \cup {"dropped"}
  BY DEF Answer, AnswerRequest

LEMMA AnswerTx ==
  ASSUME TxInv, TurnInv', NEW packet \in {ACK, NACK}, Answer(packet), UNCHANGED tx_side
  PROVE  TxInv'
<1>1. CASE queue' = Append(queue, AnswerRequest(packet)) /\ spoiled' = spoiled
  BY <1>1, AnswerType, QueuedMore
<1>2. CASE queue' = queue /\ spoiled' = spoiled \cup {"dropped"}
  BY <1>2, UnchangedTxInv DEF tx_vars
<1>3. QED
  BY <1>1, <1>2, AnswerStep

(* A message has a payload, so it is no answer.                            *)
LEMMA MessageStep ==
  ASSUME WriteDbgMsg
  PROVE  /\ \E req \in Tx!Request : req.packet \notin {ACK, NACK} /\ queue' = Append(queue, req)
         /\ UNCHANGED tx_side /\ UNCHANGED <<rx_vars, turn, accepted, acked, spoiled>>
         /\ crowded'
<1>1. PICK req \in Tx!Request : PacketPayloadLen[req.packet] > 0 /\ Tx!WriteRequest(req)
  BY DEF WriteDbgMsg, Tx!WriteDbgMsg
<1>2. req.packet \notin {ACK, NACK}
  BY <1>1, AnswersAssumption
<1>3. queue' = Append(queue, req) /\ UNCHANGED tx_side
  BY <1>1 DEF Tx!WriteRequest, Tx!handle, Tx!uart, tx_side
<1>4. QED
  BY <1>2, <1>3 DEF WriteDbgMsg

(* What a step of the transmit machine does to the requests, the events,   *)
(* the place in the frame and the tallies.                                 *)
LEMMA TransmitTx == TxInv /\ TurnInv' /\ Transmit => TxInv'
<1> SUFFICES ASSUME TxInv, TurnInv', Transmit PROVE TxInv'
  OBVIOUS
<1> USE DEF TxInv, QueuedInv, PendingInv, PollInv, ServedInv, Tx!handle, Tx!uart
<1>1. "torn" \in spoiled => "torn" \in spoiled'
  BY DEF Transmit
<1>2. CASE Tx!PollDuring
  BY <1>1, <1>2 DEF Tx!PollDuring
<1>3. CASE Tx!PollExit
  <2>1. queue # <<>> /\ queue \in Seq(Tx!Request) /\ tx_state = "poll_pending_transfer"
    BY <1>3 DEF Tx!PollExit
  <2>2. /\ request' = Head(queue) /\ queue' = Tail(queue)
        /\ tx_state' = "transmit_packet" /\ tx_pc' = "write"
        /\ tx_internal' = IF request'.ack_expected THEN "invalid" ELSE "no_ack_expected"
    BY <1>3, <2>1 DEF Tx!PollExit, Tx!EnterTransmit, Tx!TransmitEvents
  <2>3. Head(queue) = queue[1] /\ 1 \in DOMAIN queue /\ Head(queue) \in Tx!Request
    BY <2>1
  <2>4. /\ Tail(queue) \in Seq(Tx!Request)
        /\ \A i \in DOMAIN Tail(queue) : i + 1 \in DOMAIN queue /\ Tail(queue)[i] = queue[i + 1]
    BY <2>1
  <2>5. QueuedInv'
    BY <2>2, <2>4 DEF Plain
  <2>6. QED
    BY <2>2, <2>3, <2>5 DEF Plain
<1>4. CASE Tx!SegmentFits
  BY <1>1, <1>4 DEF Tx!SegmentFits, Plain
<1>5. CASE Tx!SegmentRefused
  <2>1. "torn" \in spoiled'
    BY <1>5 DEF Transmit, Tx!SegmentRefused
  <2>2. QED
    BY <1>5, <2>1 DEF Tx!SegmentRefused, Plain
<1>6. CASE Tx!Kick
  <2>1. tx_state = "transmit_packet"
    BY <1>6 DEF Tx!Kick
  <2>2. tx_pc' = "run" => segment' = Tx!Whole
    BY <1>6 DEF Tx!Kick
  <2>3. QED
    BY <1>6, <2>1, <2>2 DEF Tx!Kick, Plain
<1>7. CASE Tx!Finish \/ Tx!GiveUp
  BY <1>7 DEF Tx!Finish, Tx!GiveUp, Tx!TimedOut, Tx!Transmitted, Tx!EnterPoll
<1>8. CASE Tx!Nack \/ Tx!Retry
  <2>1. /\ tx_state = "transmit_packet" /\ UNCHANGED <<request, queue>>
        /\ tx_state' = "transmit_packet" /\ tx_pc' = "write"
        /\ tx_internal' = IF request.ack_expected THEN "invalid" ELSE "no_ack_expected"
    BY <1>8 DEF Tx!Nack, Tx!Retry, Tx!TimedOut, Tx!Transmitted, Tx!Resend,
       Tx!EnterTransmit, Tx!TransmitEvents
  <2>2. QED
    BY <2>1 DEF Plain
<1>9. QED
  BY <1>2, <1>3, <1>4, <1>5, <1>6, <1>7, <1>8 DEF Transmit, Tx!Run

LEMMA InterruptTx ==
  ASSUME TxInv, TurnInv',
         HAL_SYSTICK_Callback \/ HAL_UART_RxCpltCallback \/ HAL_UART_TxCpltCallback
  PROVE  TxInv'
<1>1. UNCHANGED <<tx_state, tx_internal, request, queue, tx_pc, segment, spoiled>>
  <2>1. CASE HAL_SYSTICK_Callback
    BY <2>1 DEF HAL_SYSTICK_Callback, Tx!SysTick, tally
  <2>2. CASE HAL_UART_RxCpltCallback
    BY <2>2 DEF HAL_UART_RxCpltCallback, tx_vars, tx_side, tally
  <2>3. CASE HAL_UART_TxCpltCallback
    BY <2>3 DEF HAL_UART_TxCpltCallback, Tx!TxCplt, Tx!handle, tally
  <2>4. QED
    BY <2>1, <2>2, <2>3
<1>2. QED
  BY <1>1 DEF TxInv, QueuedInv, PendingInv, PollInv, ServedInv, Plain

LEMMA NextTx == TxInv /\ [Next]_vars => TxInv'
<1> SUFFICES ASSUME TxInv, [Next]_vars PROVE TxInv'
  OBVIOUS
<1>1. TurnInv'
  BY NextTurn DEF TxInv
<1>2. CASE host_comm_rx_fsm_run
  <2>1. CASE Accept \/ Refuse
    BY <1>1, <1>2, <2>1, AnswerTx DEF host_comm_rx_fsm_run, Accept, Refuse
  <2>2. CASE Receive \/ RxIdle
    BY <1>1, <1>2, <2>2, UnchangedTxInv DEF host_comm_rx_fsm_run, Receive, RxIdle, tx_vars
  <2>3. QED
    BY <1>2, <2>1, <2>2 DEF host_comm_rx_fsm_run
<1>3. CASE host_comm_tx_fsm_run
  <2>1. CASE Transmit
    BY <1>1, <2>1, TransmitTx
  <2>2. CASE TxIdle
    BY <1>1, <2>2, UnchangedTxInv DEF TxIdle
  <2>3. QED
    BY <1>3, <2>1, <2>2 DEF host_comm_tx_fsm_run, TransmitTurn
<1>4. CASE WriteDbgMsg
  BY <1>1, <1>4, MessageStep, QueuedMore DEF Plain
<1>5. CASE PacketProcessed
  BY <1>1, <1>5, UnchangedTxInv DEF PacketProcessed, tally
<1>6. CASE HAL_SYSTICK_Callback \/ HAL_UART_RxCpltCallback \/ HAL_UART_TxCpltCallback
  BY <1>1, <1>6, InterruptTx
<1>7. CASE UNCHANGED vars
  BY <1>1, <1>7, UnchangedTxInv DEF vars, tally
<1>8. QED
  BY <1>2, <1>3, <1>4, <1>5, <1>6, <1>7 DEF Next, MainLoop

-----------------------------------------------------------------------------
(* Each accepted packet is acknowledged once                               *)

Being(packet) == IF Tx!Serving.packet = packet THEN 1 ELSE 0

CountInv == accepted \in Nat /\ acked \in Nat /\ OneAckEach

LEMMA WaitingIs == Waiting(ACK) = Cardinality(Places(ACK, queue)) + Being(ACK)
  BY DEF Waiting, Places, Being

LEMMA BeingType == Being(ACK) \in 0..1
  BY DEF Being

LEMMA InitCount == Init => CountInv
<1> SUFFICES ASSUME Init PROVE CountInv
  OBVIOUS
<1>1. Being(ACK) = 0
  BY AnswersAssumption DEF Init, Tx!Init, Being, Tx!Serving, Tx!NoRequest
<1>2. Cardinality(Places(ACK, queue)) = 0
  BY PlacesEmpty DEF Init, Tx!Init
<1>3. accepted = 0 /\ acked = 0
  BY DEF Init
<1>4. QED
  BY <1>1, <1>2, <1>3, WaitingIs DEF CountInv, OneAckEach

(* Whatever leaves the tallies, the requests and the one in service alone. *)
LEMMA SameCount ==
  ASSUME CountInv, UNCHANGED <<queue, accepted, acked>>, Tx!Serving' = Tx!Serving,
         spoiled' = {} => spoiled = {}
  PROVE  CountInv'
<1>1. Waiting(ACK)' = Waiting(ACK)
  BY DEF Waiting
<1>2. QED
  BY <1>1 DEF CountInv, OneAckEach

LEMMA ServingKept == UNCHANGED tx_side => Tx!Serving' = Tx!Serving /\ Being(ACK)' = Being(ACK)
  BY DEF tx_side, Tx!Serving, Being

LEMMA QueuedOne ==
  ASSUME TxInv, NEW req \in Tx!Request, queue' = Append(queue, req)
  PROVE  /\ Cardinality(Places(ACK, queue)) \in Nat
         /\ Cardinality(Places(ACK, queue))' =
              Cardinality(Places(ACK, queue)) + (IF req.packet = ACK THEN 1 ELSE 0)
<1>1. queue \in Seq(Tx!Request)
  BY DEF TxInv, QueuedInv
<1>2. Cardinality(Places(ACK, Append(queue, req))) =
        Cardinality(Places(ACK, queue)) + (IF req.packet = ACK THEN 1 ELSE 0)
  BY <1>1, PlacesAppend
<1>3. Cardinality(Places(ACK, queue)) \in Nat
  BY <1>1, PlacesFinite
<1>4. QED
  BY <1>2, <1>3

(* An answer queued counts if it is an ACK; one dropped ends the count.    *)
LEMMA AnswerCount ==
  ASSUME TxInv, CountInv, NEW packet \in {ACK, NACK}, Answer(packet), UNCHANGED <<tx_side, acked>>,
         accepted' = IF packet = ACK THEN accepted + 1 ELSE accepted
  PROVE  CountInv'
<1>1. accepted' \in Nat /\ acked' \in Nat /\ accepted \in Nat /\ acked \in Nat
  BY DEF CountInv
<1>2. CASE queue' = queue /\ spoiled' = spoiled \cup {"dropped"}
  BY <1>1, <1>2 DEF CountInv, OneAckEach
<1>3. CASE queue' = Append(queue, AnswerRequest(packet)) /\ spoiled' = spoiled
  <2> DEFINE n == Cardinality(Places(ACK, queue))
             m == Cardinality(Places(ACK, queue))'
  <2>1. n \in Nat /\ m = n + (IF packet = ACK THEN 1 ELSE 0)
    BY <1>3, AnswerType, QueuedOne DEF AnswerRequest
  <2>2. Waiting(ACK)' = m + Being(ACK) /\ Waiting(ACK) = n + Being(ACK)
    <3>1. (WaitingIs)'
      BY WaitingIs, PTL
    <3>2. QED
      BY <3>1, WaitingIs, ServingKept
  <2> HIDE DEF n, m
  <2>3. QED
    BY <1>1, <1>3, <2>1, <2>2, BeingType DEF CountInv, OneAckEach
<1>4. QED
  BY <1>2, <1>3, AnswerStep

LEMMA MessageCount == TxInv /\ CountInv /\ WriteDbgMsg => CountInv'
<1> SUFFICES ASSUME TxInv, CountInv, WriteDbgMsg PROVE CountInv'
  OBVIOUS
<1>1. Cardinality(Places(ACK, queue))' = Cardinality(Places(ACK, queue))
  BY MessageStep, QueuedOne
<1>2. Waiting(ACK)' = Waiting(ACK)
  <2>1. (WaitingIs)'
    BY WaitingIs, PTL
  <2>2. QED
    BY <1>1, <2>1, WaitingIs, ServingKept, MessageStep
<1>3. QED
  BY <1>2, MessageStep DEF CountInv, OneAckEach

(* From the queue to the transmitter: not counted twice, nor lost.         *)
LEMMA TakeCount ==
  ASSUME TxInv, CountInv, Transmit, UNCHANGED accepted, Tx!PollExit
  PROVE  CountInv'
<1>1. /\ queue \in Seq(Tx!Request) /\ queue # <<>>
      /\ tx_state = "poll_pending_transfer" /\ tx_pc = "run"
  BY DEF Tx!PollExit, TxInv, QueuedInv, PendingInv
<1>2. request' = Head(queue) /\ queue' = Tail(queue) /\ tx_state' = "transmit_packet"
  BY <1>1 DEF Tx!PollExit, Tx!EnterTransmit
<1>3. acked' = acked /\ spoiled' = spoiled
  BY <1>1 DEF Transmit, AckWritten
<1>4. Being(ACK) = 0 /\ Being(ACK)' = IF Head(queue).packet = ACK THEN 1 ELSE 0
  BY <1>1, <1>2, AnswersAssumption DEF Being, Tx!Serving, Tx!NoRequest
<1> DEFINE n == Cardinality(Places(ACK, queue))
           m == Cardinality(Places(ACK, queue))'
<1>5. n \in Nat /\ m \in Nat /\ n = m + (IF Head(queue).packet = ACK THEN 1 ELSE 0)
  <2>1. Tail(queue) \in Seq(Tx!Request)
    BY <1>1
  <2>2. QED
    BY <1>1, <1>2, <2>1, PlacesTail, PlacesFinite
<1>6. Waiting(ACK) = n + Being(ACK) /\ Waiting(ACK)' = m + Being(ACK)'
  <2>1. (WaitingIs)'
    BY WaitingIs, PTL
  <2>2. QED
    BY <2>1, WaitingIs
<1> HIDE DEF n, m
<1>7. Waiting(ACK)' = Waiting(ACK)
  BY <1>4, <1>5, <1>6
<1>8. QED
  BY <1>3, <1>7 DEF CountInv, OneAckEach

(* A frame that was not torn is whole when its request is done with.       *)
LEMMA DoneCount ==
  ASSUME TxInv, CountInv, Transmit, UNCHANGED accepted, Tx!Finish \/ Tx!GiveUp
  PROVE  CountInv'
<1>1. /\ tx_state = "transmit_packet" /\ tx_pc = "run"
      /\ tx_state' = "poll_pending_transfer" /\ queue' = queue
  BY DEF Tx!Finish, Tx!GiveUp, Tx!TimedOut, Tx!Transmitted, Tx!EnterPoll
<1>2. spoiled' = spoiled
  BY <1>1 DEF Transmit
<1>3. SUFFICES ASSUME spoiled = {} PROVE CountInv'
  <2>1. acked' \in Nat /\ accepted' \in Nat
    BY DEF Transmit, CountInv
  <2>2. QED
    BY <1>2, <1>3, <2>1 DEF CountInv, OneAckEach
<1>4. segment = Tx!Whole
  BY <1>1, <1>3 DEF TxInv, ServedInv
<1>5. acked' = acked + Being(ACK)
  <2>1. AckWritten <=> request.packet = ACK
    BY <1>1, <1>4 DEF AckWritten
  <2>2. Being(ACK) = IF request.packet = ACK THEN 1 ELSE 0
    BY <1>1 DEF Being, Tx!Serving
  <2>3. QED
    BY <1>1, <2>1, <2>2 DEF Transmit, CountInv
<1>6. Being(ACK)' = 0
  BY <1>1, AnswersAssumption DEF Being, Tx!Serving, Tx!NoRequest
<1> DEFINE n == Cardinality(Places(ACK, queue))
<1>7. Waiting(ACK) = n + Being(ACK) /\ Waiting(ACK)' = n + Being(ACK)'
  <2>1. (WaitingIs)'
    BY WaitingIs, PTL
  <2>2. QED
    BY <1>1, <2>1, WaitingIs
<1>8. n \in Nat
  BY PlacesFinite DEF TxInv, QueuedInv
<1> HIDE DEF n
<1>9. QED
  BY <1>2, <1>3, <1>5, <1>6, <1>7, <1>8, BeingType DEF CountInv, OneAckEach

LEMMA TransmitCount ==
  ASSUME TxInv, CountInv, Transmit, UNCHANGED accepted
  PROVE  CountInv'
<1>1. CASE Tx!PollDuring \/ Tx!SegmentFits \/ Tx!SegmentRefused \/ Tx!Kick
  <2>1. UNCHANGED <<queue, request, tx_state>>
    BY <1>1 DEF Tx!PollDuring, Tx!SegmentFits, Tx!SegmentRefused, Tx!Kick, Tx!handle
  <2>2. acked' = acked /\ (spoiled' = {} => spoiled = {})
    BY <2>1 DEF Transmit
  <2>3. QED
    BY <2>1, <2>2, SameCount DEF Tx!Serving
<1>2. CASE Tx!Nack \/ Tx!Retry
  <2>1. UNCHANGED <<queue, request, tx_state>>
    BY <1>2 DEF Tx!Nack, Tx!Retry, Tx!TimedOut, Tx!Transmitted, Tx!Resend, Tx!EnterTransmit
  <2>2. acked' = acked /\ (spoiled' = {} => spoiled = {})
    BY <2>1 DEF Transmit
  <2>3. QED
    BY <2>1, <2>2, SameCount DEF Tx!Serving
<1>3. QED
  BY <1>1, <1>2, TakeCount, DoneCount DEF Transmit, Tx!Run

LEMMA NextCount == TxInv /\ CountInv /\ [Next]_vars => CountInv'
<1> SUFFICES ASSUME TxInv, CountInv, [Next]_vars PROVE CountInv'
  OBVIOUS
<1>1. CASE host_comm_rx_fsm_run
  <2>1. UNCHANGED <<tx_side, acked>>
    BY <1>1 DEF host_comm_rx_fsm_run
  <2>2. CASE Accept
    BY <2>1, <2>2, AnswerCount DEF Accept
  <2>3. CASE Refuse
    BY <2>1, <2>3, AnswerCount, AnswersAssumption DEF Refuse
  <2>4. CASE Receive \/ RxIdle
    BY <2>1, <2>4, SameCount, ServingKept DEF Receive, RxIdle
  <2>5. QED
    BY <1>1, <2>2, <2>3, <2>4 DEF host_comm_rx_fsm_run
<1>2. CASE host_comm_tx_fsm_run
  <2>1. accepted' = accepted
    BY <1>2 DEF host_comm_tx_fsm_run, TransmitTurn
  <2>2. CASE Transmit
    BY <2>1, <2>2, TransmitCount
  <2>3. CASE TxIdle
    BY <2>1, <2>3, SameCount, ServingKept DEF TxIdle, tx_vars
  <2>4. QED
    BY <1>2, <2>2, <2>3 DEF host_comm_tx_fsm_run, TransmitTurn
<1>3. CASE WriteDbgMsg
  BY <1>3, MessageCount
<1>4. CASE PacketProcessed \/ HAL_UART_RxCpltCallback
  BY <1>4, SameCount, ServingKept DEF PacketProcessed, HAL_UART_RxCpltCallback, tx_vars, tally
<1>5. CASE HAL_SYSTICK_Callback \/ HAL_UART_TxCpltCallback
  <2>1. UNCHANGED <<queue, request, tx_state, accepted, acked, spoiled>>
    BY <1>5 DEF HAL_SYSTICK_Callback, HAL_UART_TxCpltCallback, Tx!SysTick, Tx!TxCplt,
       Tx!handle, tally
  <2>2. QED
    BY <2>1, SameCount DEF Tx!Serving
<1>6. CASE UNCHANGED vars
  BY <1>6, SameCount, ServingKept DEF vars, tx_vars, tally
<1>7. QED
  BY <1>1, <1>2, <1>3, <1>4, <1>5, <1>6 DEF Next, MainLoop

(* README, Acknowledge Frame: each packet the receive machine accepts is   *)
(* acknowledged once, neither twice nor in place of a NACK; one not yet    *)
(* acknowledged is queued or being sent, whatever messages come between -  *)
(* until an answer is dropped at a full queue or torn at a full buffer.    *)
THEOREM AcksMatch == Spec => []OneAckEach
<1>1. TxInv /\ CountInv => OneAckEach
  BY DEF CountInv
<1>2. QED
  BY <1>1, InitTx, NextTx, InitCount, NextCount, PTL DEF Spec

-----------------------------------------------------------------------------
(* The answers keep up                                                     *)

(* Runs of the receive machine until it can answer, the answering one      *)
(* included; runs of the transmit machine until it has taken a request off *)
(* the queue.                                                              *)
ToAnswer ==
  CASE rx_state = "preamble_proc" -> IF rx_internal = "preamble_ok" THEN 2 ELSE 3
    [] rx_state = "packet_ready"  -> 4
    [] OTHER                      -> 1

ToTake ==
  IF tx_state = "transmit_packet" THEN 3
  ELSE IF tx_internal = "pending_packet" THEN 1 ELSE 2

RunsLeft == IF turn = "rx" THEN ToAnswer - 1 ELSE ToAnswer

(* Left to themselves, nothing asks for an acknowledgement.                *)
UnaskedInv ==
  /\ \A i \in DOMAIN queue : ~queue[i].ack_expected
  /\ tx_state = "transmit_packet" => ~request.ack_expected

(* An answer in the queue is taken before the next can come.               *)
PaceInv ==
  /\ Len(queue) <= 1
  /\ queue # <<>> => ToTake <= RunsLeft
  /\ tx_pc # "run" => queue = <<>>

KeepUpInv == ~crowded => UnaskedInv /\ PaceInv

LEMMA PaceType == ToAnswer \in 1..4 /\ ToTake \in 1..3 /\ RunsLeft \in 0..4
<1>1. ToAnswer \in 1..4
  BY DEF ToAnswer
<1>2. ToTake \in 1..3
  BY DEF ToTake
<1>3. QED
  BY <1>1, <1>2 DEF RunsLeft

LEMMA InitKeepUp == Init => KeepUpInv
  BY DEF Init, Tx!Init, KeepUpInv, UnaskedInv, PaceInv

(* Whatever leaves the machines' states, the queue and the turn alone.     *)
LEMMA SamePace ==
  ASSUME KeepUpInv,
         UNCHANGED <<rx_state, rx_internal, tx_state, tx_internal, request, queue, tx_pc, turn, crowded>>
  PROVE  KeepUpInv'
  BY DEF KeepUpInv, UnaskedInv, PaceInv, ToAnswer, ToTake, RunsLeft

(* One run brings the receive machine one run nearer to an answer at most; *)
(* a step within a run brings it no nearer.                                *)
LEMMA ReceivePace ==
  ASSUME Receive \/ RxIdle
  PROVE  ToAnswer' >= (IF rx_pc' = "react" THEN ToAnswer - 1 ELSE ToAnswer)
<1>1. CASE UNCHANGED <<rx_state, rx_internal>>
  <2>1. ToAnswer' = ToAnswer
    BY <1>1 DEF ToAnswer
  <2>2. QED
    BY <2>1, PaceType
<1>2. CASE Rx!JudgePreamble
  BY <1>2 DEF Rx!JudgePreamble, Rx!Judged, ToAnswer
<1>3. CASE Rx!JudgeHeader \/ Rx!JudgePayload \/ Rx!JudgeCrcAndPostamble
  <2>1. /\ rx_state \in {"header_proc", "payload_proc", "crc_and_postamble_proc"}
        /\ rx_state' = rx_state
    BY <1>3 DEF Rx!JudgeHeader, Rx!JudgePayload, Rx!JudgeCrcAndPostamble, Rx!Judged
  <2>2. QED
    BY <2>1 DEF ToAnswer
<1>4. CASE Rx!PreambleOk
  BY <1>4 DEF Rx!PreambleOk, Rx!Reacting, Rx!SetNextState, ToAnswer
<1>5. CASE Rx!HeaderOk \/ Rx!PayloadOk
  <2>1. /\ rx_state \in {"header_proc", "payload_proc"}
        /\ rx_state' \in {"payload_proc", "crc_and_postamble_proc"}
    BY <1>5 DEF Rx!HeaderOk, Rx!PayloadOk, Rx!Reacting, Rx!SetNextState
  <2>2. QED
    BY <2>1 DEF ToAnswer
<1>6. CASE Rx!PacketProcessed
  BY <1>6 DEF Rx!PacketProcessed, Rx!Reacting, Rx!SetNextState, ToAnswer
<1>7. QED
  BY <1>1, <1>2, <1>3, <1>4, <1>5, <1>6
     DEF Receive, RxIdle, rx_vars, Rx!BeginRead, Rx!GetByte, Rx!GetNothing, Rx!handle

(* After an answer the next is three runs away.                            *)
LEMMA AnsweredPace ==
  ASSUME Accept \/ Refuse
  PROVE  ToAnswer = 1 /\ ToAnswer' >= 3 /\ rx_pc' = "react"
<1>1. /\ rx_state \in {"header_proc", "payload_proc", "crc_and_postamble_proc"}
      /\ rx_state' \in {"preamble_proc", "packet_ready"} /\ rx_internal' = "invalid"
      /\ rx_pc' = "react"
  BY DEF Accept, Refuse, Rx!CrcAndPostambleOk, Rx!HeaderFailed, Rx!PayloadFailed,
     Rx!CrcAndPostambleFailed, Rx!Reacting, Rx!SetNextState
<1>2. QED
  BY <1>1 DEF ToAnswer

LEMMA RxKeepUp == TxInv /\ KeepUpInv /\ host_comm_rx_fsm_run => KeepUpInv'
<1> SUFFICES ASSUME TxInv, KeepUpInv, host_comm_rx_fsm_run, ~crowded
             PROVE  (UnaskedInv /\ PaceInv)'
  BY DEF host_comm_rx_fsm_run, KeepUpInv
<1>1. /\ UNCHANGED tx_side /\ turn = "rx" /\ tx_pc = "run"
      /\ turn' = IF rx_pc' = "react" THEN "tx" ELSE "rx"
  BY DEF host_comm_rx_fsm_run, TxInv, TurnInv
<1>2. UnaskedInv /\ PaceInv /\ queue \in Seq(Tx!Request)
  BY DEF KeepUpInv, TxInv, QueuedInv
<1>3. ToTake' = ToTake /\ ToTake \in 1..3 /\ ToAnswer' \in 1..4 /\ ToAnswer \in 1..4
  <2>1. ToTake' = ToTake
    BY <1>1 DEF tx_side, ToTake
  <2>2. (PaceType)'
    BY PaceType, PTL
  <2>3. QED
    BY <2>1, <2>2, PaceType
<1>4. CASE Receive \/ RxIdle
  <2>1. queue' = queue
    BY <1>4 DEF Receive, RxIdle
  <2>2. RunsLeft' >= RunsLeft
    <3> DEFINE a == ToAnswer
               b == ToAnswer'
               l == RunsLeft
               m == RunsLeft'
    <3>1. b >= (IF rx_pc' = "react" THEN a - 1 ELSE a) /\ a \in Int /\ b \in Int
      BY <1>3, <1>4, ReceivePace
    <3>2. l = a - 1
      BY <1>1 DEF RunsLeft
    <3>3. m = IF rx_pc' = "react" THEN b ELSE b - 1
      BY <1>1 DEF RunsLeft
    <3>4. m >= l
      <4> HIDE DEF a, b, l, m
      <4>1. QED
        BY <3>1, <3>2, <3>3
    <3>5. QED
      BY <3>4
  <2>3. RunsLeft \in 0..4 /\ RunsLeft' \in 0..4
    BY <1>1, <1>3 DEF RunsLeft
  <2>4. PaceInv'
    BY <1>1, <1>2, <1>3, <2>1, <2>2, <2>3 DEF PaceInv, tx_side
  <2>5. QED
    BY <1>1, <1>2, <2>1, <2>4 DEF UnaskedInv, tx_side
<1>5. CASE Accept \/ Refuse
  <2>1. queue = <<>>
    BY <1>1, <1>2, <1>3, <1>5, AnsweredPace DEF PaceInv, RunsLeft
  <2>2. RunsLeft' >= 3 /\ turn' = "tx"
    BY <1>1, <1>5, AnsweredPace DEF RunsLeft
  <2>3. RunsLeft' \in 0..4
    BY <1>1, <1>3 DEF RunsLeft
  <2>4. PICK packet \in {ACK, NACK} : Answer(packet)
    BY <1>5 DEF Accept, Refuse
  <2>5. queue' = <<>> \/ queue' = <<AnswerRequest(packet)>>
    BY <2>1, <2>4, AnswerStep
  <2>6. Len(queue') <= 1 /\ \A i \in DOMAIN queue' : ~queue'[i].ack_expected
    <3>1. ~AnswerRequest(packet).ack_expected
      BY DEF AnswerRequest
    <3>2. QED
      BY <2>5, <3>1
  <2>7. PaceInv'
    BY <1>1, <1>3, <2>2, <2>3, <2>6 DEF PaceInv, tx_side
  <2>8. QED
    BY <1>1, <1>2, <2>6, <2>7 DEF UnaskedInv, tx_side
<1>6. QED
  BY <1>4, <1>5 DEF host_comm_rx_fsm_run

LEMMA TxKeepUp == TxInv /\ KeepUpInv /\ host_comm_tx_fsm_run => KeepUpInv'
<1> SUFFICES ASSUME TxInv, TxInv', KeepUpInv, host_comm_tx_fsm_run, ~crowded'
             PROVE  (UnaskedInv /\ PaceInv)'
  BY NextTx DEF Next, MainLoop, KeepUpInv
<1>1. /\ UNCHANGED rx_vars /\ turn = "tx" /\ turn' = IF tx_pc' = "run" THEN "rx" ELSE "tx"
      /\ crowded' = (crowded /\ (queue' # <<>> \/ tx_state' = "transmit_packet"))
      /\ Transmit \/ TxIdle
  BY DEF host_comm_tx_fsm_run, TransmitTurn
<1>2. queue \in Seq(Tx!Request)
  BY DEF TxInv, QueuedInv
<1>3. CASE queue' = <<>> /\ tx_state' # "transmit_packet"
  BY <1>3 DEF UnaskedInv, PaceInv
<1>4. CASE ~crowded
  <2>1. UnaskedInv /\ PaceInv
    BY <1>4 DEF KeepUpInv
  <2>2. tx_state = "transmit_packet" => tx_internal = "no_ack_expected" /\ ~request.ack_expected
    BY <2>1 DEF UnaskedInv, TxInv, ServedInv
  <2>3. RunsLeft = ToAnswer /\ ToAnswer' = ToAnswer /\ ToAnswer \in 1..4
    BY <1>1, PaceType DEF RunsLeft, rx_vars, ToAnswer
  <2>4. CASE Tx!PollDuring
    <3>1. UNCHANGED <<queue, request, tx_state, tx_pc>>
      BY <2>4 DEF Tx!PollDuring
    <3>2. ToTake = 2 /\ ToTake' = 1 /\ turn' = "rx"
      BY <1>1, <2>4 DEF Tx!PollDuring, ToTake
    <3>3. QED
      BY <2>1, <2>3, <3>1, <3>2 DEF UnaskedInv, PaceInv, RunsLeft
  <2>5. CASE Tx!PollExit
    <3>1. queue # <<>> /\ request' = Head(queue) /\ queue' = Tail(queue)
      BY <2>5 DEF Tx!PollExit, TxInv, PendingInv
    <3>2. Len(queue) = 1 /\ 1 \in DOMAIN queue /\ Head(queue) = queue[1]
      <4>1. Len(queue) <= 1
        BY <2>1 DEF PaceInv
      <4>2. Len(queue) \in Nat \ {0} /\ DOMAIN queue = 1..Len(queue)
        BY <1>2, <3>1
      <4>3. QED
        BY <4>1, <4>2
    <3>3. queue' = <<>> /\ ~request'.ack_expected
      BY <1>2, <2>1, <3>1, <3>2 DEF UnaskedInv
    <3>4. QED
      BY <3>3 DEF UnaskedInv, PaceInv
  <2>6. CASE Tx!SegmentFits \/ Tx!SegmentRefused \/ Tx!Kick
    <3>1. UNCHANGED <<queue, request, tx_state>> /\ tx_pc # "run"
      BY <2>6 DEF Tx!SegmentFits, Tx!SegmentRefused, Tx!Kick, Tx!handle
    <3>2. queue' = <<>>
      BY <2>1, <3>1 DEF PaceInv
    <3>3. QED
      BY <2>1, <3>1, <3>2 DEF UnaskedInv, PaceInv
  <2>7. CASE Tx!Finish
    <3>1. /\ tx_state = "transmit_packet" /\ tx_pc = "run"
          /\ tx_state' = "poll_pending_transfer" /\ UNCHANGED <<queue, request, tx_pc>>
          /\ tx_internal' = "invalid"
      BY <2>7 DEF Tx!Finish, Tx!Transmitted, Tx!EnterPoll
    <3>2. ToTake = 3 /\ turn' = "rx"
      BY <1>1, <3>1 DEF ToTake
    <3>3. ToTake' = 2
      BY <3>1 DEF ToTake
    <3>4. QED
      BY <2>1, <2>3, <3>1, <3>2, <3>3 DEF UnaskedInv, PaceInv, RunsLeft
  <2>8. CASE Tx!Nack \/ Tx!Retry \/ Tx!GiveUp
    BY <2>2, <2>8 DEF Tx!Nack, Tx!Retry, Tx!GiveUp, Tx!TimedOut, Tx!Transmitted, Tx!Answered
  <2>9. CASE TxIdle
    <3>1. UNCHANGED <<queue, request, tx_state, tx_pc>>
      BY <2>9 DEF TxIdle, tx_vars, tx_side
    <3>2. queue = <<>>
      BY <2>2, <2>9 DEF TxIdle, Tx!Answered
    <3>3. QED
      BY <2>1, <3>1, <3>2 DEF UnaskedInv, PaceInv
  <2>10. QED
    BY <1>1, <2>4, <2>5, <2>6, <2>7, <2>8, <2>9 DEF Transmit, Tx!Run
<1>5. QED
  BY <1>1, <1>3, <1>4

LEMMA NextKeepUp == TxInv /\ KeepUpInv /\ [Next]_vars => KeepUpInv'
<1> SUFFICES ASSUME TxInv, KeepUpInv, [Next]_vars PROVE KeepUpInv'
  OBVIOUS
<1>1. CASE WriteDbgMsg
  BY <1>1, MessageStep DEF KeepUpInv
<1>2. CASE PacketProcessed
  BY <1>2, SamePace DEF PacketProcessed, Rx!SetExtEvent, tx_vars, tx_side, tally
<1>3. CASE HAL_SYSTICK_Callback
  BY <1>3, SamePace DEF HAL_SYSTICK_Callback, Rx!SysTick, Tx!SysTick, tally
<1>4. CASE HAL_UART_RxCpltCallback
  BY <1>4, SamePace DEF HAL_UART_RxCpltCallback, Rx!Arrive, Rx!handle, tx_vars, tx_side, tally
<1>5. CASE HAL_UART_TxCpltCallback
  BY <1>5, SamePace DEF HAL_UART_TxCpltCallback, Tx!TxCplt, Tx!handle, rx_vars, tally
<1>6. CASE UNCHANGED vars
  BY <1>6, SamePace DEF vars, rx_vars, tx_vars, tx_side, tally
<1>7. QED
  BY <1>1, <1>2, <1>3, <1>4, <1>5, <1>6, RxKeepUp, TxKeepUp DEF Next, MainLoop

(* host_comm_rx_fsm.c ignores whether its answer was queued.  It never     *)
(* matters while no message competes: the receive machine takes at least   *)
(* three runs from one answer to the next, the transmit machine at most    *)
(* three to take one off the queue, so no second answer ever waits.        *)
THEOREM AnswersPaced == Spec => []AnswersKeepUp
<1>1. KeepUpInv => AnswersKeepUp
  BY DEF KeepUpInv, PaceInv, AnswersKeepUp
<1>2. QED
  BY <1>1, InitTx, NextTx, InitKeepUp, NextKeepUp, PTL DEF Spec

=============================================================================
