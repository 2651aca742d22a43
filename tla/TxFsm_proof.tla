---------------------------- MODULE TxFsm_proof -----------------------------
(***************************************************************************)
(* Proofs about TxFsm, for every set of packets and every size, timeout    *)
(* and retry limit the assumptions of TxFsm allow.                         *)
(***************************************************************************)
EXTENDS TxFsm, TLAPS

(* In each state, what the events, the timer and tx_send_packet can be.    *)
PollInv ==
  state = "poll_pending_transfer" =>
    /\ pc = "run"
    /\ internal # "no_ack_expected"
    /\ ~ack_timeout.active /\ ~ack_timeout.raised
    /\ retry_cnt = 0

TransmitInv ==
  state = "transmit_packet" =>
    /\ request \in Request
    /\ internal # "pending_packet"
    /\ request.ack_expected <=> internal # "no_ack_expected"
    /\ request.ack_expected <=> ack_timeout.active
    /\ ~request.ack_expected => ~ack_timeout.raised

(* The timer and the history of its transmission add up.                   *)
WaitInv ==
  state = "transmit_packet" /\ request.ack_expected =>
    IF ack_timeout.raised
      THEN waited = MAX_ACK_TIMEOUT_MS + 1
      ELSE ack_timeout.millis_cnt + waited = MAX_ACK_TIMEOUT_MS

(* tx_send_packet is at a segment that the frame has.                      *)
SegmentInv ==
  pc # "run" =>
    /\ segment \in 1..5
    /\ segment = 3 => PayloadLen[request.packet] > 0

Inv ==
  /\ TypeOK /\ PendingIsReal /\ TransmitCanEnd /\ NoBytesStranded
  /\ PollInv /\ TransmitInv /\ WaitInv /\ SegmentInv

-----------------------------------------------------------------------------
(* Lemmas about the operators *)

LEMMA NoRequestFacts == NoRequest \notin Request /\ PayloadLen[NoRequest.packet] = 0
BY PacketAssumption DEF Request, NoRequest

LEMMA RequestLen ==
  ASSUME NEW req \in Request \cup {NoRequest}
  PROVE  PayloadLen[req.packet] \in Nat
BY PacketAssumption DEF Request, NoRequest

LEMMA SegmentLenType ==
  ASSUME NEW req \in Request \cup {NoRequest}, NEW i \in 1..5
  PROVE  SegmentLen(i, req) \in Nat
BY RequestLen, SizesAssumption DEF SegmentLen

(* A segment that tx_send_packet reaches has at least one byte.            *)
LEMMA SegmentLenPositive ==
  ASSUME NEW req \in Request \cup {NoRequest}, NEW i \in 1..5,
         i = 3 => PayloadLen[req.packet] > 0
  PROVE  SegmentLen(i, req) > 0
BY RequestLen, SizesAssumption DEF SegmentLen

(* The next segment is one the frame has, or the end of the frame.         *)
LEMMA NextSegmentType ==
  ASSUME NEW req \in Request \cup {NoRequest}, NEW i \in 1..5
  PROVE  /\ NextSegment(i, req) \in 1..Whole
         /\ NextSegment(i, req) = 3 => PayloadLen[req.packet] > 0
BY RequestLen DEF NextSegment, Whole

LEMMA TimerType ==
  ASSUME NEW t \in TimeEvent
  PROVE  Updated(t) \in TimeEvent
<1>1. CASE ~t.active
  BY <1>1 DEF Updated
<1>2. CASE t.active /\ t.millis_cnt > 0
  BY <1>2 DEF Updated, TimeEvent
<1>3. CASE t.active /\ ~(t.millis_cnt > 0)
  BY <1>3 DEF Updated, TimeEvent
<1>4. QED
  BY <1>1, <1>2, <1>3

LEMMA TimerStarted ==
  /\ Started(MAX_ACK_TIMEOUT_MS) \in TimeEvent
  /\ Started(MAX_ACK_TIMEOUT_MS).millis_cnt = MAX_ACK_TIMEOUT_MS
  /\ Started(MAX_ACK_TIMEOUT_MS).active /\ ~Started(MAX_ACK_TIMEOUT_MS).raised
BY LimitsAssumption DEF Started, TimeEvent

LEMMA TimerStopped ==
  Stopped \in TimeEvent /\ ~Stopped.active /\ ~Stopped.raised
BY DEF Stopped, TimeEvent

-----------------------------------------------------------------------------

LEMMA InitInv == Init => Inv
<1> SUFFICES ASSUME Init PROVE Inv
  OBVIOUS
<1>1. busy \in BOOLEAN
  BY DEF Init
<1>2. tx_len \in 0..TX_DATA_BUFF_SIZE
  BY SizesAssumption DEF Init
<1>3. TypeOK
  BY <1>1, <1>2, TimerStopped, LimitsAssumption DEF Init, TypeOK, Whole
<1>4. PendingIsReal /\ TransmitCanEnd /\ NoBytesStranded
  BY DEF Init, PendingIsReal, TransmitCanEnd, NoBytesStranded
<1>5. PollInv /\ TransmitInv /\ WaitInv /\ SegmentInv
  BY TimerStopped DEF Init, PollInv, TransmitInv, WaitInv, SegmentInv
<1>6. QED
  BY <1>3, <1>4, <1>5 DEF Inv

(* Both ways into transmit_packet: the events and the timer fit the        *)
(* request, and tx_send_packet starts at the first segment.                *)
LEMMA EnterTransmitInv ==
  ASSUME NEW req \in Request, EnterTransmit(req), request' = req, TypeOK,
         queue' \in Seq(Request), NoBytesStranded, pc = "run",
         retry_cnt' \in 0..MAX_NUM_OF_TRANSFER_RETRIES
  PROVE  Inv'
<1>1. /\ state' = "transmit_packet" /\ pc' = "write" /\ segment' = 1
      /\ waited' = 0 /\ external' = "invalid"
      /\ internal' = IF req.ack_expected THEN "invalid" ELSE "no_ack_expected"
  BY DEF EnterTransmit, TransmitEvents
<1>2. /\ ack_timeout' \in TimeEvent
      /\ ~ack_timeout'.raised
      /\ ack_timeout'.active <=> req.ack_expected
      /\ req.ack_expected => ack_timeout'.millis_cnt = MAX_ACK_TIMEOUT_MS
  BY TimerStarted, TimerStopped DEF EnterTransmit, TransmitEvents
<1>3. tx_len' = tx_len /\ busy' = busy
  BY DEF EnterTransmit, uart
<1>4. TypeOK'
  BY <1>1, <1>2, <1>3 DEF TypeOK, Whole
<1>5. PendingIsReal' /\ TransmitCanEnd' /\ NoBytesStranded'
  BY <1>1, <1>2, <1>3 DEF PendingIsReal, TransmitCanEnd, NoBytesStranded
<1>6. PollInv' /\ TransmitInv' /\ SegmentInv'
  BY <1>1, <1>2 DEF PollInv, TransmitInv, SegmentInv
<1>7. WaitInv'
  BY <1>1, <1>2, LimitsAssumption DEF WaitInv
<1>8. QED
  BY <1>4, <1>5, <1>6, <1>7 DEF Inv

(* Both ways back to poll_pending_transfers.                               *)
LEMMA EnterPollInv ==
  ASSUME EnterPoll, TypeOK, NoBytesStranded, pc = "run"
  PROVE  Inv'
<1>1. /\ state' = "poll_pending_transfer" /\ internal' = "invalid"
      /\ external' = "invalid" /\ retry_cnt' = 0 /\ waited' = 0
      /\ ack_timeout' = Stopped
      /\ UNCHANGED <<request, queue, pc, segment, tx_len, busy>>
  BY DEF EnterPoll, uart
<1>2. TypeOK'
  BY <1>1, TimerStopped, LimitsAssumption DEF TypeOK
<1>3. PendingIsReal' /\ TransmitCanEnd' /\ NoBytesStranded'
  BY <1>1 DEF PendingIsReal, TransmitCanEnd, NoBytesStranded
<1>4. PollInv' /\ TransmitInv' /\ WaitInv' /\ SegmentInv'
  BY <1>1, TimerStopped DEF PollInv, TransmitInv, WaitInv, SegmentInv
<1>5. QED
  BY <1>2, <1>3, <1>4 DEF Inv

LEMMA WriteRequestInv ==
  ASSUME Inv, NEW req \in Request, WriteRequest(req)
  PROVE  Inv'
<1>1. queue' = Append(queue, req) /\ queue \in Seq(Request)
  BY DEF WriteRequest, Inv, TypeOK
<1>2. queue' \in Seq(Request) /\ queue' # <<>>
  BY <1>1
<1>3. UNCHANGED <<handle, pc, segment, uart, waited>>
  BY DEF WriteRequest
<1>4. TypeOK'
  BY <1>2, <1>3 DEF Inv, TypeOK, handle, uart
<1>5. QED
  BY <1>2, <1>3, <1>4 DEF Inv, PendingIsReal, TransmitCanEnd, NoBytesStranded,
     PollInv, TransmitInv, WaitInv, SegmentInv, handle, uart

LEMMA PollDuringInv == Inv /\ PollDuring => Inv'
BY DEF PollDuring, uart, Inv, TypeOK, PendingIsReal, TransmitCanEnd,
   NoBytesStranded, PollInv, TransmitInv, WaitInv, SegmentInv

LEMMA PollExitInv == Inv /\ PollExit => Inv'
<1> SUFFICES ASSUME Inv, PollExit PROVE Inv'
  OBVIOUS
<1>1. queue \in Seq(Request) /\ queue # <<>>
  BY DEF PollExit, Inv, TypeOK, PendingIsReal
<1>2. request' = Head(queue) /\ queue' = Tail(queue)
  BY <1>1 DEF PollExit
<1>3. request' \in Request /\ queue' \in Seq(Request)
  BY <1>1, <1>2
<1>4. EnterTransmit(request')
  BY DEF PollExit
<1>5. retry_cnt' \in 0..MAX_NUM_OF_TRANSFER_RETRIES
  BY DEF PollExit, Inv, TypeOK
<1>6. TypeOK /\ NoBytesStranded /\ pc = "run"
  BY DEF PollExit, Inv
<1>7. QED
  BY <1>3, <1>4, <1>5, <1>6, EnterTransmitInv

LEMMA ResendInv ==
  ASSUME Inv, Resend, Transmitted,
         retry_cnt' \in 0..MAX_NUM_OF_TRANSFER_RETRIES
  PROVE  Inv'
<1>1. request' = request /\ queue' = queue /\ EnterTransmit(request)
  BY DEF Resend
<1>2. request \in Request /\ pc = "run"
  BY DEF Transmitted, Inv, TransmitInv
<1>3. TypeOK /\ NoBytesStranded /\ queue' \in Seq(Request)
  BY <1>1 DEF Inv, TypeOK
<1>4. QED
  BY <1>1, <1>2, <1>3, EnterTransmitInv

LEMMA FinishInv == Inv /\ Finish => Inv'
BY EnterPollInv DEF Finish, Transmitted, Inv

LEMMA NackInv == Inv /\ Nack => Inv'
BY ResendInv DEF Nack, Transmitted, Inv, TypeOK

LEMMA RetryInv == Inv /\ Retry => Inv'
<1> SUFFICES ASSUME Inv, Retry PROVE Inv'
  OBVIOUS
<1>1. retry_cnt' \in 0..MAX_NUM_OF_TRANSFER_RETRIES
  BY LimitsAssumption DEF Retry, Inv, TypeOK
<1>2. QED
  BY <1>1, ResendInv DEF Retry, TimedOut

LEMMA GiveUpInv == Inv /\ GiveUp => Inv'
BY EnterPollInv DEF GiveUp, TimedOut, Transmitted, Inv

LEMMA SegmentFitsInv == Inv /\ SegmentFits => Inv'
<1> SUFFICES ASSUME Inv, SegmentFits PROVE Inv'
  OBVIOUS
<1>1. /\ request \in Request \cup {NoRequest}
      /\ segment \in 1..5
      /\ tx_len \in 0..TX_DATA_BUFF_SIZE
  BY DEF SegmentFits, Inv, TypeOK, SegmentInv
<1>2. SegmentLen(segment, request) \in Nat
  BY <1>1, SegmentLenType
<1>3. tx_len' \in 0..TX_DATA_BUFF_SIZE
  BY <1>1, <1>2, SizesAssumption DEF SegmentFits
<1>4. pc = "write" /\ pc' = "kick" /\ busy' = busy /\ UNCHANGED <<handle, queue, segment, waited>>
  BY DEF SegmentFits
<1>5. TypeOK'
  BY <1>3, <1>4 DEF Inv, TypeOK, handle
<1>6. QED
  BY <1>4, <1>5 DEF Inv, PendingIsReal, TransmitCanEnd, NoBytesStranded,
     PollInv, TransmitInv, WaitInv, SegmentInv, handle

(* A refused segment has a byte at least, so the buffer is not empty: the  *)
(* transmitter is at work.                                                 *)
LEMMA SegmentRefusedInv == Inv /\ SegmentRefused => Inv'
BY DEF SegmentRefused, handle, uart, Inv, TypeOK, PendingIsReal, TransmitCanEnd,
   NoBytesStranded, PollInv, TransmitInv, WaitInv, SegmentInv

LEMMA KickInv == Inv /\ Kick => Inv'
<1> SUFFICES ASSUME Inv, Kick PROVE Inv'
  OBVIOUS
<1>1. /\ request \in Request \cup {NoRequest}
      /\ segment \in 1..5
      /\ tx_len \in 0..TX_DATA_BUFF_SIZE
      /\ state = "transmit_packet"
  BY DEF Kick, Inv, TypeOK, SegmentInv, PollInv
<1>2. /\ segment' \in 1..Whole
      /\ segment' = 3 => PayloadLen[request.packet] > 0
  BY <1>1, NextSegmentType DEF Kick
<1>3. tx_len' \in 0..TX_DATA_BUFF_SIZE
  <2>1. CASE busy \/ tx_len = 0
    BY <1>1, <2>1 DEF Kick
  <2>2. CASE ~(busy \/ tx_len = 0)
    BY <1>1, <2>2, SizesAssumption DEF Kick
  <2>3. QED
    BY <2>1, <2>2
<1>4. busy' \in BOOLEAN /\ busy'
  BY DEF Kick
<1>5. /\ pc' \in {"run", "write"} /\ (pc' = "write" => segment' # Whole)
      /\ UNCHANGED <<handle, queue, waited>>
  BY DEF Kick
<1>6. TypeOK'
  BY <1>2, <1>3, <1>4, <1>5 DEF Inv, TypeOK, handle
<1>7. SegmentInv'
  BY <1>2, <1>5 DEF SegmentInv, Whole, handle
<1>8. QED
  BY <1>1, <1>4, <1>5, <1>6, <1>7 DEF Inv, PendingIsReal, TransmitCanEnd,
     NoBytesStranded, PollInv, TransmitInv, WaitInv, handle

LEMMA TxCpltInv == Inv /\ TxCplt => Inv'
<1> SUFFICES ASSUME Inv, TxCplt PROVE Inv'
  OBVIOUS
<1>1. tx_len \in 0..TX_DATA_BUFF_SIZE
  BY DEF Inv, TypeOK
<1>2. tx_len' \in 0..TX_DATA_BUFF_SIZE /\ (tx_len' > 0 => tx_len > 0)
  <2>1. CASE tx_len < MAX_DATA_CHUNK_SIZE
    BY <1>1, <2>1, SizesAssumption DEF TxCplt
  <2>2. CASE ~(tx_len < MAX_DATA_CHUNK_SIZE)
    BY <1>1, <2>2, SizesAssumption DEF TxCplt
  <2>3. QED
    BY <2>1, <2>2
<1>3. busy' \in BOOLEAN
  BY DEF TxCplt
<1>4. busy' <=> tx_len > 0
  BY DEF TxCplt
<1>5. UNCHANGED <<handle, queue, pc, segment, waited>>
  BY DEF TxCplt
<1>6. TypeOK'
  BY <1>2, <1>3, <1>5 DEF Inv, TypeOK, handle
<1>7. QED
  BY <1>2, <1>4, <1>5, <1>6 DEF Inv, PendingIsReal, TransmitCanEnd,
     NoBytesStranded, PollInv, TransmitInv, WaitInv, SegmentInv, handle

LEMMA SetExtEventInv == Inv /\ SetExtEvent => Inv'
<1> SUFFICES ASSUME Inv, SetExtEvent PROVE Inv'
  OBVIOUS
<1>1. external' \in {"ack_received", "nack_received"}
  BY ExtEventsAssumption DEF SetExtEvent
<1>2. TypeOK'
  BY <1>1 DEF SetExtEvent, uart, Inv, TypeOK
<1>3. QED
  BY <1>1, <1>2 DEF SetExtEvent, uart, Inv, PendingIsReal, TransmitCanEnd,
     NoBytesStranded, PollInv, TransmitInv, WaitInv, SegmentInv

LEMMA SysTickInv == Inv /\ SysTick => Inv'
<1> SUFFICES ASSUME Inv, SysTick PROVE Inv'
  OBVIOUS
<1>1. ack_timeout \in TimeEvent /\ waited \in Nat /\ ack_timeout' = Updated(ack_timeout)
  BY DEF SysTick, Inv, TypeOK
<1>2. ack_timeout' \in TimeEvent
  BY <1>1, TimerType
<1>3. ack_timeout'.active <=> ack_timeout.active
  BY <1>1 DEF Updated, TimeEvent
<1>4. ~ack_timeout.active => ack_timeout' = ack_timeout
  BY <1>1 DEF Updated
<1>5. UNCHANGED <<state, internal, external, retry_cnt, request,
                  queue, pc, segment, tx_len, busy>>
  BY DEF SysTick, uart
<1>6. waited' \in Nat
  BY <1>1 DEF SysTick
<1>7. TypeOK'
  BY <1>2, <1>5, <1>6 DEF Inv, TypeOK
<1>8. PendingIsReal' /\ TransmitCanEnd' /\ NoBytesStranded'
  BY <1>3, <1>5 DEF Inv, PendingIsReal, TransmitCanEnd, NoBytesStranded
<1>9. PollInv' /\ TransmitInv' /\ SegmentInv'
  BY <1>3, <1>4, <1>5 DEF Inv, PollInv, TransmitInv, SegmentInv
<1>10. WaitInv'
  <2> SUFFICES ASSUME state = "transmit_packet", request.ack_expected
               PROVE  WaitInv'
    BY <1>5 DEF WaitInv
  <2>1. ack_timeout.active
    BY DEF Inv, TransmitInv
  <2>2. CASE ack_timeout.raised
    <3>1. waited = MAX_ACK_TIMEOUT_MS + 1
      BY <2>2 DEF Inv, WaitInv
    <3>2. waited' = waited
      BY <3>1, LimitsAssumption DEF SysTick
    <3>3. ack_timeout'.raised
      BY <1>1, <2>1, <2>2 DEF Updated, TimeEvent
    <3>4. QED
      BY <3>1, <3>2, <3>3 DEF WaitInv
  <2>3. CASE ~ack_timeout.raised
    <3>1. ack_timeout.millis_cnt + waited = MAX_ACK_TIMEOUT_MS
      BY <2>3 DEF Inv, WaitInv
    <3>2. ack_timeout.millis_cnt \in Nat
      BY <1>1 DEF TimeEvent
    <3>3. waited' = waited + 1
      BY <1>1, <3>1, <3>2, LimitsAssumption DEF SysTick
    <3>4. CASE ack_timeout.millis_cnt > 0
      <4>1. ack_timeout' = [ack_timeout EXCEPT !.millis_cnt = @ - 1]
        BY <1>1, <2>1, <3>4 DEF Updated
      <4>2. ~ack_timeout'.raised /\ ack_timeout'.millis_cnt = ack_timeout.millis_cnt - 1
        BY <1>1, <2>3, <4>1 DEF TimeEvent
      <4>3. QED
        BY <1>1, <3>1, <3>2, <3>3, <4>2, LimitsAssumption DEF WaitInv
    <3>5. CASE ~(ack_timeout.millis_cnt > 0)
      <4>1. ack_timeout' = [ack_timeout EXCEPT !.raised = TRUE]
        BY <1>1, <2>1, <3>5 DEF Updated
      <4>2. ack_timeout'.raised
        BY <1>1, <4>1 DEF TimeEvent
      <4>3. waited' = MAX_ACK_TIMEOUT_MS + 1
        BY <1>1, <3>1, <3>2, <3>3, <3>5, LimitsAssumption
      <4>4. QED
        BY <4>2, <4>3 DEF WaitInv
    <3>6. QED
      BY <3>4, <3>5
  <2>4. QED
    BY <2>2, <2>3
<1>11. QED
  BY <1>7, <1>8, <1>9, <1>10 DEF Inv

LEMMA StutterInv == Inv /\ UNCHANGED vars => Inv'
BY DEF vars, handle, uart, Inv, TypeOK, PendingIsReal, TransmitCanEnd,
   NoBytesStranded, PollInv, TransmitInv, WaitInv, SegmentInv

LEMMA StepInv == Inv /\ [Next]_vars => Inv'
<1> SUFFICES ASSUME Inv, [Next]_vars PROVE Inv'
  OBVIOUS
<1>1. CASE WriteDbgMsg \/ SendPacketNoPayload
  BY <1>1, WriteRequestInv DEF WriteDbgMsg, SendPacketNoPayload
<1>2. CASE Run
  BY <1>2, PollDuringInv, PollExitInv, SegmentFitsInv, SegmentRefusedInv, KickInv,
     FinishInv, NackInv, RetryInv, GiveUpInv DEF Run
<1>3. CASE SetExtEvent
  BY <1>3, SetExtEventInv
<1>4. CASE SysTick
  BY <1>4, SysTickInv
<1>5. CASE TxCplt
  BY <1>5, TxCpltInv
<1>6. CASE UNCHANGED vars
  BY <1>6, StutterInv
<1>7. QED
  BY <1>1, <1>2, <1>3, <1>4, <1>5, <1>6 DEF Next

LEMMA Invariance == Spec => []Inv
BY InitInv, StepInv, PTL DEF Spec

-----------------------------------------------------------------------------
(* The properties *)

(* host_comm_tx_fsm.c, host_comm_tx_queue.c, uart_driver.c: the retry      *)
(* counter never passes its limit and the transmit buffer never overflows. *)
THEOREM TypeCorrect == Spec => []TypeOK
<1>1. Inv => TypeOK
  BY DEF Inv
<1>2. QED
  BY <1>1, Invariance, PTL

(* host_comm_tx_fsm.c: when exit_action_poll_pending_transfers reads a     *)
(* request, one run after the queue was tested, there is one to read.      *)
THEOREM PendingStaysReal == Spec => []PendingIsReal
<1>1. Inv => PendingIsReal
  BY DEF Inv
<1>2. QED
  BY <1>1, Invariance, PTL

(* host_comm_tx_fsm.c: transmit_packet is never entered without a way out, *)
(* whatever order the answers and the timeout come in.                     *)
THEOREM TransmitAlwaysEnds == Spec => []TransmitCanEnd
<1>1. Inv => TransmitCanEnd
  BY DEF Inv
<1>2. QED
  BY <1>1, Invariance, PTL

(* uart_driver.c: whatever point of uart_transmit_it the transmit          *)
(* interrupt falls on, no byte waits for a transmitter that has stopped.   *)
THEOREM BytesNeverStranded == Spec => []NoBytesStranded
<1>1. Inv => NoBytesStranded
  BY DEF Inv
<1>2. QED
  BY <1>1, Invariance, PTL

LEMMA StepWindow ==
  ASSUME Inv, [Next]_vars, Transmitted, request.ack_expected, external = "invalid",
         pc' = "write" \/ state' = "poll_pending_transfer"
  PROVE  waited > MAX_ACK_TIMEOUT_MS
<1>1. pc = "run" /\ state = "transmit_packet" /\ internal # "no_ack_expected"
  BY DEF Transmitted, Inv, TransmitInv
<1>2. ~Answered
  BY <1>1 DEF Answered
<1>3. pc' # pc \/ state' # state
  BY <1>1
<1>4. ASSUME TimedOut PROVE waited > MAX_ACK_TIMEOUT_MS
  BY <1>1, <1>4, LimitsAssumption DEF TimedOut, Inv, WaitInv
<1>5. ~WriteDbgMsg /\ ~SendPacketNoPayload
  BY <1>3 DEF WriteDbgMsg, SendPacketNoPayload, WriteRequest, handle
<1>6. ~SetExtEvent /\ ~SysTick /\ ~TxCplt /\ ~(UNCHANGED vars)
  BY <1>3 DEF SetExtEvent, SysTick, TxCplt, vars, handle
<1>7. ~PollDuring /\ ~PollExit /\ ~SegmentFits /\ ~SegmentRefused /\ ~Kick
  BY <1>1 DEF PollDuring, PollExit, SegmentFits, SegmentRefused, Kick
<1>8. ~Finish /\ ~Nack
  BY <1>2 DEF Finish, Nack
<1>9. QED
  BY <1>4, <1>5, <1>6, <1>7, <1>8 DEF Next, Run, Retry, GiveUp

(* host_comm_tx_fsm.c: for every timeout, a packet is sent again or given  *)
(* up without an answer only after the timeout has passed since its latest *)
(* transmission.                                                           *)
THEOREM WindowIsFull == Spec => FullAckWindow
<1>1. Inv /\ [Next]_vars =>
        [Transmitted /\ request.ack_expected /\ external = "invalid"
           /\ (pc' = "write" \/ state' = "poll_pending_transfer")
         => waited > MAX_ACK_TIMEOUT_MS]_vars
  BY StepWindow
<1>2. QED
  BY <1>1, Invariance, PTL DEF Spec, FullAckWindow

-----------------------------------------------------------------------------
(* The refinement of TxService *)

LEMMA ServiceStutter ==
  ASSUME UNCHANGED <<state, external, retry_cnt, request, queue>>
  PROVE  UNCHANGED Service!vars
BY DEF Service!vars, Serving, AnswerSeen

LEMMA InitService == Init => Service!Init
BY DEF Init, Service!Init, Serving, AnswerSeen

LEMMA StepAccept ==
  ASSUME NEW req \in Request, WriteRequest(req)
  PROVE  Service!Accept(req)
BY DEF WriteRequest, handle, Service!Accept, Serving, AnswerSeen

LEMMA StepTake == Inv /\ PollExit => Service!Take
<1> SUFFICES ASSUME Inv, PollExit PROVE Service!Take
  OBVIOUS
<1>1. state = "poll_pending_transfer" /\ queue # <<>>
  BY DEF PollExit, Inv, PendingIsReal
<1>2. request' = Head(queue) /\ queue' = Tail(queue)
  BY <1>1 DEF PollExit
<1>3. state' = "transmit_packet" /\ external' = "invalid"
  BY DEF PollExit, EnterTransmit, TransmitEvents
<1>4. retry_cnt' = 0
  BY <1>1 DEF PollExit, Inv, PollInv
<1>5. Serving = NoRequest /\ Serving' = request' /\ AnswerSeen' = "none"
  BY <1>1, <1>3 DEF Serving, AnswerSeen
<1>6. QED
  BY <1>1, <1>2, <1>4, <1>5 DEF Service!Take

LEMMA TransmittedFacts ==
  ASSUME Inv, Transmitted
  PROVE  /\ Serving = request /\ request \in Request /\ Serving # NoRequest
         /\ request.ack_expected <=> internal # "no_ack_expected"
         /\ AnswerSeen = CASE external = "ack_received"  -> "ack"
                           [] external = "nack_received" -> "nack"
                           [] OTHER                      -> "none"
<1>1. state = "transmit_packet" /\ request \in Request
  BY DEF Transmitted, Inv, TransmitInv
<1>2. request # NoRequest
  BY <1>1, NoRequestFacts
<1>3. QED
  BY <1>1, <1>2 DEF Serving, AnswerSeen, Inv, TransmitInv

LEMMA ResendFacts ==
  ASSUME Inv, Transmitted, Resend
  PROVE  /\ queue' = queue /\ Serving' = Serving /\ AnswerSeen' = "none"
<1>1. state' = "transmit_packet" /\ external' = "invalid"
  BY DEF Resend, EnterTransmit, TransmitEvents
<1>2. request' = request /\ queue' = queue
  BY DEF Resend
<1>3. QED
  BY <1>1, <1>2 DEF Serving, AnswerSeen, Transmitted

LEMMA EnterPollFacts ==
  ASSUME EnterPoll
  PROVE  /\ queue' = queue /\ Serving' = NoRequest /\ AnswerSeen' = "none"
         /\ retry_cnt' = 0
BY DEF EnterPoll, Serving, AnswerSeen

LEMMA StepFinish == Inv /\ Finish => Service!Done
<1> SUFFICES ASSUME Inv, Finish PROVE Service!Done
  OBVIOUS
<1>1. Transmitted /\ Answered /\ EnterPoll
  BY DEF Finish
<1>2. AnswerSeen = "ack" \/ ~Serving.ack_expected
  BY <1>1, TransmittedFacts DEF Answered
<1>3. QED
  BY <1>1, <1>2, TransmittedFacts, EnterPollFacts DEF Service!Done

LEMMA StepNack == Inv /\ Nack => Service!Again
<1> SUFFICES ASSUME Inv, Nack PROVE Service!Again
  OBVIOUS
<1>1. /\ Transmitted /\ ~Answered /\ external = "nack_received"
      /\ Resend /\ retry_cnt' = retry_cnt
  BY DEF Nack
<1>2. AnswerSeen = "nack" /\ Serving.ack_expected
  BY <1>1, TransmittedFacts DEF Answered
<1>3. QED
  BY <1>1, <1>2, TransmittedFacts, ResendFacts DEF Service!Again

LEMMA TimedOutFacts ==
  ASSUME Inv, TimedOut
  PROVE  AnswerSeen = "none" /\ Serving.ack_expected
<1>1. Transmitted /\ ~Answered /\ external # "nack_received"
  BY DEF TimedOut
<1>2. external # "ack_received" /\ internal # "no_ack_expected"
  BY <1>1 DEF Answered
<1>3. QED
  BY <1>1, <1>2, TransmittedFacts

LEMMA StepRetry == Inv /\ Retry => Service!Again
<1> SUFFICES ASSUME Inv, Retry PROVE Service!Again
  OBVIOUS
<1>1. /\ TimedOut /\ Transmitted /\ Resend
      /\ retry_cnt < MAX_NUM_OF_TRANSFER_RETRIES /\ retry_cnt' = retry_cnt + 1
  BY DEF Retry, TimedOut
<1>2. QED
  BY <1>1, TimedOutFacts, TransmittedFacts, ResendFacts DEF Service!Again

LEMMA StepGiveUp == Inv /\ GiveUp => Service!Done
<1> SUFFICES ASSUME Inv, GiveUp PROVE Service!Done
  OBVIOUS
<1>1. /\ TimedOut /\ Transmitted /\ EnterPoll
      /\ retry_cnt >= MAX_NUM_OF_TRANSFER_RETRIES
  BY DEF GiveUp, TimedOut
<1>2. retry_cnt = MAX_NUM_OF_TRANSFER_RETRIES
  BY <1>1, LimitsAssumption DEF Inv, TypeOK
<1>3. QED
  BY <1>1, <1>2, TimedOutFacts, TransmittedFacts, EnterPollFacts DEF Service!Done

LEMMA StepAnswer ==
  Inv /\ SetExtEvent =>
    (\E a \in {"ack", "nack"} : Service!Answer(a)) \/ UNCHANGED Service!vars
<1> SUFFICES ASSUME Inv, SetExtEvent
             PROVE  (\E a \in {"ack", "nack"} : Service!Answer(a)) \/ UNCHANGED Service!vars
  OBVIOUS
<1>1. /\ external' \in {"ack_received", "nack_received"}
      /\ UNCHANGED <<state, retry_cnt, request, queue>>
      /\ pc = "run"
  BY ExtEventsAssumption DEF SetExtEvent
<1>2. CASE state = "transmit_packet"
  <2>1. Serving # NoRequest /\ Serving' = Serving
    BY <1>1, <1>2, TransmittedFacts DEF Transmitted, Serving
  <2>2. AnswerSeen' \in {"ack", "nack"}
    BY <1>1, <1>2 DEF AnswerSeen
  <2>3. Service!Answer(AnswerSeen')
    BY <1>1, <2>1 DEF Service!Answer
  <2>4. QED
    BY <2>2, <2>3
<1>3. CASE state # "transmit_packet"
  BY <1>1, <1>3 DEF Service!vars, Serving, AnswerSeen
<1>4. QED
  BY <1>2, <1>3

LEMMA StepService == Inv /\ [Next]_vars => [Service!Next]_(Service!vars)
<1> SUFFICES ASSUME Inv, [Next]_vars PROVE [Service!Next]_(Service!vars)
  OBVIOUS
<1>1. CASE WriteDbgMsg \/ SendPacketNoPayload
  BY <1>1, StepAccept DEF WriteDbgMsg, SendPacketNoPayload, Service!Next
<1>2. CASE PollDuring \/ SegmentFits \/ SegmentRefused \/ Kick
  BY <1>2, ServiceStutter DEF PollDuring, SegmentFits, SegmentRefused, Kick, handle
<1>3. CASE PollExit
  BY <1>3, StepTake DEF Service!Next
<1>4. CASE Finish \/ GiveUp
  BY <1>4, StepFinish, StepGiveUp DEF Service!Next
<1>5. CASE Nack \/ Retry
  BY <1>5, StepNack, StepRetry DEF Service!Next
<1>6. CASE SetExtEvent
  BY <1>6, StepAnswer DEF Service!Next
<1>7. CASE SysTick \/ TxCplt \/ UNCHANGED vars
  BY <1>7, ServiceStutter DEF SysTick, TxCplt, vars, handle
<1>8. QED
  BY <1>1, <1>2, <1>3, <1>4, <1>5, <1>6, <1>7 DEF Next, Run

(* host_comm_tx_fsm.c implements TxService, for every set of packets and   *)
(* every limit: requests are served in order, one at a time, and sent      *)
(* again or given up only for the reasons TxService permits.               *)
THEOREM ImplementsService == Spec => ServiceSpec
BY InitService, StepService, Invariance, PTL DEF Spec, ServiceSpec, Service!Spec

=============================================================================
