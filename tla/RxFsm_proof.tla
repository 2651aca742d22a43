---------------------------- MODULE RxFsm_proof -----------------------------
(***************************************************************************)
(* Proofs about RxFsm, for every packet format, buffer size, timeout and   *)
(* stream of bytes the assumptions of RxFsm allow, and whatever is lost.   *)
(***************************************************************************)
EXTENDS RxFsm, SequenceTheorems, TLAPS

(* A read never has more bytes than its state waits for.                   *)
ReadInv ==
  /\ pc = "react" => block = <<>>
  /\ pc = "read" => state # "packet_ready" /\ Len(block) <= Needed

(* Once a header is judged, the bytes in it are those that were accepted.  *)
HeaderJudged ==
  \/ state = "header_proc" /\ internal = "header_ok"
  \/ state \in {"payload_proc", "crc_and_postamble_proc", "packet_ready"}

HeaderInv ==
  HeaderJudged => ValidHeader(header)

(* An event that can release a packet was set while it was ready.          *)
ReleaseInv ==
  state = "packet_ready" /\ external = "packet_proccessed" => released

(* What the host has still to send are bytes; the history has its types.   *)
ComingInv == coming \in Seq(Byte)

Inv ==
  /\ TypeOK /\ OnlyOwnTimerRuns
  /\ ReadInv /\ HeaderInv /\ ReleaseInv /\ ComingInv

TimeType ==
  [header_timeout : TimeEvent, payload_timeout : TimeEvent,
   crc_and_postamble_timeout : TimeEvent]

USE BytesAssumption, SizesAssumption

-----------------------------------------------------------------------------
(* Lemmas about the operators *)

LEMMA StartedType ==
  ASSUME NEW ms \in Nat
  PROVE  Started(ms) \in TimeEvent /\ Started(ms).active /\ ~Started(ms).raised
BY DEF Started, TimeEvent

LEMMA StoppedType == Stopped \in TimeEvent /\ ~Stopped.active /\ ~Stopped.raised
BY DEF Stopped, TimeEvent

(* An update neither starts nor stops an event, and raises no stopped one. *)
LEMMA UpdatedType ==
  ASSUME NEW te \in TimeEvent, te.raised => te.active
  PROVE  /\ Updated(te) \in TimeEvent /\ Updated(te).active = te.active
         /\ Updated(te).raised => Updated(te).active
<1>1. CASE ~te.active
  <2>1. Updated(te) = te
    BY <1>1 DEF Updated
  <2>2. QED
    BY <2>1
<1>2. CASE te.active /\ te.millis_cnt > 0
  <2>1. Updated(te) = [te EXCEPT !.millis_cnt = te.millis_cnt - 1]
    BY <1>2 DEF Updated
  <2>2. te.millis_cnt - 1 \in Nat
    BY <1>2 DEF TimeEvent
  <2>3. /\ Updated(te) \in TimeEvent
        /\ Updated(te).active = te.active /\ Updated(te).raised = te.raised
    BY <2>1, <2>2 DEF TimeEvent
  <2>4. QED
    BY <1>2, <2>3
<1>3. CASE te.active /\ ~(te.millis_cnt > 0)
  <2>1. Updated(te) = [te EXCEPT !.raised = TRUE]
    BY <1>3 DEF Updated
  <2>2. QED
    BY <1>3, <2>1 DEF TimeEvent
<1>4. QED
  BY <1>1, <1>2, <1>3 DEF TimeEvent

(* How many bytes a valid header asks for.                                 *)
LEMMA PayloadLenFits ==
  ASSUME NEW h \in Seq(Byte), Len(h) = HEADER_SIZE_BYTES, ValidHeader(h)
  PROVE  PayloadLen(h) \in 0..MAX_PAYLOAD_SIZE
<1>1. h \in [1..HEADER_SIZE_BYTES -> Byte]
  OBVIOUS
<1>2. QED
  BY <1>1, ValidHeaderAssumption

LEMMA NeededType == Inv /\ state # "packet_ready" => Needed \in Nat
<1> SUFFICES ASSUME Inv, state # "packet_ready" PROVE Needed \in Nat
  OBVIOUS
<1>1. CASE state = "preamble_proc"
  BY <1>1 DEF Needed
<1>2. CASE state = "header_proc"
  BY <1>2 DEF Needed
<1>3. CASE state = "payload_proc"
  <2>1. ValidHeader(header) /\ header \in Seq(Byte) /\ Len(header) = HEADER_SIZE_BYTES
    BY <1>3 DEF Inv, TypeOK, HeaderInv, HeaderJudged
  <2>2. PayloadLen(header) \in Nat
    BY <2>1, PayloadLenFits
  <2>3. QED
    BY <1>3, <2>2 DEF Needed
<1>4. CASE state = "crc_and_postamble_proc"
  <2>1. Len(POSTAMBLE) \in Nat
    OBVIOUS
  <2>2. QED
    BY <1>4, <2>1 DEF Needed
<1>5. QED
  BY <1>1, <1>2, <1>3, <1>4 DEF Inv, TypeOK

-----------------------------------------------------------------------------

LEMMA InitInv == Init => Inv
<1> SUFFICES ASSUME Init PROVE Inv
  OBVIOUS
<1>1. time \in TimeType /\ \A t \in DOMAIN time : ~time[t].active /\ ~time[t].raised
  BY StoppedType DEF Init, TimeType
<1>2. /\ header \in Seq(Byte) /\ Len(header) = HEADER_SIZE_BYTES
      /\ payload \in Seq(Byte) /\ Len(payload) = MAX_PAYLOAD_SIZE
  <2>1. ASSUME NEW n \in Nat PROVE Zeros(n) \in Seq(Byte) /\ Len(Zeros(n)) = n
    <3>1. Zeros(n) \in [1..n -> Byte]
      BY DEF Zeros
    <3>2. QED
      BY <3>1 DEF Zeros
  <2>2. QED
    BY <2>1 DEF Init
<1>3. TypeOK
  BY <1>1, <1>2 DEF Init, TypeOK, TimeType
<1>4. OnlyOwnTimerRuns
  BY <1>1 DEF Init, OnlyOwnTimerRuns, TimeType
<1>5. ReadInv /\ HeaderInv /\ ReleaseInv /\ ComingInv
  BY DEF Init, ReadInv, HeaderInv, HeaderJudged, ReleaseInv, ComingInv
<1>6. QED
  BY <1>3, <1>4, <1>5 DEF Inv

-----------------------------------------------------------------------------
(* The line and the timers *)

LEMMA ArriveInv == Inv /\ (Arrive \/ Lose) => Inv'
<1> SUFFICES ASSUME Inv, Arrive \/ Lose PROVE Inv'
  OBVIOUS
<1>1. /\ UNCHANGED <<handle, pc, block>> /\ UNCHANGED released
      /\ coming # <<>> /\ coming' = Tail(coming)
  BY DEF Arrive, Lose
<1>2. coming' \in Seq(Byte) /\ Head(coming) \in Byte
  BY <1>1 DEF Inv, ComingInv
<1>3. rx' \in Seq(Byte) /\ Len(rx') <= RX_DATA_BUFF_SIZE
  <2>1. rx \in Seq(Byte) /\ Len(rx) <= RX_DATA_BUFF_SIZE
    BY DEF Inv, TypeOK
  <2>2. \/ rx' = rx
        \/ rx' = <<>>
        \/ rx' = Append(rx, Head(coming)) /\ Len(rx) < RX_DATA_BUFF_SIZE
    BY DEF Arrive, Lose
  <2>3. CASE rx' = rx
    BY <2>1, <2>3
  <2>4. CASE rx' = <<>>
    BY <2>4
  <2>5. CASE rx' = Append(rx, Head(coming)) /\ Len(rx) < RX_DATA_BUFF_SIZE
    BY <1>2, <2>1, <2>5
  <2>6. QED
    BY <2>2, <2>3, <2>4, <2>5
<1>4. TypeOK'
  BY <1>1, <1>3 DEF Inv, TypeOK, handle
<1>5. QED
  BY <1>1, <1>2, <1>4
     DEF Inv, handle, OnlyOwnTimerRuns, ReadInv, Needed, HeaderInv, HeaderJudged,
         ReleaseInv, ComingInv

LEMMA SysTickInv == Inv /\ SysTick => Inv'
<1> SUFFICES ASSUME Inv, SysTick PROVE Inv'
  OBVIOUS
<1>1. /\ time' = [t \in DOMAIN time |-> Updated(time[t])]
      /\ UNCHANGED <<state, internal, external, header, payload,
                     rx, pc, block, coming, released>>
  BY DEF SysTick, history
<1>2. /\ time \in TimeType
      /\ DOMAIN time = {"header_timeout", "payload_timeout", "crc_and_postamble_timeout"}
  BY DEF Inv, TypeOK, TimeType
<1>3. \A t \in DOMAIN time : time[t] \in TimeEvent /\ (time[t].raised => time[t].active)
  BY <1>2 DEF Inv, OnlyOwnTimerRuns, TimeType
<1>4. \A t \in DOMAIN time :
        /\ time'[t] \in TimeEvent /\ time'[t].active = time[t].active
        /\ time'[t].raised => time'[t].active
  BY <1>1, <1>3, UpdatedType
<1>5. DOMAIN time' = DOMAIN time
  BY <1>1
<1>6. time' \in TimeType
  BY <1>1, <1>2, <1>4 DEF TimeType
<1>7. TypeOK'
  BY <1>1, <1>6 DEF Inv, TypeOK, TimeType
<1>8. OnlyOwnTimerRuns'
  <2>1. /\ time'.header_timeout.active = time.header_timeout.active
        /\ time'.payload_timeout.active = time.payload_timeout.active
        /\ time'.crc_and_postamble_timeout.active = time.crc_and_postamble_timeout.active
    BY <1>2, <1>4
  <2>2. QED
    BY <1>1, <1>4, <1>5, <2>1 DEF Inv, OnlyOwnTimerRuns
<1>9. QED
  BY <1>1, <1>7, <1>8
     DEF Inv, ReadInv, Needed, HeaderInv, HeaderJudged, ReleaseInv, ComingInv

-----------------------------------------------------------------------------
(* Reading *)

LEMMA BeginReadInv == Inv /\ BeginRead => Inv'
<1> SUFFICES ASSUME Inv, BeginRead PROVE Inv'
  OBVIOUS
<1>1. /\ pc = "react" /\ state # "packet_ready" /\ pc' = "read" /\ block = <<>>
      /\ UNCHANGED <<handle, rx, block, coming, released>>
  BY DEF BeginRead, Inv, ReadInv, history
<1>2. Needed \in Nat /\ Needed' = Needed
  BY <1>1, NeededType DEF Needed, handle
<1>3. TypeOK'
  BY <1>1 DEF Inv, TypeOK, handle
<1>4. ReadInv'
  <2>1. Len(block') = 0
    BY <1>1
  <2>2. QED
    BY <1>1, <1>2, <2>1 DEF ReadInv, handle
<1>5. QED
  BY <1>1, <1>3, <1>4
     DEF Inv, handle, OnlyOwnTimerRuns, HeaderInv, HeaderJudged, ReleaseInv, ComingInv

(* The middle of a sequence of bytes.                                      *)
LEMMA SubSeqOfBytes ==
  ASSUME NEW s \in Seq(Byte), NEW m \in 1..Len(s), NEW n \in m..Len(s)
  PROVE  SubSeq(s, m, n) \in Seq(Byte) /\ Len(SubSeq(s, m, n)) = n - m + 1
<1>1. \A i \in m..n : s[i] \in Byte
  OBVIOUS
<1>2. QED
  BY <1>1

(* The bytes a read that comes out short produces fit what is left.        *)
LEMMA UnreadFits ==
  ASSUME Inv, pc = "read", ~ReadOver, NEW bytes \in Unread
  PROVE  bytes \in Seq(Byte) /\ Len(block) + Len(bytes) <= Needed
<1>1. /\ block \in Seq(Byte) /\ Needed \in Nat /\ Len(block) < Needed
      /\ state # "packet_ready"
  BY NeededType DEF Inv, TypeOK, ReadInv, ReadOver
<1>2. CASE state = "preamble_proc"
  <2>1. CASE block = <<>>
    <3>1. bytes \in {<<b>> : b \in Byte}
      BY <1>2, <2>1 DEF Unread
    <3>2. PICK b \in Byte : bytes = <<b>>
      BY <3>1
    <3>3. QED
      BY <1>1, <3>2
  <2>2. CASE block # <<>>
    <3>1. bytes = <<block[Len(block)]>>
      BY <1>2, <2>2 DEF Unread, Last
    <3>2. block[Len(block)] \in Byte
      BY <1>1, <2>2
    <3>3. QED
      BY <1>1, <3>1, <3>2
  <2>3. QED
    BY <2>1, <2>2
<1>3. CASE state = "header_proc"
  <2>1. Needed = HEADER_SIZE_BYTES /\ bytes = SubSeq(header, Len(block) + 1, Needed)
    BY <1>3 DEF Unread, Needed
  <2>2. header \in Seq(Byte) /\ Len(header) = HEADER_SIZE_BYTES
    BY DEF Inv, TypeOK
  <2>3. /\ Len(block) + 1 \in 1..Len(header)
        /\ Needed \in (Len(block) + 1)..Len(header)
    BY <1>1, <2>1, <2>2
  <2>4. bytes \in Seq(Byte) /\ Len(bytes) = Needed - (Len(block) + 1) + 1
    BY <2>1, <2>2, <2>3, SubSeqOfBytes
  <2>5. QED
    BY <1>1, <2>4
<1>4. CASE state = "payload_proc"
  <2>1. Needed = PayloadLen(header) /\ bytes = SubSeq(payload, Len(block) + 1, Needed)
    BY <1>4 DEF Unread, Needed
  <2>2. payload \in Seq(Byte) /\ Len(payload) = MAX_PAYLOAD_SIZE
    BY DEF Inv, TypeOK
  <2>3. Needed <= MAX_PAYLOAD_SIZE
    BY <1>4, <2>1, PayloadLenFits DEF Inv, TypeOK, HeaderInv, HeaderJudged
  <2>4. /\ Len(block) + 1 \in 1..Len(payload)
        /\ Needed \in (Len(block) + 1)..Len(payload)
    BY <1>1, <2>2, <2>3
  <2>5. bytes \in Seq(Byte) /\ Len(bytes) = Needed - (Len(block) + 1) + 1
    BY <2>1, <2>2, <2>4, SubSeqOfBytes
  <2>6. QED
    BY <1>1, <2>5
<1>5. CASE state = "crc_and_postamble_proc"
  <2> DEFINE end == IF Len(block) < CRC_SIZE_BYTES THEN CRC_SIZE_BYTES ELSE Needed
  <2>1. Needed = CRC_SIZE_BYTES + Len(POSTAMBLE) /\ Len(POSTAMBLE) \in Nat
    BY <1>5 DEF Needed
  <2>2. end \in Nat /\ Len(block) < end /\ end <= Needed
    BY <1>1, <2>1
  <2>3. bytes \in [1..(end - Len(block)) -> Byte]
    BY <1>5 DEF Unread
  <2> HIDE DEF end
  <2>4. end - Len(block) \in Nat
    BY <1>1, <2>2
  <2>5. bytes \in Seq(Byte) /\ Len(bytes) = end - Len(block)
    BY <2>3, <2>4
  <2>6. QED
    BY <1>1, <2>2, <2>5
<1>6. QED
  BY <1>1, <1>2, <1>3, <1>4, <1>5 DEF Inv, TypeOK

LEMMA GetInv == Inv /\ (GetByte \/ GetNothing) => Inv'
<1> SUFFICES ASSUME Inv, GetByte \/ GetNothing PROVE Inv'
  OBVIOUS
<1>1. /\ pc = "read" /\ ~ReadOver /\ state # "packet_ready"
      /\ UNCHANGED <<handle, pc, coming, released>>
  BY DEF GetByte, GetNothing, Inv, ReadInv, history
<1>2. /\ block \in Seq(Byte) /\ rx \in Seq(Byte) /\ Len(rx) <= RX_DATA_BUFF_SIZE
      /\ Needed \in Nat /\ Len(block) < Needed
  BY <1>1, NeededType DEF Inv, TypeOK, ReadOver
<1>3. /\ block' \in Seq(Byte) /\ Len(block') <= Needed
      /\ rx' \in Seq(Byte) /\ Len(rx') <= RX_DATA_BUFF_SIZE
  <2>1. CASE GetByte
    <3>1. rx # <<>> /\ block' = Append(block, Head(rx)) /\ rx' = Tail(rx)
      BY <2>1 DEF GetByte
    <3>2. QED
      BY <1>2, <3>1
  <2>2. CASE GetNothing
    <3>1. PICK bytes \in Unread : block' = block \o bytes
      BY <2>2 DEF GetNothing
    <3>2. bytes \in Seq(Byte) /\ Len(block) + Len(bytes) <= Needed
      BY <1>1, UnreadFits
    <3>3. rx' = rx
      BY <2>2 DEF GetNothing
    <3>4. QED
      BY <1>2, <3>1, <3>2, <3>3
  <2>3. QED
    BY <2>1, <2>2
<1>4. Needed' = Needed
  BY <1>1 DEF Needed, handle
<1>5. TypeOK'
  BY <1>1, <1>3 DEF Inv, TypeOK, handle
<1>6. ReadInv'
  BY <1>1, <1>3, <1>4 DEF ReadInv, handle
<1>7. QED
  BY <1>1, <1>5, <1>6
     DEF Inv, handle, OnlyOwnTimerRuns, HeaderInv, HeaderJudged, ReleaseInv, ComingInv

(* What a judgement leaves is sound, if the packet it leaves is.           *)
LEMMA JudgedInv ==
  ASSUME Inv, pc = "read",
         NEW event \in {"invalid", "preamble_ok", "header_ok", "header_error",
                        "payload_ok", "crc_and_postamble_ok", "crc_error"},
         Judged(event),
         header' \in Seq(Byte), Len(header') = HEADER_SIZE_BYTES,
         payload' \in Seq(Byte), Len(payload') = MAX_PAYLOAD_SIZE,
         HeaderInv'
  PROVE  Inv'
<1>1. /\ internal' = event /\ pc' = "react" /\ block' = <<>>
      /\ UNCHANGED <<state, external, time, rx, coming, released>>
  BY DEF Judged, history
<1>2. TypeOK'
  BY <1>1 DEF Inv, TypeOK
<1>3. QED
  BY <1>1, <1>2 DEF Inv, OnlyOwnTimerRuns, ReadInv, ReleaseInv, ComingInv

LEMMA JudgeInv ==
  Inv /\ (JudgePreamble \/ JudgeHeader \/ JudgePayload \/ JudgeCrcAndPostamble) => Inv'
<1> SUFFICES ASSUME Inv, JudgePreamble \/ JudgeHeader \/ JudgePayload \/ JudgeCrcAndPostamble
             PROVE  Inv'
  OBVIOUS
<1>1. /\ pc = "read" /\ state # "packet_ready" /\ ReadOver
      /\ header \in Seq(Byte) /\ Len(header) = HEADER_SIZE_BYTES
      /\ payload \in Seq(Byte) /\ Len(payload) = MAX_PAYLOAD_SIZE
      /\ block \in Seq(Byte) /\ Len(block) <= Needed /\ Needed \in Nat
  BY NeededType
     DEF Inv, TypeOK, ReadInv, JudgePreamble, JudgeHeader, JudgePayload, JudgeCrcAndPostamble
<1>2. CASE JudgePreamble
  <2>1. PICK event \in {"preamble_ok", "invalid"} : Judged(event)
    BY <1>2 DEF JudgePreamble
  <2>2. header' = header /\ payload' = payload /\ state' = "preamble_proc"
    BY <1>2, <2>1 DEF JudgePreamble, Judged
  <2>3. HeaderInv'
    BY <2>2 DEF HeaderInv, HeaderJudged
  <2>4. QED
    BY <1>1, <2>1, <2>2, <2>3, JudgedInv
<1>3. CASE JudgeHeader
  <2>1. header' = block /\ payload' = payload /\ state = "header_proc"
    BY <1>3 DEF JudgeHeader
  <2>2. Judged(IF ValidHeader(header') THEN "header_ok" ELSE "header_error")
    BY <1>3 DEF JudgeHeader
  <2>3. PICK event \in {"header_ok", "header_error"} :
          Judged(event) /\ (event = "header_ok" => ValidHeader(header'))
    BY <2>2
  <2>4. Len(header') = HEADER_SIZE_BYTES
    BY <1>1, <2>1 DEF ReadOver, Needed
  <2>5. state' = "header_proc" /\ internal' = event
    BY <2>1, <2>3 DEF Judged
  <2>6. HeaderInv'
    BY <2>3, <2>5 DEF HeaderInv, HeaderJudged
  <2>7. QED
    BY <1>1, <2>1, <2>3, <2>4, <2>6, JudgedInv
<1>4. CASE JudgePayload
  <2>1. /\ payload' = block \o SubSeq(payload, Needed + 1, MAX_PAYLOAD_SIZE)
        /\ header' = header /\ state = "payload_proc" /\ Judged("payload_ok")
    BY <1>4 DEF JudgePayload
  <2>2. Needed = PayloadLen(header) /\ Len(block) = Needed
    BY <1>1, <2>1 DEF Needed, ReadOver
  <2>3. ValidHeader(header)
    BY <2>1 DEF Inv, HeaderInv, HeaderJudged
  <2>4. Needed \in 0..MAX_PAYLOAD_SIZE
    BY <1>1, <2>2, <2>3, PayloadLenFits
  <2>5. payload' \in Seq(Byte) /\ Len(payload') = MAX_PAYLOAD_SIZE
    <3> DEFINE rest == SubSeq(payload, Needed + 1, MAX_PAYLOAD_SIZE)
    <3>1. rest \in Seq(Byte) /\ Len(rest) = MAX_PAYLOAD_SIZE - Needed
      BY <1>1, <2>4
    <3> HIDE DEF rest
    <3>2. payload' = block \o rest
      BY <2>1 DEF rest
    <3>3. QED
      BY <1>1, <2>2, <2>4, <3>1, <3>2
  <2>6. HeaderInv'
    BY <2>1, <2>3 DEF HeaderInv
  <2>7. QED
    BY <1>1, <2>1, <2>5, <2>6, JudgedInv
<1>5. CASE JudgeCrcAndPostamble
  <2>1. PICK event \in {"crc_error", "crc_and_postamble_ok"} : Judged(event)
    BY <1>5 DEF JudgeCrcAndPostamble
  <2>2. /\ header' = header /\ payload' = payload
        /\ state = "crc_and_postamble_proc"
    BY <1>5 DEF JudgeCrcAndPostamble
  <2>3. HeaderInv'
    BY <2>2 DEF Inv, HeaderInv, HeaderJudged
  <2>4. QED
    BY <1>1, <2>1, <2>2, <2>3, JudgedInv
<1>6. QED
  BY <1>2, <1>3, <1>4, <1>5

-----------------------------------------------------------------------------
(* The reactions *)

(* A reaction keeps the packet, starts and stops timers and may clear the  *)
(* buffer.                                                                 *)
LEMMA ReactedInv ==
  ASSUME Inv, pc = "react",
         NEW next_state \in {"preamble_proc", "header_proc", "payload_proc",
                             "crc_and_postamble_proc", "packet_ready"},
         SetNextState(next_state),
         UNCHANGED <<header, payload, pc, block, coming>>,
         rx' \in {rx, <<>>},
         time' \in TimeType, OnlyOwnTimerRuns',
         next_state \in {"preamble_proc", "header_proc"} \/ ValidHeader(header)
  PROVE  Inv'
<1>1. state' = next_state /\ internal' = "invalid" /\ external' = "invalid"
  BY DEF SetNextState
<1>2. TypeOK'
  <2>1. rx' \in Seq(Byte) /\ Len(rx') <= RX_DATA_BUFF_SIZE
    <3>1. CASE rx' = rx
      BY <3>1 DEF Inv, TypeOK
    <3>2. CASE rx' = <<>>
      BY <3>2
    <3>3. QED
      BY <3>1, <3>2
  <2>2. QED
    BY <1>1, <2>1 DEF Inv, TypeOK, TimeType
<1>3. HeaderInv'
  BY <1>1 DEF HeaderInv, HeaderJudged
<1>4. ReadInv' /\ ReleaseInv' /\ ComingInv'
  BY <1>1 DEF Inv, ReadInv, ReleaseInv, ComingInv
<1>5. QED
  BY <1>2, <1>3, <1>4 DEF Inv

(* Which timers run in a state.                                            *)
LEMMA TimersOf ==
  Inv => /\ time = [header_timeout |-> time.header_timeout,
                    payload_timeout |-> time.payload_timeout,
                    crc_and_postamble_timeout |-> time.crc_and_postamble_timeout]
         /\ time.header_timeout \in TimeEvent /\ time.payload_timeout \in TimeEvent
         /\ time.crc_and_postamble_timeout \in TimeEvent
         /\ state # "header_proc" =>
              ~time.header_timeout.active /\ ~time.header_timeout.raised
         /\ state # "payload_proc" =>
              ~time.payload_timeout.active /\ ~time.payload_timeout.raised
         /\ state # "crc_and_postamble_proc" =>
              /\ ~time.crc_and_postamble_timeout.active
              /\ ~time.crc_and_postamble_timeout.raised
BY DEF Inv, TypeOK, OnlyOwnTimerRuns

(* The timers after a reaction are right, if each of them is.              *)
LEMMA TimersRight ==
  ASSUME NEW h \in TimeEvent, NEW p \in TimeEvent, NEW c \in TimeEvent,
         time' = [header_timeout |-> h, payload_timeout |-> p,
                  crc_and_postamble_timeout |-> c],
         h.active <=> state' = "header_proc",
         p.active <=> state' = "payload_proc",
         c.active <=> state' = "crc_and_postamble_proc",
         h.raised => h.active, p.raised => p.active, c.raised => c.active
  PROVE  time' \in TimeType /\ OnlyOwnTimerRuns'
BY DEF TimeType, OnlyOwnTimerRuns

LEMMA PreambleOkInv == Inv /\ PreambleOk => Inv'
<1> SUFFICES ASSUME Inv, PreambleOk PROVE Inv'
  OBVIOUS
<1> DEFINE started == Started(HEADER_BYTES_TIMEOUT_MS)
<1>1. /\ pc = "react" /\ state = "preamble_proc" /\ SetNextState("header_proc")
      /\ UNCHANGED <<header, payload, pc, block, coming>> /\ rx' = rx
      /\ state' = "header_proc"
  BY DEF PreambleOk, Reacting, SetNextState
<1>2. time' = [header_timeout |-> started, payload_timeout |-> time.payload_timeout,
               crc_and_postamble_timeout |-> time.crc_and_postamble_timeout]
  BY TimersOf DEF PreambleOk
<1>3. time' \in TimeType /\ OnlyOwnTimerRuns'
  <2>1. started \in TimeEvent /\ started.active /\ ~started.raised
    BY StartedType
  <2> HIDE DEF started
  <2>2. QED
    BY <1>1, <1>2, <2>1, TimersOf, TimersRight
<1>4. QED
  BY <1>1, <1>3, ReactedInv

LEMMA HeaderOkInv == Inv /\ HeaderOk => Inv'
<1> SUFFICES ASSUME Inv, HeaderOk PROVE Inv'
  OBVIOUS
<1>1. /\ pc = "react" /\ state = "header_proc" /\ internal = "header_ok"
      /\ UNCHANGED <<header, payload, pc, block, coming>> /\ rx' = rx
  BY DEF HeaderOk, Reacting
<1>2. ValidHeader(header)
  BY <1>1 DEF Inv, HeaderInv, HeaderJudged
<1>3. CASE PayloadLen(header) > 0
  <2> DEFINE started == Started(PayloadLen(header))
  <2>1. SetNextState("payload_proc") /\ state' = "payload_proc"
    BY <1>3 DEF HeaderOk, SetNextState
  <2>2. time' = [header_timeout |-> Stopped, payload_timeout |-> started,
                 crc_and_postamble_timeout |-> time.crc_and_postamble_timeout]
    BY <1>3, TimersOf DEF HeaderOk
  <2>3. started \in TimeEvent /\ started.active /\ ~started.raised
    <3>1. PayloadLen(header) \in Nat
      BY <1>2, PayloadLenFits DEF Inv, TypeOK
    <3>2. QED
      BY <3>1, StartedType
  <2>4. time' \in TimeType /\ OnlyOwnTimerRuns'
    <3> HIDE DEF started
    <3>1. QED
      BY <1>1, <2>1, <2>2, <2>3, StoppedType, TimersOf, TimersRight
  <2>5. QED
    BY <1>1, <1>2, <2>1, <2>4, ReactedInv
<1>4. CASE ~(PayloadLen(header) > 0)
  <2> DEFINE started == Started(POSTAMBLE_BYTES_TIMEOUT_MS)
  <2>1. SetNextState("crc_and_postamble_proc") /\ state' = "crc_and_postamble_proc"
    BY <1>4 DEF HeaderOk, SetNextState
  <2>2. time' = [header_timeout |-> Stopped, payload_timeout |-> time.payload_timeout,
                 crc_and_postamble_timeout |-> started]
    BY <1>4, TimersOf DEF HeaderOk
  <2>3. started \in TimeEvent /\ started.active /\ ~started.raised
    BY StartedType
  <2>4. time' \in TimeType /\ OnlyOwnTimerRuns'
    <3> HIDE DEF started
    <3>1. QED
      BY <1>1, <2>1, <2>2, <2>3, StoppedType, TimersOf, TimersRight
  <2>5. QED
    BY <1>1, <1>2, <2>1, <2>4, ReactedInv
<1>5. QED
  BY <1>3, <1>4

LEMMA PayloadOkInv == Inv /\ PayloadOk => Inv'
<1> SUFFICES ASSUME Inv, PayloadOk PROVE Inv'
  OBVIOUS
<1> DEFINE started == Started(POSTAMBLE_BYTES_TIMEOUT_MS)
<1>1. /\ pc = "react" /\ state = "payload_proc" /\ SetNextState("crc_and_postamble_proc")
      /\ UNCHANGED <<header, payload, pc, block, coming>> /\ rx' = rx
      /\ state' = "crc_and_postamble_proc"
  BY DEF PayloadOk, Reacting, SetNextState
<1>2. ValidHeader(header)
  BY <1>1 DEF Inv, HeaderInv, HeaderJudged
<1>3. time' = [header_timeout |-> time.header_timeout, payload_timeout |-> Stopped,
               crc_and_postamble_timeout |-> started]
  BY TimersOf DEF PayloadOk
<1>4. time' \in TimeType /\ OnlyOwnTimerRuns'
  <2>1. started \in TimeEvent /\ started.active /\ ~started.raised
    BY StartedType
  <2> HIDE DEF started
  <2>2. QED
    BY <1>1, <1>3, <2>1, StoppedType, TimersOf, TimersRight
<1>5. QED
  BY <1>1, <1>2, <1>4, ReactedInv

(* The ways back: a failure, or a packet that was processed.               *)
LEMMA FailedInv ==
  Inv /\ (HeaderFailed \/ PayloadFailed \/ CrcAndPostambleFailed) => Inv'
<1> SUFFICES ASSUME Inv, HeaderFailed \/ PayloadFailed \/ CrcAndPostambleFailed PROVE Inv'
  OBVIOUS
<1>1. /\ pc = "react" /\ SetNextState("preamble_proc") /\ state' = "preamble_proc"
      /\ UNCHANGED <<header, payload, pc, block, coming>> /\ rx' \in {rx, <<>>}
  BY DEF HeaderFailed, PayloadFailed, CrcAndPostambleFailed, Reacting, SetNextState
<1>2. time' \in TimeType /\ OnlyOwnTimerRuns'
  <2>1. CASE HeaderFailed
    <3>1. time' = [header_timeout |-> Stopped, payload_timeout |-> time.payload_timeout,
                   crc_and_postamble_timeout |-> time.crc_and_postamble_timeout]
      BY <2>1, TimersOf DEF HeaderFailed
    <3>2. state = "header_proc"
      BY <2>1 DEF HeaderFailed, Reacting
    <3>3. QED
      BY <1>1, <3>1, <3>2, StoppedType, TimersOf, TimersRight
  <2>2. CASE PayloadFailed
    <3>1. time' = [header_timeout |-> time.header_timeout, payload_timeout |-> Stopped,
                   crc_and_postamble_timeout |-> time.crc_and_postamble_timeout]
      BY <2>2, TimersOf DEF PayloadFailed
    <3>2. state = "payload_proc"
      BY <2>2 DEF PayloadFailed, Reacting
    <3>3. QED
      BY <1>1, <3>1, <3>2, StoppedType, TimersOf, TimersRight
  <2>3. CASE CrcAndPostambleFailed
    <3>1. time' = [header_timeout |-> time.header_timeout,
                   payload_timeout |-> time.payload_timeout,
                   crc_and_postamble_timeout |-> Stopped]
      BY <2>3, TimersOf DEF CrcAndPostambleFailed
    <3>2. state = "crc_and_postamble_proc"
      BY <2>3 DEF CrcAndPostambleFailed, Reacting
    <3>3. QED
      BY <1>1, <3>1, <3>2, StoppedType, TimersOf, TimersRight
  <2>4. QED
    BY <2>1, <2>2, <2>3
<1>3. QED
  BY <1>1, <1>2, ReactedInv

LEMMA CrcAndPostambleOkInv == Inv /\ CrcAndPostambleOk => Inv'
<1> SUFFICES ASSUME Inv, CrcAndPostambleOk PROVE Inv'
  OBVIOUS
<1>1. /\ pc = "react" /\ state = "crc_and_postamble_proc"
      /\ SetNextState("packet_ready") /\ state' = "packet_ready"
      /\ UNCHANGED <<header, payload, pc, block, coming>> /\ rx' = rx
  BY DEF CrcAndPostambleOk, Reacting, SetNextState
<1>2. ValidHeader(header)
  BY <1>1 DEF Inv, HeaderInv, HeaderJudged
<1>3. time' = [header_timeout |-> time.header_timeout,
               payload_timeout |-> time.payload_timeout,
               crc_and_postamble_timeout |-> Stopped]
  BY TimersOf DEF CrcAndPostambleOk
<1>4. time' \in TimeType /\ OnlyOwnTimerRuns'
  BY <1>1, <1>3, StoppedType, TimersOf, TimersRight
<1>5. QED
  BY <1>1, <1>2, <1>4, ReactedInv

LEMMA PacketProcessedInv == Inv /\ PacketProcessed => Inv'
<1> SUFFICES ASSUME Inv, PacketProcessed PROVE Inv'
  OBVIOUS
<1>1. /\ pc = "react" /\ state = "packet_ready"
      /\ SetNextState("preamble_proc") /\ state' = "preamble_proc"
      /\ UNCHANGED <<header, payload, pc, block, coming>> /\ rx' = rx /\ time' = time
  BY DEF PacketProcessed, Reacting, SetNextState
<1>2. time' \in TimeType /\ OnlyOwnTimerRuns'
  BY <1>1 DEF Inv, TypeOK, TimeType, OnlyOwnTimerRuns
<1>3. QED
  BY <1>1, <1>2, ReactedInv

LEMMA SetExtEventInv == Inv /\ SetExtEvent => Inv'
<1> SUFFICES ASSUME Inv, SetExtEvent PROVE Inv'
  OBVIOUS
<1>1. /\ external' = "packet_proccessed" /\ released' = (state = "packet_ready")
      /\ UNCHANGED <<state, internal, time, header, payload, rx, pc, block, coming>>
  BY DEF SetExtEvent
<1>2. TypeOK'
  BY <1>1 DEF Inv, TypeOK
<1>3. QED
  BY <1>1, <1>2
     DEF Inv, OnlyOwnTimerRuns, ReadInv, Needed, HeaderInv, HeaderJudged, ReleaseInv, ComingInv

LEMMA StepInv == Inv /\ [Next]_vars => Inv'
<1>1. Inv /\ UNCHANGED vars => Inv'
  BY DEF vars, handle, history, Inv, TypeOK, OnlyOwnTimerRuns, ReadInv, Needed,
         HeaderInv, HeaderJudged, ReleaseInv, ComingInv
<1>2. QED
  BY <1>1, ArriveInv, SysTickInv, BeginReadInv, GetInv, JudgeInv, PreambleOkInv,
     HeaderOkInv, PayloadOkInv, FailedInv, CrcAndPostambleOkInv, PacketProcessedInv,
     SetExtEventInv
     DEF Next, Run

LEMMA Invariance == Spec => []Inv
BY InitInv, StepInv, PTL DEF Spec

-----------------------------------------------------------------------------

(* host_comm_rx_fsm.c, uart_driver.c: the handle keeps its types, the      *)
(* packet its sizes and the buffer its bound, whatever the host sends.     *)
THEOREM TypeCorrect == Spec => []TypeOK
<1>1. Inv => TypeOK
  BY DEF Inv
<1>2. QED
  BY <1>1, Invariance, PTL

(* host_comm_rx_fsm.c: every way out of a state stops the timer of that    *)
(* state and no other, for every length of the timeouts.                   *)
THEOREM TimersOwned == Spec => []OnlyOwnTimerRuns
<1>1. Inv => OnlyOwnTimerRuns
  BY DEF Inv
<1>2. QED
  BY <1>1, Invariance, PTL

(* host_comm_rx_fsm.c, protocol.c: payload_proc reads no more than a       *)
(* payload holds, whatever bytes make the header.                          *)
THEOREM ReadsFit == Spec => []ReadFits
<1>1. Inv => ReadFits
  <2> SUFFICES ASSUME Inv, pc = "read", state = "payload_proc"
               PROVE  Needed <= MAX_PAYLOAD_SIZE
    BY DEF ReadFits
  <2>1. PayloadLen(header) \in 0..MAX_PAYLOAD_SIZE
    BY PayloadLenFits DEF Inv, TypeOK, HeaderInv, HeaderJudged
  <2>2. QED
    BY <2>1 DEF Needed
<1>2. QED
  BY <1>1, Invariance, PTL

(* host_comm_rx_fsm.c: a packet is only released by an event set while it  *)
(* was ready.                                                              *)
THEOREM ReleasesFresh == Spec => ReleaseIsFresh
<1>1. Inv /\ [Next]_vars => (state = "packet_ready" /\ state' # "packet_ready" => released)
  <2> SUFFICES ASSUME Inv, Next, state = "packet_ready", state' # "packet_ready"
               PROVE  released
    BY DEF vars, handle
  <2>1. PacketProcessed
    BY DEF Inv, ReadInv, Next, Run, Arrive, Lose, SysTick, SetExtEvent, BeginRead,
           GetByte, GetNothing, JudgePreamble, JudgeHeader, JudgePayload,
           JudgeCrcAndPostamble, PreambleOk, HeaderOk, HeaderFailed, PayloadOk,
           PayloadFailed, CrcAndPostambleOk, CrcAndPostambleFailed, Reacting, handle
  <2>2. QED
    BY <2>1 DEF Inv, ReleaseInv, PacketProcessed
<1>2. QED
  BY <1>1, Invariance, PTL DEF Spec, ReleaseIsFresh


-----------------------------------------------------------------------------
(* What came of a stream                                                   *)

(* d came, in order and with losses, of the part of a stream before rest.  *)
CameFrom(d, rest, s, k, place) ==
  /\ s \in Streams /\ k \in 0..Len(s) /\ rest = SubSeq(s, k + 1, Len(s))
  /\ place \in [1..Len(d) -> 1..k]
  /\ \A i, j \in 1..Len(d) : i < j => place[i] < place[j]
  /\ \A i \in 1..Len(d) : d[i] = s[place[i]]

Came(d, rest) == \E s, k, place : CameFrom(d, rest, s, k, place)

LEMMA CameNothing == ASSUME NEW s \in Streams PROVE Came(<<>>, s)
<1>1. s \in Seq(Byte)
  OBVIOUS
<1>2. s = SubSeq(s, 1, Len(s))
  BY <1>1
<1>3. CameFrom(<<>>, s, s, 0, [i \in 1..0 |-> 0])
  BY <1>1, <1>2 DEF CameFrom
<1>4. QED
  BY <1>3 DEF Came

(* The next byte of the stream comes, or is lost.                          *)
LEMMA CameNext ==
  ASSUME NEW d \in Seq(Byte), NEW rest \in Seq(Byte), rest # <<>>, Came(d, rest)
  PROVE  Came(Append(d, Head(rest)), Tail(rest)) /\ Came(d, Tail(rest))
<1>1. PICK s, k, place : CameFrom(d, rest, s, k, place)
  BY DEF Came
<1>2. /\ s \in Streams /\ s \in Seq(Byte) /\ k \in 0..Len(s)
      /\ rest = SubSeq(s, k + 1, Len(s)) /\ place \in [1..Len(d) -> 1..k]
  BY <1>1 DEF CameFrom
<1>3. k + 1 \in 1..Len(s) /\ Head(rest) = s[k + 1]
  BY <1>2
<1>4. Tail(rest) = SubSeq(s, k + 2, Len(s))
  BY <1>2, <1>3
<1>5. CameFrom(d, Tail(rest), s, k + 1, place)
  BY <1>1, <1>2, <1>3, <1>4 DEF CameFrom
<1>6. CameFrom(Append(d, Head(rest)), Tail(rest), s, k + 1,
               [i \in 1..(Len(d) + 1) |-> IF i <= Len(d) THEN place[i] ELSE k + 1])
  <2> DEFINE longer == Append(d, Head(rest))
             further == [i \in 1..(Len(d) + 1) |-> IF i <= Len(d) THEN place[i] ELSE k + 1]
  <2>1. /\ Len(longer) = Len(d) + 1 /\ longer[Len(d) + 1] = Head(rest)
        /\ \A i \in 1..Len(d) : longer[i] = d[i]
    BY <1>2
  <2>2. further \in [1..(Len(d) + 1) -> 1..(k + 1)]
    BY <1>2
  <2>3. /\ further[Len(d) + 1] = k + 1
        /\ \A i \in 1..Len(d) : further[i] = place[i] /\ place[i] \in 1..k
    BY <1>2
  <2> HIDE DEF longer, further
  <2>4. \A i, j \in 1..(Len(d) + 1) : i < j => further[i] < further[j]
    <3> SUFFICES ASSUME NEW i \in 1..(Len(d) + 1), NEW j \in 1..(Len(d) + 1), i < j
                 PROVE  further[i] < further[j]
      OBVIOUS
    <3>1. i \in 1..Len(d)
      OBVIOUS
    <3>2. CASE j = Len(d) + 1
      BY <1>2, <2>3, <3>1, <3>2
    <3>3. CASE j \in 1..Len(d)
      BY <1>1, <2>3, <3>1, <3>3 DEF CameFrom
    <3>4. j = Len(d) + 1 \/ j \in 1..Len(d)
      OBVIOUS
    <3>5. QED
      BY <3>2, <3>3, <3>4
  <2>5. \A i \in 1..(Len(d) + 1) : longer[i] = s[further[i]]
    <3> SUFFICES ASSUME NEW i \in 1..(Len(d) + 1) PROVE longer[i] = s[further[i]]
      OBVIOUS
    <3>1. CASE i = Len(d) + 1
      BY <1>3, <2>1, <2>3, <3>1
    <3>2. CASE i \in 1..Len(d)
      BY <1>1, <2>1, <2>3, <3>2 DEF CameFrom
    <3>3. QED
      BY <3>1, <3>2
  <2>6. CameFrom(longer, Tail(rest), s, k + 1, further)
    <3>1. k + 1 \in 0..Len(s) /\ Tail(rest) = SubSeq(s, (k + 1) + 1, Len(s))
      BY <1>2, <1>3, <1>4
    <3>2. QED
      BY <1>2, <2>1, <2>2, <2>4, <2>5, <3>1 DEF CameFrom
  <2>7. QED
    BY <2>6 DEF longer, further
<1>7. QED
  BY <1>5, <1>6 DEF Came

(* What came before may be forgotten: it counts as lost.                   *)
LEMMA CameSince ==
  ASSUME NEW a \in Seq(Byte), NEW b \in Seq(Byte), NEW rest, Came(a \o b, rest)
  PROVE  Came(b, rest)
<1>1. PICK s, k, place : CameFrom(a \o b, rest, s, k, place)
  BY DEF Came
<1> DEFINE n == Len(a)
           m == Len(b)
           since == [i \in 1..m |-> place[n + i]]
<1>2. n \in Nat /\ m \in Nat /\ Len(a \o b) = n + m /\ \A i \in 1..m : (a \o b)[n + i] = b[i]
  OBVIOUS
<1> HIDE DEF n, m
<1>3. \A i \in 1..m : n + i \in 1..(n + m)
  BY <1>2
<1>4. /\ place \in [1..(n + m) -> 1..k]
      /\ \A i, j \in 1..(n + m) : i < j => place[i] < place[j]
      /\ \A i \in 1..(n + m) : (a \o b)[i] = s[place[i]]
  BY <1>1, <1>2 DEF CameFrom
<1>5. since \in [1..m -> 1..k] /\ \A i \in 1..m : since[i] = place[n + i]
  BY <1>3, <1>4
<1> HIDE DEF since
<1>6. \A i, j \in 1..m : i < j => since[i] < since[j]
  <2> SUFFICES ASSUME NEW i \in 1..m, NEW j \in 1..m, i < j PROVE since[i] < since[j]
    OBVIOUS
  <2>1. n + i \in 1..(n + m) /\ n + j \in 1..(n + m) /\ n + i < n + j
    BY <1>2
  <2>2. QED
    BY <1>4, <1>5, <2>1
<1>7. \A i \in 1..m : b[i] = s[since[i]]
  BY <1>2, <1>3, <1>4, <1>5, ZenonT(30)
<1>8. CameFrom(b, rest, s, k, since)
  BY <1>1, <1>5, <1>6, <1>7 DEF CameFrom, m
<1>9. QED
  BY <1>8 DEF Came

(* The first bytes of what came, as CrcTells has them.                     *)
LEMMA CameIsDelivered ==
  ASSUME NEW a \in Seq(Byte), NEW b \in Seq(Byte), NEW rest, Came(a \o b, rest)
  PROVE  \E s \in Streams : a \in Delivered(Len(a), s)
<1>1. PICK s, k, place : CameFrom(a \o b, rest, s, k, place)
  BY DEF Came
<1> DEFINE n == Len(a)
           first == [i \in 1..n |-> place[i]]
<1>2. /\ n \in Nat /\ n <= Len(a \o b) /\ Len(a \o b) \in Nat
      /\ \A i \in 1..n : (a \o b)[i] = a[i]
      /\ a = [i \in 1..n |-> a[i]]
  OBVIOUS
<1>3. s \in Streams /\ s \in Seq(Byte) /\ k \in 0..Len(s) /\ place \in [1..Len(a \o b) -> 1..k]
  BY <1>1 DEF CameFrom
<1> HIDE DEF n
<1>4. first \in [1..n -> DOMAIN s] /\ \A i \in 1..n : first[i] = place[i]
  <2> DEFINE all == Len(a \o b)
  <2>1. n \in Nat /\ all \in Nat /\ n <= all
    BY <1>2
  <2>2. place \in [1..all -> 1..k]
    BY <1>3
  <2>3. 1..k \subseteq DOMAIN s
    BY <1>3
  <2> HIDE DEF all
  <2>4. ASSUME NEW i \in 1..n PROVE place[i] \in DOMAIN s
    <3>1. i \in 1..all
      BY <2>1
    <3>2. QED
      BY <2>2, <2>3, <3>1
  <2>5. QED
    BY <2>4
<1> HIDE DEF first
<1>5. \A i \in 1..n : i \in 1..Len(a \o b)
  BY <1>2
<1>6. \A i, j \in 1..n : i < j => first[i] < first[j]
  <2>1. \A i, j \in 1..Len(a \o b) : i < j => place[i] < place[j]
    BY <1>1 DEF CameFrom
  <2>2. QED
    BY <1>4, <1>5, <2>1
<1>7. \A i \in 1..n : a[i] = s[first[i]]
  <2>1. \A i \in 1..Len(a \o b) : (a \o b)[i] = s[place[i]]
    BY <1>1 DEF CameFrom
  <2> SUFFICES ASSUME NEW i \in 1..n PROVE a[i] = s[first[i]]
    OBVIOUS
  <2>2. a[i] = (a \o b)[i] /\ i \in 1..Len(a \o b) /\ first[i] = place[i]
    BY <1>2, <1>4, <1>5
  <2>3. QED
    BY <2>1, <2>2
<1>8. a = [i \in 1..n |-> s[first[i]]]
  BY <1>2, <1>7
<1>9. a \in Delivered(n, s)
  BY <1>4, <1>6, <1>8 DEF Delivered
<1>10. QED
  BY <1>3, <1>9 DEF n

-----------------------------------------------------------------------------
(* A frame that is acknowledged came byte by byte                          *)

Body == SubSeq(payload, 1, PayloadLen(header))

(* What of a frame came before the bytes that the state waits for.         *)
Lead ==
  CASE state = "preamble_proc" -> <<>>
    [] state = "header_proc"   -> PREAMBLE
    [] state = "payload_proc"  -> PREAMBLE \o header
    [] OTHER                   -> PREAMBLE \o header \o Body

(* What came of the frame at all; nothing that matters once it is judged.  *)
Seen ==
  CASE internal = "invalid" /\ state # "packet_ready" -> Lead \o block
    [] internal = "preamble_ok" -> PREAMBLE
    [] internal = "header_ok"   -> PREAMBLE \o header
    [] internal = "payload_ok"  -> PREAMBLE \o header \o Body
    [] OTHER                    -> <<>>

AckDue ==
  \/ state = "packet_ready"
  \/ state = "crc_and_postamble_proc" /\ internal = "crc_and_postamble_ok"

(* A read starts without a verdict; that of the payload is its state's.    *)
VerdictInv ==
  /\ pc = "read" => internal = "invalid"
  /\ internal = "payload_ok" => state = "payload_proc"

(* A read takes all its bytes from the buffer, where they are together     *)
(* with what was read before: a gap on the line is a gap in both.          *)
FrameInv ==
  "overflow" \notin mishaps =>
    /\ Came(Seen \o rx, coming)
    /\ pc = "read" => Len(block) + Len(rx) >= Needed
    /\ CrcTells /\ AckDue => <<header, Body>> \in HostPackets

LEMMA InitFrame == Init => FrameInv
<1> SUFFICES ASSUME Init PROVE FrameInv
  OBVIOUS
<1>1. Seen = <<>> \o <<>> /\ rx = <<>> /\ coming \in Streams
  BY DEF Init, Seen, Lead
<1>2. Seen \o rx = <<>>
  BY <1>1
<1>3. Came(Seen \o rx, coming)
  BY <1>1, <1>2, CameNothing
<1>4. QED
  BY <1>3 DEF Init, FrameInv, AckDue

LEMMA InitVerdict == Init => VerdictInv
BY DEF Init, VerdictInv

LEMMA NextVerdict == VerdictInv /\ [Next]_vars => VerdictInv'
<1> SUFFICES ASSUME VerdictInv, [Next]_vars PROVE VerdictInv'
  OBVIOUS
<1>1. CASE Arrive \/ Lose \/ SysTick \/ SetExtEvent \/ UNCHANGED vars
  BY <1>1 DEF Arrive, Lose, SysTick, SetExtEvent, vars, handle, VerdictInv
<1>2. CASE BeginRead \/ GetByte \/ GetNothing
  BY <1>2 DEF BeginRead, GetByte, GetNothing, handle, VerdictInv
<1>3. CASE JudgePreamble \/ JudgeHeader \/ JudgePayload \/ JudgeCrcAndPostamble
  BY <1>3 DEF JudgePreamble, JudgeHeader, JudgePayload, JudgeCrcAndPostamble, Judged, VerdictInv
<1>4. CASE PreambleOk \/ HeaderOk \/ HeaderFailed \/ PayloadOk \/ PayloadFailed
             \/ CrcAndPostambleOk \/ CrcAndPostambleFailed \/ PacketProcessed
  BY <1>4 DEF PreambleOk, HeaderOk, HeaderFailed, PayloadOk, PayloadFailed, CrcAndPostambleOk,
     CrcAndPostambleFailed, PacketProcessed, Reacting, SetNextState, VerdictInv
<1>5. QED
  BY <1>1, <1>2, <1>3, <1>4 DEF Next, Run

LEMMA BodyType ==
  ASSUME Inv, HeaderJudged
  PROVE  /\ PayloadLen(header) \in 0..MAX_PAYLOAD_SIZE
         /\ Body \in Seq(Byte) /\ Len(Body) = PayloadLen(header)
<1>1. /\ header \in Seq(Byte) /\ Len(header) = HEADER_SIZE_BYTES /\ ValidHeader(header)
      /\ payload \in Seq(Byte) /\ Len(payload) = MAX_PAYLOAD_SIZE
  BY DEF Inv, TypeOK, HeaderInv
<1>2. PayloadLen(header) \in 0..MAX_PAYLOAD_SIZE
  BY <1>1, PayloadLenFits
<1>3. QED
  BY <1>1, <1>2 DEF Body

LEMMA LeadType == Inv /\ state # "packet_ready" => Lead \in Seq(Byte)
<1> SUFFICES ASSUME Inv, state # "packet_ready" PROVE Lead \in Seq(Byte)
  OBVIOUS
<1>1. header \in Seq(Byte)
  BY DEF Inv, TypeOK
<1>2. CASE state \in {"preamble_proc", "header_proc", "payload_proc"}
  BY <1>1, <1>2 DEF Lead
<1>3. CASE state = "crc_and_postamble_proc"
  BY <1>1, <1>3, BodyType DEF Lead, HeaderJudged
<1>4. QED
  BY <1>2, <1>3 DEF Inv, TypeOK

LEMMA Joined ==
  ASSUME NEW a \in Seq(Byte), NEW b \in Seq(Byte)
  PROVE  a \o b \in Seq(Byte) /\ Len(a \o b) = Len(a) + Len(b)
BY ConcatProperties

LEMMA Regroup ==
  ASSUME NEW a \in Seq(Byte), NEW b \in Seq(Byte), NEW c \in Seq(Byte)
  PROVE  (a \o b) \o c = a \o (b \o c)
OBVIOUS

LEMMA SeenType == Inv /\ VerdictInv => Seen \in Seq(Byte)
<1> SUFFICES ASSUME Inv, VerdictInv PROVE Seen \in Seq(Byte)
  OBVIOUS
<1>1. header \in Seq(Byte) /\ block \in Seq(Byte)
  BY DEF Inv, TypeOK
<1>2. CASE internal = "invalid" /\ state # "packet_ready"
  <2>1. Lead \in Seq(Byte) /\ Seen = Lead \o block
    BY <1>2, LeadType DEF Seen
  <2>2. QED
    BY <1>1, <2>1
<1>3. CASE internal \in {"preamble_ok", "header_ok"}
  BY <1>1, <1>3 DEF Seen
<1>4. CASE internal = "payload_ok"
  <2>1. Body \in Seq(Byte) /\ Seen = PREAMBLE \o header \o Body
    BY <1>4, BodyType DEF Seen, VerdictInv, HeaderJudged
  <2>2. QED
    BY <1>1, <2>1
<1>5. CASE Seen = <<>>
  BY <1>5
<1>6. QED
  BY <1>2, <1>3, <1>4, <1>5 DEF Seen

(* Everything read may be forgotten, and what is buffered too.             *)
LEMMA Forget ==
  ASSUME NEW seen \in Seq(Byte), NEW bytes \in Seq(Byte), NEW rest, Came(seen \o bytes, rest)
  PROVE  Came(<<>> \o bytes, rest) /\ Came(<<>> \o <<>>, rest)
<1>1. Came(bytes, rest)
  BY CameSince
<1>2. bytes \o <<>> = bytes /\ <<>> \o bytes = bytes /\ <<>> \o <<>> = <<>> /\ <<>> \in Seq(Byte)
  OBVIOUS
<1>3. Came(<<>>, rest)
  BY <1>1, <1>2, CameSince
<1>4. QED
  BY <1>1, <1>2, <1>3

(* Steps that leave the frame alone.                                       *)
LEMMA SameSeen ==
  ASSUME UNCHANGED <<state, internal, header, payload, block>>
  PROVE  UNCHANGED <<Seen, Lead, Body, AckDue, Needed>>
BY DEF Seen, Lead, Body, AckDue, Needed

LEMMA ModuloAtMost == ASSUME NEW n \in Nat, NEW w \in Nat \ {0} PROVE n % w <= n /\ n % w \in Nat
<1>1. CASE n < w
  BY <1>1
<1>2. CASE n >= w
  BY <1>2
<1>3. QED
  BY <1>1, <1>2

(* The line and the timers; what HAL_UART_RxCpltCallback drops at a full   *)
(* buffer is an overflow.                                                  *)
LEMMA ArriveFrame ==
  ASSUME Inv, VerdictInv, FrameInv, Arrive \/ Lose
  PROVE  FrameInv'
<1> SUFFICES ASSUME "overflow" \notin mishaps' PROVE FrameInv'
  BY DEF FrameInv
<1>1. "overflow" \notin mishaps
  BY DEF Arrive, Lose
<1>2. /\ Came(Seen \o rx, coming) /\ (CrcTells /\ AckDue => <<header, Body>> \in HostPackets)
      /\ pc = "read" => Len(block) + Len(rx) >= Needed
  BY <1>1 DEF FrameInv
<1>3. UNCHANGED <<state, internal, header, payload, block, pc>>
  BY DEF Arrive, Lose, handle
<1>4. UNCHANGED <<Seen, Body, AckDue, Needed>>
  BY <1>3, SameSeen
<1>5. /\ coming \in Seq(Byte) /\ coming # <<>> /\ coming' = Tail(coming)
      /\ rx \in Seq(Byte) /\ block \in Seq(Byte) /\ Head(coming) \in Byte
      /\ Seen \o rx \in Seq(Byte)
  BY SeenType DEF Inv, TypeOK, ComingInv, Arrive, Lose
<1>6. Came(Append(Seen \o rx, Head(coming)), Tail(coming)) /\ Came(Seen \o rx, Tail(coming))
  BY <1>2, <1>5, CameNext
<1>7. CASE rx' = rx
  BY <1>2, <1>3, <1>4, <1>5, <1>6, <1>7 DEF FrameInv
<1>8. CASE rx' = Append(rx, Head(coming))
  <2>1. Seen \o rx' = Append(Seen \o rx, Head(coming))
    BY <1>5, <1>8
  <2>2. Len(rx') = Len(rx) + 1
    BY <1>5, <1>8
  <2>3. Came((Seen \o rx)', coming')
    BY <1>4, <1>5, <1>6, <2>1
  <2>4. pc' = "read" => Len(block') + Len(rx') >= Needed'
    <3> SUFFICES ASSUME pc' = "read" PROVE Len(block') + Len(rx') >= Needed'
      OBVIOUS
    <3>1. state # "packet_ready" /\ Needed \in Nat
      BY <1>3, NeededType DEF Inv, ReadInv
    <3>2. Len(block) + Len(rx) >= Needed
      BY <1>2, <1>3
    <3> DEFINE n == Needed
    <3>3. Needed' = n /\ n \in Nat
      BY <1>4, <3>1
    <3> HIDE DEF n
    <3>4. Len(block) + Len(rx') >= n
      BY <1>5, <2>2, <3>2, <3>3 DEF n
    <3>5. QED
      BY <1>3, <3>3, <3>4
  <2>5. QED
    BY <1>2, <1>4, <1>3, <2>3, <2>4 DEF FrameInv
<1>9. QED
  BY <1>7, <1>8 DEF Arrive, Lose

LEMMA QuietFrame ==
  ASSUME FrameInv, UNCHANGED <<state, internal, header, payload, rx, pc, block, coming, mishaps>>
  PROVE  FrameInv'
BY SameSeen DEF FrameInv

(* uart_get_rx_data_len never promises more than there is.                 *)
LEMMA BeginReadFrame == Inv /\ FrameInv /\ BeginRead => FrameInv'
<1> SUFFICES ASSUME Inv, FrameInv, BeginRead, "overflow" \notin mishaps PROVE FrameInv'
  BY DEF FrameInv, BeginRead, history
<1>1. /\ state # "packet_ready" /\ internal = "invalid" /\ block = <<>>
      /\ uart_get_rx_data_len >= Needed
      /\ UNCHANGED <<state, internal, header, payload, rx, block, coming, mishaps>>
  BY DEF BeginRead, Inv, ReadInv, handle, history
<1>2. Needed \in Nat /\ Len(rx) \in Nat
  BY <1>1, NeededType DEF Inv, TypeOK
<1>3. Len(rx) % LEN_WRAP <= Len(rx) /\ Len(rx) % LEN_WRAP \in Nat
  BY <1>2, ModuloAtMost
<1> DEFINE n == Needed
<1>4. Needed' = n /\ n \in Nat /\ Len(rx) % LEN_WRAP >= n
  BY <1>1, <1>2, SameSeen DEF uart_get_rx_data_len
<1> HIDE DEF n
<1>5. Len(block) + Len(rx) >= n
  BY <1>1, <1>2, <1>3, <1>4
<1>6. UNCHANGED <<Seen, Body, AckDue>>
  BY <1>1, SameSeen
<1>7. QED
  BY <1>1, <1>4, <1>5, <1>6 DEF FrameInv

(* A byte taken from the buffer goes where it belongs.                     *)
LEMMA GetFrame == Inv /\ VerdictInv /\ FrameInv /\ (GetByte \/ GetNothing) => FrameInv'
<1> SUFFICES ASSUME Inv, VerdictInv, FrameInv, GetByte \/ GetNothing, "overflow" \notin mishaps
             PROVE  FrameInv'
  BY DEF FrameInv, GetByte, GetNothing, history
<1>1. /\ pc = "read" /\ state # "packet_ready" /\ internal = "invalid"
      /\ Len(block) + Len(rx) >= Needed /\ ~(Len(block) >= Needed)
      /\ Came(Seen \o rx, coming)
  BY DEF GetByte, GetNothing, ReadOver, Inv, ReadInv, VerdictInv, FrameInv
<1>2. block \in Seq(Byte) /\ rx \in Seq(Byte) /\ Needed \in Nat /\ Lead \in Seq(Byte)
  BY <1>1, NeededType, LeadType DEF Inv, TypeOK
<1>3. rx # <<>>
  <2> DEFINE n == Needed
  <2>1. n \in Nat /\ Len(block) + Len(rx) >= n /\ ~(Len(block) >= n)
    BY <1>1, <1>2
  <2> HIDE DEF n
  <2>2. QED
    BY <1>2, <2>1
<1>4. /\ block' = Append(block, Head(rx)) /\ rx' = Tail(rx)
      /\ UNCHANGED <<state, internal, header, payload, pc, coming, mishaps>>
  BY <1>3 DEF GetByte, GetNothing, handle, history
<1>5. Lead' = Lead /\ Needed' = Needed /\ Body' = Body
  BY <1>4 DEF Lead, Needed, Body
<1>6. Seen = Lead \o block /\ Seen' = Lead \o block' /\ ~AckDue'
  BY <1>1, <1>4, <1>5 DEF Seen, AckDue
<1>7. (Lead \o block') \o rx' = (Lead \o block) \o rx
  <2> DEFINE l == Lead
  <2>1. l \in Seq(Byte)
    BY <1>2
  <2> HIDE DEF l
  <2>2. block' \o rx' = block \o rx /\ block' \in Seq(Byte) /\ rx' \in Seq(Byte)
    BY <1>2, <1>3, <1>4
  <2>3. (l \o block') \o rx' = l \o (block' \o rx') /\ (l \o block) \o rx = l \o (block \o rx)
    <3>1. (l \o block') \o rx' = l \o (block' \o rx')
      BY <2>1, <2>2, Regroup
    <3>2. (l \o block) \o rx = l \o (block \o rx)
      BY <1>2, <2>1, Regroup
    <3>3. QED
      BY <3>1, <3>2
  <2>4. (l \o block') \o rx' = (l \o block) \o rx
    BY <2>2, <2>3
  <2>5. QED
    BY <2>4 DEF l
<1>8. Len(block') + Len(rx') = Len(block) + Len(rx)
  BY <1>2, <1>3, <1>4
<1>9. QED
  BY <1>1, <1>4, <1>5, <1>6, <1>7, <1>8 DEF FrameInv

(* What is known where nothing overflowed.                                 *)
LEMMA FrameFacts ==
  ASSUME Inv, VerdictInv, FrameInv, "overflow" \notin mishaps
  PROVE  /\ Came(Seen \o rx, coming) /\ Came(<<>> \o rx, coming) /\ Came(<<>> \o <<>>, coming)
         /\ CrcTells /\ AckDue => <<header, Body>> \in HostPackets
<1>1. Came(Seen \o rx, coming) /\ (CrcTells /\ AckDue => <<header, Body>> \in HostPackets)
  BY DEF FrameInv
<1>2. Seen \in Seq(Byte) /\ rx \in Seq(Byte)
  BY SeenType DEF Inv, TypeOK
<1>3. QED
  BY <1>1, <1>2, Forget

(* The end of a read, and every reaction, without an acknowledgement due.  *)
LEMMA ReactFrame ==
  ASSUME Inv, VerdictInv, FrameInv, mishaps \subseteq mishaps',
         pc' = "react", coming' = coming, ~AckDue',
         \/ Seen' = Seen /\ rx' = rx
         \/ Seen' = <<>> /\ rx' \in {rx, <<>>}
  PROVE  FrameInv'
<1> SUFFICES ASSUME "overflow" \notin mishaps' PROVE FrameInv'
  BY DEF FrameInv
<1>1. "overflow" \notin mishaps
  OBVIOUS
<1>2. Came(Seen' \o rx', coming)
  BY <1>1, FrameFacts
<1>3. QED
  BY <1>2 DEF FrameInv

LEMMA JudgePreambleFrame ==
  Inv /\ VerdictInv /\ FrameInv /\ JudgePreamble => FrameInv'
<1> SUFFICES ASSUME Inv, VerdictInv, FrameInv, JudgePreamble PROVE FrameInv'
  OBVIOUS
<1>1. /\ pc = "read" /\ state = "preamble_proc" /\ internal = "invalid"
      /\ pc' = "react" /\ block' = <<>>
      /\ UNCHANGED <<state, header, payload, rx, coming, mishaps>>
      /\ internal' = IF block = PREAMBLE THEN "preamble_ok" ELSE "invalid"
  BY DEF JudgePreamble, Judged, VerdictInv, history
<1>2. block \in Seq(Byte)
  BY DEF Inv, TypeOK
<1>3. ~AckDue'
  BY <1>1 DEF AckDue
<1>4. Seen = block
  BY <1>1, <1>2 DEF Seen, Lead
<1>5. Seen' = IF block = PREAMBLE THEN PREAMBLE ELSE <<>>
  <2>1. Lead' = <<>>
    BY <1>1 DEF Lead
  <2>2. <<>> \o <<>> = <<>>
    OBVIOUS
  <2>3. QED
    BY <1>1, <2>1, <2>2 DEF Seen
<1>6. QED
  BY <1>1, <1>3, <1>4, <1>5, ReactFrame

LEMMA JudgeHeaderFrame ==
  Inv /\ VerdictInv /\ FrameInv /\ JudgeHeader => FrameInv'
<1> SUFFICES ASSUME Inv, VerdictInv, FrameInv, JudgeHeader PROVE FrameInv'
  OBVIOUS
<1>1. /\ pc = "read" /\ state = "header_proc" /\ internal = "invalid"
      /\ pc' = "react" /\ block' = <<>> /\ header' = block
      /\ UNCHANGED <<state, payload, rx, coming, mishaps>>
      /\ internal' \in {"header_ok", "header_error"}
  BY DEF JudgeHeader, Judged, VerdictInv, history
<1>2. ~AckDue'
  BY <1>1 DEF AckDue
<1>3. Seen = PREAMBLE \o block
  BY <1>1 DEF Seen, Lead
<1>4. Seen' = PREAMBLE \o block \/ Seen' = <<>>
  BY <1>1 DEF Seen
<1>5. QED
  BY <1>1, <1>2, <1>3, <1>4, ReactFrame

LEMMA JudgePayloadFrame ==
  Inv /\ VerdictInv /\ FrameInv /\ JudgePayload => FrameInv'
<1> SUFFICES ASSUME Inv, VerdictInv, FrameInv, JudgePayload PROVE FrameInv'
  OBVIOUS
<1>1. /\ pc = "read" /\ state = "payload_proc" /\ internal = "invalid"
      /\ pc' = "react" /\ block' = <<>> /\ internal' = "payload_ok"
      /\ UNCHANGED <<state, header, rx, coming, mishaps>>
      /\ payload' = block \o SubSeq(payload, Needed + 1, MAX_PAYLOAD_SIZE)
      /\ Len(block) >= Needed /\ Len(block) <= Needed
  BY DEF JudgePayload, Judged, VerdictInv, ReadOver, Inv, ReadInv, history
<1> DEFINE n == PayloadLen(header)
<1>2. n \in 0..MAX_PAYLOAD_SIZE /\ Needed = n
  BY <1>1, BodyType DEF HeaderJudged, Needed
<1>3. Body' = SubSeq(payload', 1, n)
  BY <1>1 DEF Body
<1>4. Body' = block
  <2> HIDE DEF n
  <2>1. block \in Seq(Byte) /\ payload \in Seq(Byte) /\ Len(payload) = MAX_PAYLOAD_SIZE
    BY DEF Inv, TypeOK
  <2>2. Len(block) = n
    BY <1>1, <1>2, <2>1
  <2> DEFINE old == SubSeq(payload, n + 1, MAX_PAYLOAD_SIZE)
  <2>3. old \in Seq(Byte) /\ payload' = block \o old
    BY <1>1, <1>2, <2>1
  <2> HIDE DEF old
  <2>4. SubSeq(block \o old, 1, n) = block
    BY <2>1, <2>2, <2>3, SubSeqOfConcat1
  <2>5. QED
    BY <1>3, <2>3, <2>4
<1>5. ~AckDue'
  BY <1>1 DEF AckDue
<1>6. Seen = PREAMBLE \o header \o block
  BY <1>1 DEF Seen, Lead
<1>7. Seen' = PREAMBLE \o header \o block
  BY <1>1, <1>4 DEF Seen
<1>8. QED
  BY <1>1, <1>5, <1>6, <1>7, ReactFrame

(* Where the fields of a frame are.                                        *)
LEMMA LastField ==
  ASSUME NEW a \in Seq(Byte), NEW b \in Seq(Byte)
  PROVE  SubSeq(a \o b, Len(a) + 1, Len(a) + Len(b)) = b
<1> DEFINE whole == a \o b
           n == Len(a)
           m == Len(b)
           field == SubSeq(whole, n + 1, n + m)
<1>1. /\ whole \in Seq(Byte) /\ n \in Nat /\ m \in Nat /\ Len(whole) = n + m
      /\ \A i \in 1..m : whole[n + i] = b[i]
  OBVIOUS
<1>2. field \in Seq(Byte) /\ Len(field) = m /\ \A i \in 1..m : field[i] = whole[n + i]
  <2> HIDE DEF whole, n, m
  <2>1. QED
    BY <1>1
<1> HIDE DEF field, whole
<1>3. field = b
  BY <1>1, <1>2, SeqEqual
<1>4. QED
  BY <1>3 DEF field, whole

LEMMA FirstField ==
  ASSUME NEW a \in Seq(Byte), NEW b \in Seq(Byte), NEW c \in Seq(Byte)
  PROVE  SubSeq(a \o b \o c, 1, Len(a)) = a
<1> DEFINE whole == a \o b \o c
           n == Len(a)
<1>1. /\ whole \in Seq(Byte) /\ n \in Nat /\ n <= Len(whole)
      /\ \A i \in 1..n : whole[i] = a[i]
  OBVIOUS
<1>2. SubSeq(whole, 1, n) = a
  <2> HIDE DEF whole
  <2>1. QED
    BY <1>1
<1>3. QED
  BY <1>2

LEMMA MiddleField ==
  ASSUME NEW a \in Seq(Byte), NEW b \in Seq(Byte), NEW c \in Seq(Byte)
  PROVE  SubSeq(a \o b \o c, Len(a) + 1, Len(a) + Len(b)) = b
<1> DEFINE whole == a \o b \o c
           n == Len(a)
           m == Len(b)
           field == SubSeq(whole, n + 1, n + m)
<1>1. /\ whole \in Seq(Byte) /\ n \in Nat /\ m \in Nat /\ n + m <= Len(whole)
      /\ \A i \in 1..m : whole[n + i] = b[i]
  OBVIOUS
<1>2. field \in Seq(Byte) /\ Len(field) = m /\ \A i \in 1..m : field[i] = whole[n + i]
  <2> HIDE DEF whole, n, m
  <2>1. QED
    BY <1>1
<1> HIDE DEF field, whole
<1>3. field = b
  BY <1>1, <1>2, SeqEqual
<1>4. QED
  BY <1>3 DEF field, whole

LEMMA CutInTwo ==
  ASSUME NEW s \in Seq(Byte), NEW n \in 0..Len(s)
  PROVE  /\ SubSeq(s, 1, n) \in Seq(Byte) /\ Len(SubSeq(s, 1, n)) = n
         /\ SubSeq(s, n + 1, Len(s)) \in Seq(Byte) /\ Len(SubSeq(s, n + 1, Len(s))) = Len(s) - n
         /\ SubSeq(s, 1, n) \o SubSeq(s, n + 1, Len(s)) = s
<1> DEFINE a == SubSeq(s, 1, n)
           b == SubSeq(s, n + 1, Len(s))
<1>1. /\ a \in Seq(Byte) /\ Len(a) = n /\ \A i \in 1..n : a[i] = s[i]
      /\ b \in Seq(Byte) /\ Len(b) = Len(s) - n
      /\ \A i \in 1..(Len(s) - n) : b[i] = s[n + i]
  OBVIOUS
<1> HIDE DEF a, b
<1>2. a \o b \in Seq(Byte) /\ Len(a \o b) = Len(s)
  BY <1>1
<1>3. \A i \in 1..Len(s) : (a \o b)[i] = s[i]
  <2> SUFFICES ASSUME NEW i \in 1..Len(s) PROVE (a \o b)[i] = s[i]
    OBVIOUS
  <2>1. CASE i <= n
    BY <1>1, <2>1
  <2>2. CASE ~(i <= n)
    <3>1. (a \o b)[i] = b[i - n] /\ i - n \in 1..(Len(s) - n) /\ n + (i - n) = i
      BY <1>1, <2>2
    <3>2. QED
      BY <1>1, <3>1
  <2>3. QED
    BY <2>1, <2>2
<1>4. a \o b = s
  BY <1>2, <1>3, SeqEqual
<1>5. QED
  BY <1>1, <1>4 DEF a, b

(* What the CRC tells, of a frame that came.                               *)
LEMMA CrcTellsFrame ==
  ASSUME CrcTells,
         NEW h \in Seq(Byte), Len(h) = HEADER_SIZE_BYTES, ValidHeader(h),
         NEW p \in Seq(Byte), Len(p) = PayloadLen(h), PayloadLen(h) \in 0..MAX_PAYLOAD_SIZE,
         NEW c \in Seq(Byte), Len(c) = CRC_SIZE_BYTES,
         NEW old \in Seq(Byte), Len(old) = MAX_PAYLOAD_SIZE - PayloadLen(h),
         NEW more \in Seq(Byte), NEW rest, Came(PREAMBLE \o h \o p \o c \o more, rest),
         c = CrcOf(CoveredOf(h, p \o old))
  PROVE  <<h, p>> \in HostPackets
<1> DEFINE start == PREAMBLE \o h
           front == start \o p
           d == front \o c
           len == PayloadLen(h)
           body == Len(PREAMBLE) + HEADER_SIZE_BYTES
<1>1. start \in Seq(Byte) /\ Len(start) = body
  BY Joined
<1> HIDE DEF start
<1>2. front \in Seq(Byte) /\ Len(front) = body + len
  <2>1. Len(start \o p) = Len(start) + Len(p) /\ start \o p \in Seq(Byte)
    BY <1>1, Joined
  <2>2. QED
    BY <1>1, <2>1
<1> HIDE DEF front
<1>3. d \in Seq(Byte) /\ Len(d) = body + len + CRC_SIZE_BYTES
  BY <1>2, Joined
<1>4. PICK s \in Streams : d \in Delivered(body + len + CRC_SIZE_BYTES, s)
  <2>1. Came(d \o more, rest)
    BY DEF start, front
  <2> HIDE DEF d
  <2>2. QED
    BY <1>3, <2>1, CameIsDelivered
<1>5. len \in {PayloadLen(g) : g \in {f \in [1..HEADER_SIZE_BYTES -> Byte] : ValidHeader(f)}}
  <2>1. h \in [1..HEADER_SIZE_BYTES -> Byte]
    OBVIOUS
  <2>2. QED
    BY <2>1
<1>6. SubSeq(d, 1, Len(PREAMBLE)) = PREAMBLE /\ SubSeq(d, Len(PREAMBLE) + 1, body) = h
  <2> DEFINE tail == p \o c
  <2>1. tail \in Seq(Byte)
    BY Joined
  <2>2. d = start \o tail
    BY <1>1, Regroup, ZenonT(30) DEF front
  <2> HIDE DEF tail, d
  <2>3. d = PREAMBLE \o h \o tail
    BY <2>2 DEF start
  <2>4. SubSeq(PREAMBLE \o h \o tail, Len(PREAMBLE) + 1, Len(PREAMBLE) + Len(h)) = h
    BY <2>1, MiddleField
  <2>5. SubSeq(PREAMBLE \o h \o tail, 1, Len(PREAMBLE)) = PREAMBLE
    BY <2>1, FirstField
  <2>6. QED
    BY <2>3, <2>4, <2>5
<1>7. SubSeq(d, body + 1, body + len) = p
  <2>1. SubSeq(start \o p \o c, Len(start) + 1, Len(start) + Len(p)) = p
    BY <1>1, MiddleField
  <2>2. QED
    BY <1>1, <2>1 DEF front
<1>8. SubSeq(d, body + len + 1, body + len + CRC_SIZE_BYTES) = c
  <2>1. SubSeq(front \o c, Len(front) + 1, Len(front) + Len(c)) = c
    BY <1>2, LastField
  <2>2. QED
    BY <1>2, <2>1
<1>9. old \in [1..(MAX_PAYLOAD_SIZE - len) -> Byte]
  OBVIOUS
<1>10. QED
  <2> HIDE DEF d
  <2>1. QED
    BY <1>4, <1>5, <1>6, <1>7, <1>8, <1>9 DEF CrcTells

LEMMA JudgeCrcAndPostambleFrame ==
  Inv /\ VerdictInv /\ FrameInv /\ JudgeCrcAndPostamble => FrameInv'
<1> SUFFICES ASSUME Inv, VerdictInv, FrameInv, JudgeCrcAndPostamble,
                    "overflow" \notin mishaps
             PROVE  FrameInv'
  BY DEF FrameInv, JudgeCrcAndPostamble, Judged, history
<1> DEFINE c == SubSeq(block, 1, CRC_SIZE_BYTES)
           more == SubSeq(block, CRC_SIZE_BYTES + 1, Len(block))
           n == PayloadLen(header)
           old == SubSeq(payload, n + 1, MAX_PAYLOAD_SIZE)
<1>1. /\ pc = "read" /\ state = "crc_and_postamble_proc" /\ internal = "invalid"
      /\ pc' = "react" /\ block' = <<>>
      /\ UNCHANGED <<state, header, payload, rx, coming, mishaps>>
      /\ internal' = IF c # CrcOf(Covered) THEN "crc_error" ELSE "crc_and_postamble_ok"
      /\ Len(block) >= Needed
  BY DEF JudgeCrcAndPostamble, Judged, VerdictInv, ReadOver, history
<1>2. /\ header \in Seq(Byte) /\ Len(header) = HEADER_SIZE_BYTES /\ ValidHeader(header)
      /\ payload \in Seq(Byte) /\ Len(payload) = MAX_PAYLOAD_SIZE
      /\ block \in Seq(Byte) /\ rx \in Seq(Byte)
  BY <1>1 DEF Inv, TypeOK, HeaderInv, HeaderJudged
<1>3. n \in 0..MAX_PAYLOAD_SIZE /\ Body \in Seq(Byte) /\ Len(Body) = n
  BY <1>1, BodyType DEF HeaderJudged
<1>4. c \in Seq(Byte) /\ Len(c) = CRC_SIZE_BYTES /\ more \in Seq(Byte) /\ block = c \o more
  <2>1. Needed = CRC_SIZE_BYTES + Len(POSTAMBLE) /\ Len(POSTAMBLE) \in Nat
    BY <1>1 DEF Needed
  <2>2. Len(block) >= CRC_SIZE_BYTES
    BY <1>1, <1>2, <2>1
  <2>3. QED
    <3>1. CRC_SIZE_BYTES \in 0..Len(block)
      BY <1>2, <2>2
    <3>2. QED
      BY <1>2, <3>1, CutInTwo
<1>5. old \in Seq(Byte) /\ Len(old) = MAX_PAYLOAD_SIZE - n /\ Body \o old = payload
  <2>1. Body = SubSeq(payload, 1, n)
    BY DEF Body
  <2> HIDE DEF n
  <2>2. QED
    BY <1>2, <1>3, <2>1, CutInTwo
<1>6. Came(PREAMBLE \o header \o Body \o c \o (more \o rx), coming) /\ more \o rx \in Seq(Byte)
  <2>1. Came(PREAMBLE \o header \o Body \o block \o rx, coming)
    BY <1>1, FrameFacts DEF Seen, Lead
  <2> DEFINE l == PREAMBLE \o header \o Body
  <2>2. l \in Seq(Byte)
    BY <1>2, <1>3
  <2> HIDE DEF c, more, l
  <2>3. l \o block \o rx = l \o c \o (more \o rx) /\ more \o rx \in Seq(Byte)
    <3>1. l \o c \in Seq(Byte) /\ more \o rx \in Seq(Byte)
      BY <1>2, <1>4, <2>2
    <3>2. l \o block = l \o c \o more
      BY <1>4, <2>2, Regroup
    <3>3. l \o c \o more \o rx = l \o c \o (more \o rx)
      <4> DEFINE m == l \o c
      <4>1. m \in Seq(Byte)
        BY <3>1
      <4> HIDE DEF m
      <4>2. m \o more \o rx = m \o (more \o rx)
        <5>1. more \in Seq(Byte) /\ rx \in Seq(Byte)
          BY <1>2, <1>4
        <5>2. QED
          BY <4>1, <5>1, Regroup
      <4>3. QED
        BY <4>2 DEF m
    <3>4. QED
      BY <3>1, <3>2, <3>3
  <2>4. QED
    BY <2>1, <2>3 DEF l
<1>7. Seen' = <<>> /\ Body' = Body
  BY <1>1 DEF Seen, Body
<1>8. CrcTells /\ internal' = "crc_and_postamble_ok" => <<header, Body>> \in HostPackets
  <2> SUFFICES ASSUME CrcTells, c = CrcOf(Covered) PROVE <<header, Body>> \in HostPackets
    BY <1>1
  <2>1. c = CrcOf(CoveredOf(header, Body \o old))
    BY <1>5 DEF Covered
  <2> HIDE DEF c, more, old
  <2>2. QED
    BY <1>2, <1>3, <1>4, <1>5, <1>6, <2>1, CrcTellsFrame
<1>9. QED
  BY <1>1, <1>7, <1>8, FrameFacts DEF FrameInv, AckDue

(* The next state's wait starts with what the last one's ended with.       *)
LEMMA AdvanceFrame ==
  Inv /\ VerdictInv /\ FrameInv /\ (PreambleOk \/ HeaderOk \/ PayloadOk) => FrameInv'
<1> SUFFICES ASSUME Inv, VerdictInv, FrameInv, PreambleOk \/ HeaderOk \/ PayloadOk
             PROVE  FrameInv'
  OBVIOUS
<1>1. /\ pc = "react" /\ block = <<>> /\ internal' = "invalid" /\ state' # "packet_ready"
      /\ UNCHANGED <<header, payload, rx, pc, block, coming, mishaps>>
  BY DEF PreambleOk, HeaderOk, PayloadOk, Reacting, SetNextState, history, Inv, ReadInv
<1>2. ~AckDue'
  BY <1>1 DEF AckDue
<1>3. Body' = Body
  BY <1>1 DEF Body
<1>4. Seen' = Lead' \o <<>>
  BY <1>1 DEF Seen
<1>5. header \in Seq(Byte) /\ payload \in Seq(Byte)
  BY DEF Inv, TypeOK
<1>6. CASE PreambleOk
  <2>1. internal = "preamble_ok" /\ state' = "header_proc"
    BY <1>6 DEF PreambleOk, Reacting, SetNextState
  <2>2. Seen = PREAMBLE /\ Lead' = PREAMBLE
    BY <2>1 DEF Seen, Lead
  <2>3. Seen' = Seen
    BY <1>4, <2>2
  <2>4. QED
    BY <1>1, <1>2, <2>3, ReactFrame
<1>7. CASE HeaderOk
  <2>1. /\ state = "header_proc" /\ internal = "header_ok"
        /\ state' = IF PayloadLen(header) > 0 THEN "payload_proc" ELSE "crc_and_postamble_proc"
    BY <1>7 DEF HeaderOk, Reacting, SetNextState
  <2>2. Seen = PREAMBLE \o header /\ PREAMBLE \o header \in Seq(Byte)
    BY <1>5, <2>1, Joined DEF Seen
  <2>3. CASE PayloadLen(header) > 0
    <3>1. Lead' = PREAMBLE \o header
      BY <1>1, <2>1, <2>3 DEF Lead
    <3>2. Seen' = Seen
      BY <1>4, <2>2, <3>1
    <3>3. QED
      BY <1>1, <1>2, <3>2, ReactFrame
  <2>4. CASE ~(PayloadLen(header) > 0)
    <3>1. PayloadLen(header) = 0
      BY <2>1, <2>4, BodyType DEF HeaderJudged
    <3>2. Body = <<>>
      BY <1>5, <3>1 DEF Body
    <3>3. Lead' = PREAMBLE \o header \o Body
      BY <1>1, <1>3, <2>1, <2>4 DEF Lead
    <3>4. Seen' = Seen
      BY <1>4, <2>2, <3>2, <3>3
    <3>5. QED
      BY <1>1, <1>2, <3>4, ReactFrame
  <2>5. QED
    BY <2>3, <2>4
<1>8. CASE PayloadOk
  <2>1. state = "payload_proc" /\ internal = "payload_ok" /\ state' = "crc_and_postamble_proc"
    BY <1>8 DEF PayloadOk, Reacting, SetNextState
  <2>2. Seen = PREAMBLE \o header \o Body /\ Lead' = PREAMBLE \o header \o Body
    BY <1>1, <1>3, <2>1 DEF Seen, Lead
  <2>3. Seen \in Seq(Byte)
    BY SeenType
  <2>4. Seen' = Seen
    BY <1>4, <2>2, <2>3
  <2>5. QED
    BY <1>1, <1>2, <2>4, ReactFrame
<1>9. QED
  BY <1>6, <1>7, <1>8

(* Back to wait for a preamble; a timeout forgets the buffer too.          *)
LEMMA ReturnFrame ==
  ASSUME Inv, VerdictInv, FrameInv,
         HeaderFailed \/ PayloadFailed \/ CrcAndPostambleFailed \/ PacketProcessed
  PROVE  FrameInv'
<1>1. /\ pc = "react" /\ block = <<>> /\ internal' = "invalid" /\ state' = "preamble_proc"
      /\ UNCHANGED <<pc, block, coming>> /\ rx' \in {rx, <<>>}
      /\ mishaps \subseteq mishaps'
  BY DEF HeaderFailed, PayloadFailed, CrcAndPostambleFailed, PacketProcessed,
     Reacting, SetNextState, Nack, history, Inv, ReadInv
<1>2. ~AckDue'
  BY <1>1 DEF AckDue
<1>3. Seen' = <<>> \o <<>>
  BY <1>1 DEF Seen, Lead
<1>4. Seen' = <<>>
  BY <1>3
<1>5. QED
  BY <1>1, <1>2, <1>4, ReactFrame

LEMMA CrcAndPostambleOkFrame ==
  Inv /\ VerdictInv /\ FrameInv /\ CrcAndPostambleOk => FrameInv'
<1> SUFFICES ASSUME Inv, VerdictInv, FrameInv, CrcAndPostambleOk, "overflow" \notin mishaps
             PROVE  FrameInv'
  BY DEF FrameInv, CrcAndPostambleOk, Ack
<1>1. /\ pc = "react" /\ state = "crc_and_postamble_proc" /\ internal = "crc_and_postamble_ok"
      /\ internal' = "invalid" /\ state' = "packet_ready"
      /\ UNCHANGED <<header, payload, rx, pc, block, coming, mishaps>>
  BY DEF CrcAndPostambleOk, Reacting, SetNextState, Ack
<1>2. (CrcTells => <<header, Body>> \in HostPackets) /\ Body' = Body
  BY <1>1, FrameFacts DEF AckDue, Body
<1>3. Seen' = <<>>
  BY <1>1 DEF Seen
<1>4. QED
  BY <1>1, <1>2, <1>3, FrameFacts DEF FrameInv

LEMMA NextFrame ==
  Inv /\ VerdictInv /\ FrameInv /\ [Next]_vars => FrameInv'
<1> SUFFICES ASSUME Inv, VerdictInv, FrameInv, [Next]_vars PROVE FrameInv'
  OBVIOUS
<1>1. CASE SysTick \/ SetExtEvent \/ UNCHANGED vars
  BY <1>1, QuietFrame DEF SysTick, SetExtEvent, vars, handle, history
<1>2. CASE JudgePreamble \/ JudgeHeader \/ JudgePayload \/ JudgeCrcAndPostamble
  BY <1>2, JudgePreambleFrame, JudgeHeaderFrame, JudgePayloadFrame, JudgeCrcAndPostambleFrame
<1>3. QED
  BY <1>1, <1>2, ArriveFrame, BeginReadFrame, GetFrame, AdvanceFrame, ReturnFrame,
     CrcAndPostambleOkFrame DEF Next, Run

LEMMA FrameInvariance == Spec => [](Inv /\ VerdictInv /\ FrameInv)
BY Invariance, InitVerdict, NextVerdict, InitFrame, NextFrame, PTL DEF Spec

(* README, Acknowledge Frame and Packet Integrity: whatever bytes are lost *)
(* or late and wherever a timeout throws the buffer away, the fields that  *)
(* are acknowledged came one after the other, so a CRC that tells damaged  *)
(* packets of these streams lets none pass: an acknowledged packet is one  *)
(* the host sent - unless the interrupt emptied a full buffer.             *)
THEOREM AcksIntact == CrcTells => (Spec => []AckedIntact)
<1> SUFFICES ASSUME CrcTells PROVE Spec => []AckedIntact
  OBVIOUS
<1>1. FrameInv => AckedIntact
  BY DEF FrameInv, AckDue, AckedIntact, Body
<1>2. QED
  BY <1>1, FrameInvariance, PTL

-----------------------------------------------------------------------------
(* A stream of intact frames and noise                                     *)

(* What is left of such a stream.                                          *)
Left(t, len) == \E rest \in Seq(Seq(Byte)) : MadeOf(t, len, rest)

(* Of a frame, what follows its preamble, its header, its payload.         *)
HeaderNext(t, len) ==
  \E h, p, c, r \in Seq(Byte) :
    /\ IsPacket(h, p, c, len) /\ Left(r, len)
    /\ t = h \o (p \o (c \o (POSTAMBLE \o r)))

PayloadNext(t, h, len) ==
  \E p, c, r \in Seq(Byte) :
    /\ IsPacket(h, p, c, len) /\ Left(r, len)
    /\ t = p \o (c \o (POSTAMBLE \o r))

CrcNext(t, h, p, len) ==
  \E c, r \in Seq(Byte) :
    /\ IsPacket(h, p, c, len) /\ Left(r, len)
    /\ t = c \o (POSTAMBLE \o r)

LEMMA ZerosType == ASSUME NEW n \in Nat PROVE Zeros(n) \in Seq(Byte) /\ Len(Zeros(n)) = n
BY DEF Zeros

LEMMA PacketType ==
  ASSUME NEW len \in 0..MAX_PAYLOAD_SIZE, NEW h, NEW p, NEW c, IsPacket(h, p, c, len)
  PROVE  /\ h \in Seq(Byte) /\ Len(h) = HEADER_SIZE_BYTES
         /\ p \in Seq(Byte) /\ Len(p) = len
         /\ c \in Seq(Byte) /\ Len(c) = CRC_SIZE_BYTES
BY DEF IsPacket

LEMMA SameFront ==
  ASSUME NEW a \in Seq(Byte), NEW x \in Seq(Byte), NEW b \in Seq(Byte), NEW y \in Seq(Byte),
         Len(a) = Len(b), a \o x = b \o y
  PROVE  a = b /\ x = y
<1>1. SubSeq(a \o x, 1, Len(a)) = a /\ SubSeq(b \o y, 1, Len(b)) = b
  BY SubSeqOfConcat1
<1>2. a = b
  BY <1>1
<1>3. Len(a \o x) = Len(a) + Len(x) /\ Len(b \o y) = Len(b) + Len(y)
  BY Joined
<1>4. Len(x) = Len(y)
  BY <1>3
<1>5. SubSeq(a \o x, Len(a) + 1, Len(a) + Len(x)) = x
  BY LastField
<1>6. SubSeq(b \o y, Len(b) + 1, Len(b) + Len(y)) = y
  BY LastField
<1>7. QED
  BY <1>2, <1>4, <1>5, <1>6

LEMMA InFront ==
  ASSUME NEW a \in Seq(Byte), NEW x \in Seq(Byte), NEW i \in 1..Len(a)
  PROVE  (a \o x)[i] = a[i]
BY ConcatProperties

LEMMA TailType ==
  ASSUME NEW p \in Seq(Byte), NEW c \in Seq(Byte), NEW r \in Seq(Byte)
  PROVE  /\ POSTAMBLE \o r \in Seq(Byte) /\ c \o (POSTAMBLE \o r) \in Seq(Byte)
         /\ p \o (c \o (POSTAMBLE \o r)) \in Seq(Byte)
<1>1. POSTAMBLE \o r \in Seq(Byte)
  BY Joined
<1> DEFINE x == POSTAMBLE \o r
<1>2. x \in Seq(Byte)
  BY <1>1
<1> HIDE DEF x
<1>3. c \o x \in Seq(Byte)
  BY <1>2, Joined
<1> DEFINE y == c \o x
<1>4. y \in Seq(Byte)
  BY <1>3
<1> HIDE DEF y
<1>5. p \o y \in Seq(Byte)
  BY <1>4, Joined
<1>6. QED
  BY <1>1, <1>3, <1>5 DEF x, y

(* The first piece of what is left.                                        *)
LEMMA LeftFirst ==
  ASSUME NEW len, NEW t \in Seq(Byte), t # <<>>, Left(t, len)
  PROVE  \E r \in Seq(Byte) : (FrameThen(t, len, r) \/ NoiseThen(t, r)) /\ Left(r, len)
<1>1. PICK rest \in Seq(Seq(Byte)) : MadeOf(t, len, rest)
  BY DEF Left
<1> DEFINE n == Len(rest)
           more == Tail(rest)
           r == rest[2]
           Piece(a, b) == FrameThen(a, len, b) \/ NoiseThen(a, b)
<1> HIDE DEF Piece
<1>2. /\ rest # <<>> /\ rest[1] = t /\ rest[n] = <<>>
      /\ \A k \in 1..(n - 1) : Piece(rest[k], rest[k + 1])
  BY <1>1 DEF MadeOf, Piece
<1>3. n \in Nat /\ n >= 2
  BY <1>2
<1>4. r \in Seq(Byte)
  BY <1>3
<1>5. Piece(t, r)
  <2>1. 1 \in 1..(n - 1) /\ 1 + 1 = 2
    BY <1>3
  <2>2. QED
    BY <1>2, <2>1
<1>6. more \in Seq(Seq(Byte)) /\ Len(more) = n - 1 /\ \A k \in 1..(n - 1) : more[k] = rest[k + 1]
  BY <1>2, <1>3
<1> HIDE DEF more
<1>7. more # <<>> /\ more[1] = r
  BY <1>3, <1>6
<1>8. more[Len(more)] = <<>>
  <2>1. n - 1 \in 1..(n - 1) /\ (n - 1) + 1 = n
    BY <1>3
  <2>2. QED
    BY <1>2, <1>6, <2>1
<1>9. ASSUME NEW k \in 1..(Len(more) - 1) PROVE Piece(more[k], more[k + 1])
  <2>1. k \in 1..(n - 1) /\ k + 1 \in 1..(n - 1)
    BY <1>3, <1>6
  <2>2. more[k] = rest[k + 1] /\ more[k + 1] = rest[(k + 1) + 1]
    BY <1>6, <2>1
  <2>3. QED
    BY <1>2, <2>1, <2>2
<1>10. MadeOf(r, len, more)
  BY <1>7, <1>8, <1>9 DEF MadeOf, Piece
<1>11. Left(r, len)
  BY <1>6, <1>10 DEF Left
<1>12. QED
  BY <1>4, <1>5, <1>11 DEF Piece

(* A preamble is that of a frame.                                          *)
LEMMA PreambleFirst ==
  ASSUME NEW len \in 0..MAX_PAYLOAD_SIZE, NEW x \in Seq(Byte), Left(PREAMBLE \o x, len)
  PROVE  HeaderNext(x, len)
<1> DEFINE t == PREAMBLE \o x
<1>1. t \in Seq(Byte) /\ t # <<>>
  <2>1. Len(PREAMBLE) > 0
    BY PreambleAssumption
  <2>2. t \in Seq(Byte) /\ Len(t) = Len(PREAMBLE) + Len(x)
    BY Joined
  <2>3. QED
    BY <2>1, <2>2
<1>2. PICK r \in Seq(Byte) : (FrameThen(t, len, r) \/ NoiseThen(t, r)) /\ Left(r, len)
  BY <1>1, LeftFirst, Zenon
<1>3. ~NoiseThen(t, r)
  <2> SUFFICES ASSUME NoiseThen(t, r) PROVE FALSE
    OBVIOUS
  <2>1. PICK n \in 1..Len(PREAMBLE) : t[n] # PREAMBLE[n]
    BY DEF NoiseThen
  <2>2. QED
    BY <2>1, InFront
<1>4. PICK h, p, c :
        IsPacket(h, p, c, len) /\ t = PREAMBLE \o (h \o (p \o (c \o (POSTAMBLE \o r))))
  BY <1>2, <1>3 DEF FrameThen
<1>5. h \in Seq(Byte) /\ p \in Seq(Byte) /\ c \in Seq(Byte)
  BY <1>4, PacketType
<1> DEFINE u == p \o (c \o (POSTAMBLE \o r))
           v == h \o u
<1>6. u \in Seq(Byte)
  BY <1>5, TailType
<1> HIDE DEF u
<1>7. v \in Seq(Byte)
  BY <1>5, <1>6, Joined
<1>8. PREAMBLE \o x = PREAMBLE \o v
  BY <1>4 DEF u
<1> HIDE DEF v, t
<1>9. x = v
  BY <1>7, <1>8, SameFront
<1>10. QED
  BY <1>2, <1>4, <1>5, <1>9 DEF u, v, HeaderNext

(* What the match drops at its n-th byte is one piece of noise.            *)
LEMMA NoiseFirst ==
  ASSUME NEW len \in 0..MAX_PAYLOAD_SIZE, NEW b \in Seq(Byte), NEW x \in Seq(Byte),
         Len(b) \in 1..Len(PREAMBLE), b[Len(b)] # PREAMBLE[Len(b)],
         \A i \in 1..(Len(b) - 1) : b[i] = PREAMBLE[i],
         Left(b \o x, len)
  PROVE  Left(x, len)
<1> DEFINE t == b \o x
           m == Len(b)
<1>1. /\ t \in Seq(Byte) /\ t # <<>> /\ Len(t) = m + Len(x)
      /\ \A i \in 1..m : t[i] = b[i]
  <2>1. Len(t) = Len(b) + Len(x) /\ t \in Seq(Byte)
    BY Joined
  <2>2. QED
    BY <2>1, InFront
<1>2. SubSeq(t, m + 1, m + Len(x)) = x
  BY LastField
<1>3. Left(t, len)
  OBVIOUS
<1>4. /\ m \in 1..Len(PREAMBLE) /\ m \in 1..m /\ b[m] # PREAMBLE[m]
      /\ \A i \in 1..(m - 1) : b[i] = PREAMBLE[i]
  OBVIOUS
<1> HIDE DEF t, m
<1>5. PICK r \in Seq(Byte) : (FrameThen(t, len, r) \/ NoiseThen(t, r)) /\ Left(r, len)
  BY <1>1, <1>3, LeftFirst, Zenon
<1>6. ~FrameThen(t, len, r)
  <2> SUFFICES ASSUME FrameThen(t, len, r) PROVE FALSE
    OBVIOUS
  <2>1. PICK h, p, c :
          IsPacket(h, p, c, len) /\ t = PREAMBLE \o (h \o (p \o (c \o (POSTAMBLE \o r))))
    BY DEF FrameThen
  <2>2. h \in Seq(Byte) /\ p \in Seq(Byte) /\ c \in Seq(Byte)
    BY <2>1, PacketType
  <2> DEFINE u == p \o (c \o (POSTAMBLE \o r))
             v == h \o u
  <2>3. u \in Seq(Byte)
    BY <2>2, TailType
  <2> HIDE DEF u
  <2>4. v \in Seq(Byte)
    BY <2>2, <2>3, Joined
  <2>5. t = PREAMBLE \o v
    BY <2>1 DEF u
  <2> HIDE DEF v
  <2>6. t[m] = PREAMBLE[m]
    BY <1>4, <2>4, <2>5, InFront
  <2>7. QED
    BY <1>1, <1>4, <2>6
<1>7. PICK n \in 1..Len(PREAMBLE) :
        /\ n <= Len(t) /\ t[n] # PREAMBLE[n]
        /\ \A i \in 1..(n - 1) : t[i] = PREAMBLE[i]
        /\ r = SubSeq(t, n + 1, Len(t))
  BY <1>5, <1>6 DEF NoiseThen
<1>8. ~(n < m)
  <2> SUFFICES ASSUME n < m PROVE FALSE
    OBVIOUS
  <2>1. n \in 1..(m - 1) /\ n \in 1..m
    BY <1>4
  <2>2. QED
    BY <1>1, <1>4, <1>7, <2>1
<1>9. ~(m < n)
  <2> SUFFICES ASSUME m < n PROVE FALSE
    OBVIOUS
  <2>1. m \in 1..(n - 1)
    BY <1>4
  <2>2. QED
    BY <1>1, <1>4, <1>7, <2>1
<1>10. m = n
  BY <1>4, <1>8, <1>9
<1>11. QED
  BY <1>1, <1>2, <1>5, <1>7, <1>10

-----------------------------------------------------------------------------
(* A host that sends intact packets                                        *)

(* What it has sent or has to send, from what this read took on.           *)
Rest == rx \o coming
Stream == block \o Rest

(* What the machine waits for, or has just accepted, is what comes.        *)
InStep(len) ==
  LET Is(in, event) == state = in /\ internal = event
      body == SubSeq(payload, 1, len)
  IN  /\ Is("preamble_proc", "invalid")     => Left(Stream, len)
      /\ Is("preamble_proc", "preamble_ok") => HeaderNext(Stream, len)
      /\ Is("header_proc", "invalid")       => HeaderNext(Stream, len)
      /\ Is("header_proc", "header_ok")     => PayloadNext(Stream, header, len)
      /\ Is("payload_proc", "invalid")      => PayloadNext(Stream, header, len)
      /\ Is("payload_proc", "payload_ok")   => CrcNext(Stream, header, body, len)
      /\ Is("crc_and_postamble_proc", "invalid") => CrcNext(Stream, header, body, len)
      /\ AckDue => Left(Stream, len)

(* What a read of the preamble goes on from.                               *)
Matched ==
  pc = "read" /\ state = "preamble_proc" =>
    \A i \in 1..(Len(block) - 1) : block[i] = PREAMBLE[i]

Clean(len) ==
  /\ reply # "nack" /\ internal \notin {"header_error", "crc_error"}
  /\ Matched
  /\ \A i \in (len + 1)..MAX_PAYLOAD_SIZE : payload[i] = 0
  /\ InStep(len)

(* All packets have payloads of one length, so what is behind a payload in *)
(* memory is as zero as it was at the start and as it is for the sender.   *)
CleanInv ==
  mishaps = {} => \E len \in 0..MAX_PAYLOAD_SIZE : Clean(len)

LEMMA RestType ==
  Inv => /\ rx \in Seq(Byte) /\ coming \in Seq(Byte) /\ block \in Seq(Byte)
         /\ Rest \in Seq(Byte)
<1>1. Inv => rx \in Seq(Byte) /\ coming \in Seq(Byte) /\ block \in Seq(Byte)
  BY DEF Inv, TypeOK, ComingInv
<1>2. QED
  BY <1>1, Joined DEF Rest

LEMMA EmptyFront == ASSUME NEW s \in Seq(Byte) PROVE <<>> \o s = s
OBVIOUS

(* Between reads the stream is what is buffered and what is to come.       *)
LEMMA StreamReact == Inv /\ pc = "react" => Stream = Rest
BY RestType, EmptyFront DEF Inv, ReadInv, Stream

LEMMA InitClean == Init /\ Intact(coming) => CleanInv
<1> SUFFICES ASSUME Init, Intact(coming) PROVE CleanInv
  OBVIOUS
<1>1. PICK len \in 0..MAX_PAYLOAD_SIZE : Left(coming, len)
  BY DEF Intact, Left
<1>2. Inv /\ pc = "react" /\ rx = <<>>
  BY InitInv DEF Init
<1>3. Stream = coming
  BY <1>2, StreamReact, RestType, EmptyFront DEF Rest
<1>4. InStep(len)
  BY <1>1, <1>3 DEF Init, InStep, AckDue
<1>5. \A i \in (len + 1)..MAX_PAYLOAD_SIZE : payload[i] = 0
  BY DEF Init, Zeros
<1>6. Clean(len)
  BY <1>4, <1>5 DEF Init, Clean, Matched
<1>7. QED
  BY <1>6 DEF CleanInv

(* Steps that keep the stream.                                             *)
LEMMA SameClean ==
  ASSUME NEW len \in 0..MAX_PAYLOAD_SIZE, Clean(len), Stream' = Stream,
         UNCHANGED <<state, internal, header, payload, pc, block, reply>>
  PROVE  Clean(len)'
<1>1. InStep(len)'
  BY DEF Clean, InStep, AckDue
<1>2. QED
  BY <1>1 DEF Clean, Matched

LEMMA ArriveClean ==
  ASSUME Inv, NEW len \in 0..MAX_PAYLOAD_SIZE, Clean(len), Arrive, mishaps' = {}
  PROVE  Clean(len)'
<1>1. /\ coming # <<>> /\ coming' = Tail(coming)
      /\ rx' = Append(rx, Head(coming))
      /\ UNCHANGED <<state, internal, header, payload, pc, block, reply>>
  BY DEF Arrive, handle
<1>2. rx \in Seq(Byte) /\ coming \in Seq(Byte)
  BY RestType
<1>3. Append(rx, Head(coming)) \o Tail(coming) = rx \o coming
  BY <1>1, <1>2
<1>4. Stream' = Stream
  BY <1>1, <1>3 DEF Stream, Rest
<1>5. QED
  BY <1>1, <1>4, SameClean

LEMMA BeginReadClean ==
  ASSUME Inv, NEW len \in 0..MAX_PAYLOAD_SIZE, Clean(len), BeginRead
  PROVE  Clean(len)'
<1>1. /\ block = <<>> /\ UNCHANGED <<state, internal, header, payload, rx, block, coming, reply>>
  BY DEF BeginRead, handle, history, Inv, ReadInv
<1>2. Stream' = Stream
  BY <1>1 DEF Stream, Rest
<1>3. InStep(len)'
  BY <1>1, <1>2 DEF Clean, InStep, AckDue
<1>4. QED
  BY <1>1, <1>3 DEF Clean, Matched

(* Where nothing is lost, a read finds the bytes it was started for.       *)
LEMMA GetClean ==
  ASSUME Inv, FrameInv, mishaps = {}, GetByte \/ GetNothing,
         NEW len \in 0..MAX_PAYLOAD_SIZE, Clean(len)
  PROVE  Clean(len)'
<1>1. /\ pc = "read" /\ state # "packet_ready" /\ ~ReadOver /\ ~(Len(block) >= Needed)
      /\ Len(block) + Len(rx) >= Needed
  BY DEF GetByte, GetNothing, ReadOver, Inv, ReadInv, FrameInv
<1>2. /\ block \in Seq(Byte) /\ rx \in Seq(Byte) /\ coming \in Seq(Byte) /\ Needed \in Nat
  BY <1>1, NeededType, RestType
<1>3. rx # <<>>
  <2> DEFINE n == Needed
  <2>1. n \in Nat /\ Len(block) + Len(rx) >= n /\ ~(Len(block) >= n)
    BY <1>1, <1>2
  <2> HIDE DEF n
  <2>2. QED
    BY <1>2, <2>1
<1>4. /\ block' = Append(block, Head(rx)) /\ rx' = Tail(rx)
      /\ UNCHANGED <<state, internal, header, payload, pc, coming, reply>>
  BY <1>3 DEF GetByte, GetNothing, handle, history
<1>5. Stream' = Stream
  <2> DEFINE taken == Append(block, Head(rx))
             tail == Tail(rx)
  <2>1. taken \in Seq(Byte) /\ tail \in Seq(Byte) /\ taken \o tail = block \o rx
    BY <1>2, <1>3
  <2> HIDE DEF taken, tail
  <2>2. (taken \o tail) \o coming = taken \o (tail \o coming)
    <3>1. taken \in Seq(Byte) /\ tail \in Seq(Byte) /\ coming \in Seq(Byte)
      BY <1>2, <2>1
    <3>2. QED
      BY ONLY <3>1, Regroup
  <2>3. (block \o rx) \o coming = block \o (rx \o coming)
    <3>1. block \in Seq(Byte) /\ rx \in Seq(Byte) /\ coming \in Seq(Byte)
      BY <1>2
    <3>2. QED
      BY ONLY <3>1, Regroup
  <2>4. QED
    BY <1>4, <2>1, <2>2, <2>3 DEF Stream, Rest, taken, tail
<1>6. Matched'
  <2> SUFFICES ASSUME state = "preamble_proc", NEW i \in 1..(Len(block') - 1)
               PROVE  block'[i] = PREAMBLE[i]
    BY <1>4 DEF Matched
  <2>1. Head(rx) \in Byte
    BY <1>2, <1>3
  <2>2. i \in 1..Len(block) /\ block'[i] = block[i]
    BY <1>2, <1>4, <2>1
  <2>3. CASE i = Len(block)
    <3>1. block # <<>> /\ Last(block) = block[i]
      BY <2>2, <2>3 DEF Last
    <3>2. QED
      BY <1>1, <2>2, <2>3, <3>1 DEF ReadOver
  <2>4. CASE i # Len(block)
    <3>1. i \in 1..(Len(block) - 1)
      BY <1>2, <2>2, <2>4
    <3>2. QED
      BY <1>1, <2>2, <3>1 DEF Clean, Matched
  <2>5. QED
    BY <2>3, <2>4
<1>7. InStep(len)'
  BY <1>4, <1>5 DEF Clean, InStep, AckDue
<1>8. QED
  BY <1>4, <1>6, <1>7 DEF Clean

(* The fields of an intact frame are accepted one after the other.         *)
LEMMA HeaderTaken ==
  ASSUME NEW len \in 0..MAX_PAYLOAD_SIZE, NEW b \in Seq(Byte), NEW x \in Seq(Byte),
         Len(b) = HEADER_SIZE_BYTES, HeaderNext(b \o x, len)
  PROVE  ValidHeader(b) /\ PayloadNext(x, b, len)
<1>1. PICK h, p, c, r \in Seq(Byte) :
        /\ IsPacket(h, p, c, len) /\ Left(r, len)
        /\ b \o x = h \o (p \o (c \o (POSTAMBLE \o r)))
  BY DEF HeaderNext
<1> DEFINE u == p \o (c \o (POSTAMBLE \o r))
<1>2. u \in Seq(Byte) /\ Len(h) = HEADER_SIZE_BYTES
  BY <1>1, TailType, PacketType
<1>3. b \o x = h \o u
  BY <1>1
<1> HIDE DEF u
<1>4. b = h /\ x = u
  BY <1>2, <1>3, SameFront
<1>5. ValidHeader(b)
  BY <1>1, <1>4 DEF IsPacket
<1>6. PayloadNext(x, b, len)
  BY <1>1, <1>4 DEF PayloadNext, u
<1>7. QED
  BY <1>5, <1>6

LEMMA PayloadTaken ==
  ASSUME NEW len \in 0..MAX_PAYLOAD_SIZE, NEW b \in Seq(Byte), NEW x \in Seq(Byte), NEW h,
         Len(b) = len, PayloadNext(b \o x, h, len)
  PROVE  CrcNext(x, h, b, len)
<1>1. PICK p, c, r \in Seq(Byte) :
        /\ IsPacket(h, p, c, len) /\ Left(r, len)
        /\ b \o x = p \o (c \o (POSTAMBLE \o r))
  BY DEF PayloadNext
<1> DEFINE u == c \o (POSTAMBLE \o r)
<1>2. u \in Seq(Byte) /\ Len(p) = len
  BY <1>1, TailType, PacketType
<1>3. b \o x = p \o u
  BY <1>1
<1> HIDE DEF u
<1>4. b = p /\ x = u
  BY <1>2, <1>3, SameFront
<1>5. QED
  BY <1>1, <1>4 DEF CrcNext, u

LEMMA CrcTaken ==
  ASSUME NEW len \in 0..MAX_PAYLOAD_SIZE, NEW b \in Seq(Byte), NEW x \in Seq(Byte),
         NEW h, NEW p, Len(b) = CRC_SIZE_BYTES + Len(POSTAMBLE), CrcNext(b \o x, h, p, len)
  PROVE  /\ SubSeq(b, 1, CRC_SIZE_BYTES)
              = CrcOf(CoveredOf(h, p \o Zeros(MAX_PAYLOAD_SIZE - len)))
         /\ Left(x, len)
<1>1. PICK c, r \in Seq(Byte) :
        /\ IsPacket(h, p, c, len) /\ Left(r, len)
        /\ b \o x = c \o (POSTAMBLE \o r)
  BY DEF CrcNext
<1>2. Len(c) = CRC_SIZE_BYTES
  BY <1>1, PacketType
<1>3. (c \o POSTAMBLE) \o r = c \o (POSTAMBLE \o r)
  <2>1. c \in Seq(Byte) /\ POSTAMBLE \in Seq(Byte) /\ r \in Seq(Byte)
    OBVIOUS
  <2>2. QED
    BY ONLY <2>1, Regroup
<1> DEFINE front == c \o POSTAMBLE
<1>4. front \in Seq(Byte) /\ Len(front) = CRC_SIZE_BYTES + Len(POSTAMBLE) /\ b \o x = front \o r
  BY <1>1, <1>2, <1>3, Joined
<1>5. SubSeq(front, 1, CRC_SIZE_BYTES) = c
  BY <1>2, SubSeqOfConcat1
<1> HIDE DEF front
<1>6. b = front /\ x = r
  BY <1>4, SameFront
<1>7. c = CrcOf(CoveredOf(h, p \o Zeros(MAX_PAYLOAD_SIZE - len)))
  BY <1>1 DEF IsPacket
<1>8. QED
  BY <1>1, <1>5, <1>6, <1>7

LEMMA JudgedStream ==
  ASSUME Inv, NEW event, Judged(event)
  PROVE  Stream' = Rest
<1>1. rx' = rx /\ coming' = coming /\ block' = <<>>
  BY DEF Judged
<1>2. QED
  BY <1>1, RestType, EmptyFront DEF Stream, Rest

LEMMA JudgePreambleClean ==
  ASSUME Inv, VerdictInv, JudgePreamble, NEW len \in 0..MAX_PAYLOAD_SIZE, Clean(len)
  PROVE  Clean(len)'
<1>1. /\ pc = "read" /\ state = "preamble_proc" /\ internal = "invalid" /\ ReadOver
      /\ pc' = "react" /\ block' = <<>>
      /\ UNCHANGED <<state, header, payload, rx, coming, reply>>
      /\ internal' = IF block = PREAMBLE THEN "preamble_ok" ELSE "invalid"
  BY DEF JudgePreamble, Judged, VerdictInv, history
<1>2. block \in Seq(Byte) /\ Rest \in Seq(Byte) /\ Len(block) <= Len(PREAMBLE)
  BY <1>1, RestType DEF Inv, ReadInv, Needed
<1>3. Left(block \o Rest, len)
  BY <1>1 DEF Clean, InStep, Stream
<1>4. Stream' = Rest
  BY JudgedStream DEF JudgePreamble
<1>5. InStep(len)'
  <2>1. CASE block = PREAMBLE
    <3>1. HeaderNext(Rest, len)
      BY <1>2, <1>3, <2>1, PreambleFirst
    <3>2. QED
      BY <1>1, <1>4, <2>1, <3>1 DEF InStep, AckDue
  <2>2. CASE block # PREAMBLE
    <3>1. \A i \in 1..(Len(block) - 1) : block[i] = PREAMBLE[i]
      BY <1>1 DEF Clean, Matched
    <3>2. Len(block) \in 1..Len(PREAMBLE) /\ block[Len(block)] # PREAMBLE[Len(block)]
      <4>1. CASE Len(block) >= Needed
        <5>1. Len(block) = Len(PREAMBLE)
          BY <1>1, <1>2, <4>1 DEF Needed
        <5>2. Len(PREAMBLE) > 0
          BY PreambleAssumption
        <5>3. block[Len(block)] # PREAMBLE[Len(block)]
          <6> SUFFICES ASSUME block[Len(block)] = PREAMBLE[Len(block)] PROVE FALSE
            OBVIOUS
          <6>1. \A i \in 1..Len(block) : block[i] = PREAMBLE[i]
            <7> SUFFICES ASSUME NEW i \in 1..Len(block) PROVE block[i] = PREAMBLE[i]
              OBVIOUS
            <7>1. i = Len(block) \/ i \in 1..(Len(block) - 1)
              BY <1>2
            <7>2. QED
              BY <3>1, <7>1
          <6>2. block = PREAMBLE
            BY <1>2, <5>1, <6>1, SeqEqual
          <6>3. QED
            BY <2>2, <6>2
        <5>4. QED
          BY <1>2, <5>1, <5>2, <5>3
      <4>2. CASE ~(Len(block) >= Needed)
        <5>1. block # <<>> /\ Last(block) # PREAMBLE[Len(block)]
          BY <1>1, <4>2 DEF ReadOver
        <5>2. QED
          BY <1>2, <5>1 DEF Last
      <4>3. QED
        BY <4>1, <4>2
    <3>3. Left(Rest, len)
      BY <1>2, <1>3, <3>1, <3>2, NoiseFirst
    <3>4. QED
      BY <1>1, <1>4, <2>2, <3>3 DEF InStep, AckDue
  <2>3. QED
    BY <2>1, <2>2
<1>6. QED
  BY <1>1, <1>5 DEF Clean, Matched

LEMMA JudgeHeaderClean ==
  ASSUME Inv, VerdictInv, JudgeHeader, NEW len \in 0..MAX_PAYLOAD_SIZE, Clean(len)
  PROVE  Clean(len)'
<1>1. /\ pc = "read" /\ state = "header_proc" /\ internal = "invalid" /\ ReadOver
      /\ pc' = "react" /\ header' = block
      /\ UNCHANGED <<state, payload, reply>>
      /\ internal' = IF ValidHeader(header') THEN "header_ok" ELSE "header_error"
  BY DEF JudgeHeader, Judged, VerdictInv, history
<1>2. block \in Seq(Byte) /\ Rest \in Seq(Byte) /\ Len(block) = HEADER_SIZE_BYTES
  BY <1>1, RestType, SMTT(30) DEF Inv, ReadInv, ReadOver, Needed
<1>3. HeaderNext(block \o Rest, len)
  BY <1>1 DEF Clean, InStep, Stream
<1>4. ValidHeader(block) /\ PayloadNext(Rest, block, len)
  BY <1>2, <1>3, HeaderTaken
<1>5. Stream' = Rest
  BY JudgedStream DEF JudgeHeader
<1>6. InStep(len)'
  BY <1>1, <1>4, <1>5 DEF InStep, AckDue
<1>7. QED
  BY <1>1, <1>4, <1>6 DEF Clean, Matched

LEMMA JudgePayloadClean ==
  ASSUME Inv, VerdictInv, JudgePayload, NEW len \in 0..MAX_PAYLOAD_SIZE, Clean(len)
  PROVE  Clean(len)'
<1>1. /\ pc = "read" /\ state = "payload_proc" /\ internal = "invalid" /\ ReadOver
      /\ pc' = "react" /\ internal' = "payload_ok"
      /\ payload' = block \o SubSeq(payload, Needed + 1, MAX_PAYLOAD_SIZE)
      /\ UNCHANGED <<state, header, reply>>
  BY DEF JudgePayload, Judged, VerdictInv, history
<1>2. PayloadNext(block \o Rest, header, len)
  BY <1>1 DEF Clean, InStep, Stream
<1>3. PayloadLen(header) = len
  BY <1>2 DEF PayloadNext, IsPacket
<1>4. Needed = len
  BY <1>1, <1>3 DEF Needed
<1>5. block \in Seq(Byte) /\ Rest \in Seq(Byte) /\ Len(block) = len
  BY <1>1, <1>4, RestType DEF Inv, ReadInv, ReadOver
<1>6. CrcNext(Rest, header, block, len)
  BY <1>2, <1>5, PayloadTaken
<1> DEFINE old == SubSeq(payload, len + 1, MAX_PAYLOAD_SIZE)
<1>7. payload \in Seq(Byte) /\ Len(payload) = MAX_PAYLOAD_SIZE
  BY DEF Inv, TypeOK
<1>8. /\ old \in Seq(Byte) /\ Len(old) = MAX_PAYLOAD_SIZE - len
      /\ \A i \in 1..(MAX_PAYLOAD_SIZE - len) : old[i] = payload[len + i]
  BY <1>7
<1>9. payload' = block \o old
  BY <1>1, <1>4
<1>10. \A i \in (len + 1)..MAX_PAYLOAD_SIZE : payload[i] = 0
  BY DEF Clean
<1> HIDE DEF old
<1>11. SubSeq(payload', 1, len) = block
  BY <1>5, <1>8, <1>9, SubSeqOfConcat1
<1>12. \A i \in (len + 1)..MAX_PAYLOAD_SIZE : payload'[i] = 0
  <2> SUFFICES ASSUME NEW i \in (len + 1)..MAX_PAYLOAD_SIZE PROVE (block \o old)[i] = 0
    BY <1>9
  <2>1. i - len \in 1..(MAX_PAYLOAD_SIZE - len) /\ len + (i - len) = i
    OBVIOUS
  <2>2. (block \o old)[i] = old[i - len]
    BY <1>5, <1>8, <2>1
  <2>3. QED
    BY <1>8, <1>10, <2>1, <2>2
<1>13. Stream' = Rest
  BY JudgedStream DEF JudgePayload
<1>14. InStep(len)'
  BY <1>1, <1>6, <1>11, <1>13 DEF InStep, AckDue
<1>15. QED
  BY <1>1, <1>12, <1>14 DEF Clean, Matched

(* The packet in memory is the one the sender took the CRC of.             *)
LEMMA SameMemory ==
  ASSUME Inv, NEW len \in 0..MAX_PAYLOAD_SIZE, Clean(len)
  PROVE  payload = SubSeq(payload, 1, len) \o Zeros(MAX_PAYLOAD_SIZE - len)
<1> DEFINE n == MAX_PAYLOAD_SIZE - len
           z == SubSeq(payload, len + 1, MAX_PAYLOAD_SIZE)
<1>1. /\ payload \in Seq(Byte) /\ Len(payload) = MAX_PAYLOAD_SIZE /\ n \in Nat
      /\ \A i \in (len + 1)..MAX_PAYLOAD_SIZE : payload[i] = 0
  BY DEF Inv, TypeOK, Clean
<1>2. z \in Seq(Byte) /\ Len(z) = n /\ \A i \in 1..n : z[i] = payload[len + i]
  BY <1>1
<1>3. SubSeq(payload, 1, len) \o z = payload
  BY <1>1, CutInTwo
<1> HIDE DEF z
<1>4. \A i \in 1..n : z[i] = Zeros(n)[i]
  <2> SUFFICES ASSUME NEW i \in 1..n PROVE z[i] = 0
    BY DEF Zeros
  <2>1. len + i \in (len + 1)..MAX_PAYLOAD_SIZE
    BY <1>1
  <2>2. QED
    BY <1>1, <1>2, <2>1
<1>5. z = Zeros(n)
  BY <1>1, <1>2, <1>4, ZerosType, SeqEqual
<1>6. QED
  BY <1>3, <1>5

LEMMA JudgeCrcAndPostambleClean ==
  ASSUME Inv, VerdictInv, JudgeCrcAndPostamble, NEW len \in 0..MAX_PAYLOAD_SIZE, Clean(len)
  PROVE  Clean(len)'
<1> DEFINE body == SubSeq(payload, 1, len)
           recv_crc == SubSeq(block, 1, CRC_SIZE_BYTES)
<1>1. /\ pc = "read" /\ state = "crc_and_postamble_proc" /\ internal = "invalid" /\ ReadOver
      /\ pc' = "react"
      /\ internal' = IF recv_crc # CrcOf(Covered) THEN "crc_error" ELSE "crc_and_postamble_ok"
      /\ UNCHANGED <<state, header, payload, reply>>
  BY DEF JudgeCrcAndPostamble, Judged, VerdictInv, history
<1>2. CrcNext(block \o Rest, header, body, len)
  BY <1>1 DEF Clean, InStep, Stream
<1>3. /\ block \in Seq(Byte) /\ Rest \in Seq(Byte)
      /\ Len(block) = CRC_SIZE_BYTES + Len(POSTAMBLE)
  BY <1>1, RestType, SMTT(30) DEF Inv, ReadInv, ReadOver, Needed
<1> HIDE DEF body, recv_crc
<1>4. /\ recv_crc = CrcOf(CoveredOf(header, body \o Zeros(MAX_PAYLOAD_SIZE - len)))
      /\ Left(Rest, len)
  BY <1>2, <1>3, CrcTaken DEF recv_crc
<1>5. recv_crc = CrcOf(Covered)
  BY <1>4, SameMemory DEF Covered, body
<1>6. Stream' = Rest
  BY JudgedStream DEF JudgeCrcAndPostamble
<1>7. internal' = "crc_and_postamble_ok"
  BY <1>1, <1>5
<1>8. InStep(len)'
  BY <1>1, <1>4, <1>6, <1>7 DEF InStep, AckDue
<1>9. QED
  BY <1>1, <1>7, <1>8 DEF Clean, Matched

(* On to the next field; a payload of no bytes is passed over.             *)
LEMMA AdvanceClean ==
  ASSUME Inv, NEW len \in 0..MAX_PAYLOAD_SIZE, Clean(len),
         PreambleOk \/ HeaderOk \/ PayloadOk \/ CrcAndPostambleOk
  PROVE  Clean(len)'
<1>1. /\ pc = "react" /\ pc' = "react" /\ internal' = "invalid"
      /\ UNCHANGED <<header, payload, block, rx, coming>> /\ reply' \in {reply, "ack"}
  BY DEF PreambleOk, HeaderOk, PayloadOk, CrcAndPostambleOk, Reacting, SetNextState, Ack, history
<1>2. Stream' = Stream
  BY <1>1 DEF Stream, Rest
<1>3. InStep(len)'
  <2>1. CASE PreambleOk
    BY <1>1, <1>2, <2>1 DEF PreambleOk, Reacting, SetNextState, Clean, InStep, AckDue
  <2>2. CASE PayloadOk
    BY <1>1, <1>2, <2>2 DEF PayloadOk, Reacting, SetNextState, Clean, InStep, AckDue
  <2>3. CASE CrcAndPostambleOk
    BY <1>1, <1>2, <2>3 DEF CrcAndPostambleOk, Reacting, SetNextState, Clean, InStep, AckDue
  <2>4. CASE HeaderOk
    <3>1. /\ state = "header_proc" /\ internal = "header_ok"
          /\ state' = IF PayloadLen(header) > 0 THEN "payload_proc" ELSE "crc_and_postamble_proc"
      BY <2>4 DEF HeaderOk, Reacting, SetNextState
    <3>2. PayloadNext(Stream, header, len)
      BY <3>1 DEF Clean, InStep
    <3>3. PayloadLen(header) = len
      BY <3>2 DEF PayloadNext, IsPacket
    <3>4. CASE len > 0
      BY <1>1, <1>2, <3>1, <3>2, <3>3, <3>4 DEF InStep, AckDue
    <3>5. CASE ~(len > 0)
      <4>1. len = 0 /\ SubSeq(payload, 1, len) = <<>>
        BY <3>5 DEF Inv, TypeOK
      <4>2. Stream \in Seq(Byte)
        BY RestType, Joined DEF Stream
      <4>3. PayloadNext(<<>> \o Stream, header, len)
        BY <3>2, <4>2, EmptyFront
      <4>4. <<>> \in Seq(Byte) /\ Len(<<>>) = 0
        OBVIOUS
      <4>5. CrcNext(Stream, header, <<>>, len)
        BY <4>1, <4>2, <4>3, <4>4, PayloadTaken
      <4>6. QED
        BY <1>1, <1>2, <3>1, <3>3, <3>5, <4>1, <4>5 DEF InStep, AckDue
    <3>6. QED
      BY <3>4, <3>5
  <2>5. QED
    BY <2>1, <2>2, <2>3, <2>4
<1>4. reply' # "nack"
  BY <1>1 DEF Clean
<1>5. QED
  BY <1>1, <1>3, <1>4 DEF Clean, Matched

(* Without a verdict against it, only a timeout fails a packet.            *)
LEMMA FailedClean ==
  ASSUME Inv, NEW len \in 0..MAX_PAYLOAD_SIZE, Clean(len),
         HeaderFailed \/ PayloadFailed \/ CrcAndPostambleFailed
  PROVE  mishaps' # {}
<1>1. internal \notin {"header_error", "crc_error", "postamble_error"}
  BY DEF Clean, Inv, TypeOK
<1>2. TimedOut /\ Nack
  BY <1>1 DEF HeaderFailed, PayloadFailed, CrcAndPostambleFailed
<1>3. QED
  BY <1>2 DEF Nack

LEMMA PacketProcessedClean ==
  ASSUME Inv, NEW len \in 0..MAX_PAYLOAD_SIZE, Clean(len), PacketProcessed
  PROVE  Clean(len)'
<1>1. /\ state = "packet_ready" /\ state' = "preamble_proc"
      /\ pc' = "react" /\ internal' = "invalid"
      /\ UNCHANGED <<header, payload, block, rx, coming, reply>>
  BY DEF PacketProcessed, Reacting, SetNextState, history
<1>2. Left(Stream, len) /\ Stream' = Stream
  BY <1>1 DEF Clean, InStep, AckDue, Stream, Rest
<1>3. InStep(len)'
  BY <1>1, <1>2 DEF InStep, AckDue
<1>4. QED
  BY <1>1, <1>3 DEF Clean, Matched

LEMMA NextClean ==
  Inv /\ VerdictInv /\ FrameInv /\ CleanInv /\ [Next]_vars => CleanInv'
<1> SUFFICES ASSUME Inv, VerdictInv, FrameInv, CleanInv, [Next]_vars, mishaps' = {}
             PROVE  \E len \in 0..MAX_PAYLOAD_SIZE : Clean(len)'
  BY DEF CleanInv
<1>1. mishaps = {}
  <2>1. mishaps \subseteq mishaps'
    BY DEF Next, Run, vars, handle, history, BeginRead, GetByte, GetNothing, JudgePreamble,
       JudgeHeader, JudgePayload, JudgeCrcAndPostamble, Judged, PreambleOk, HeaderOk,
       HeaderFailed, PayloadOk, PayloadFailed, CrcAndPostambleOk, CrcAndPostambleFailed,
       PacketProcessed, Nack, Ack, SetExtEvent, SysTick, Arrive, Lose
  <2>2. QED
    BY <2>1
<1>2. PICK len \in 0..MAX_PAYLOAD_SIZE : Clean(len)
  BY <1>1 DEF CleanInv
<1>3. CASE SysTick \/ SetExtEvent \/ UNCHANGED vars
  <2>1. UNCHANGED <<state, internal, header, payload, rx, pc, block, coming, reply>>
    BY <1>3 DEF SysTick, SetExtEvent, vars, handle, history
  <2>2. Stream' = Stream
    BY <2>1 DEF Stream, Rest
  <2>3. Clean(len)'
    BY <1>2, <2>1, <2>2, SameClean
  <2>4. QED
    BY <2>3
<1>4. CASE Arrive \/ Lose
  <2>1. ~Lose
    BY DEF Lose
  <2>2. Clean(len)'
    BY <1>2, <1>4, <2>1, ArriveClean
  <2>3. QED
    BY <2>2
<1>5. CASE BeginRead \/ GetByte \/ GetNothing
  <2>1. Clean(len)'
    BY <1>1, <1>2, <1>5, BeginReadClean, GetClean
  <2>2. QED
    BY <2>1
<1>6. CASE JudgePreamble \/ JudgeHeader \/ JudgePayload \/ JudgeCrcAndPostamble
  <2>1. Clean(len)'
    BY <1>2, <1>6, JudgePreambleClean, JudgeHeaderClean, JudgePayloadClean,
       JudgeCrcAndPostambleClean
  <2>2. QED
    BY <2>1
<1>7. CASE PreambleOk \/ HeaderOk \/ PayloadOk \/ CrcAndPostambleOk \/ PacketProcessed
  <2>1. Clean(len)'
    BY <1>2, <1>7, AdvanceClean, PacketProcessedClean
  <2>2. QED
    BY <2>1
<1>8. CASE HeaderFailed \/ PayloadFailed \/ CrcAndPostambleFailed
  BY <1>2, <1>8, FailedClean
<1>9. QED
  BY <1>3, <1>4, <1>5, <1>6, <1>7, <1>8 DEF Next, Run

(* README, Packet Integrity: a NACK means that the packet was damaged.     *)
(* Whatever the host sends one after the other with payloads of one length *)
(* is intact, and noise between the frames is no packet: however its bytes *)
(* and the steps of the machine fall, it is never refused as long as none  *)
(* is lost or late.                                                        *)
THEOREM IntactNotNacked == Spec /\ Intact(coming) => []IntactNotRefused
<1>1. CleanInv => IntactNotRefused
  BY DEF CleanInv, Clean, IntactNotRefused
<1>2. QED
  BY <1>1, FrameInvariance, InitClean, NextClean, PTL DEF Spec

=============================================================================
