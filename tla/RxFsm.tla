------------------------------- MODULE RxFsm --------------------------------
(***************************************************************************)
(* The receive side: host_comm_rx_fsm.c and the receive half of            *)
(* uart_driver.c, fed by the bytes of a host.                              *)
(*                                                                         *)
(* The main loop tests how many bytes are buffered (BeginRead), takes them *)
(* one by one (GetByte), judges them (the Judge actions) and reacts to its *)
(* verdict in a later run.  The receive interrupt and SysTick come between *)
(* any two of these steps.  An answer to the host is modelled by the       *)
(* verdict it carries; whether the request queue takes it is TxFsm's.      *)
(* A get is one step here: what a byte does that takes the last place of   *)
(* the ring in the middle of one is UartRx's ("filled").                   *)
(*                                                                         *)
(* A byte is a natural number.  The sizes of a frame's fields and of the   *)
(* buffer are parameters, so that small ones can be checked.               *)
(***************************************************************************)
EXTENDS TimeEvents, Sequences, SequencesExt

CONSTANTS
  Byte,
  PREAMBLE, POSTAMBLE,          \* the sequences of bytes that frame a packet
  HEADER_SIZE_BYTES, CRC_SIZE_BYTES, MAX_PAYLOAD_SIZE,
  CRC_STRIDE,                   \* bytes crc32_accumulate takes per len: 4
  ValidHeader(_),               \* protocol_check_valid_header
  PayloadLen(_),                \* header.payload_len
  CrcOf(_),                     \* the CRC bytes of a sequence of bytes
  RX_DATA_BUFF_SIZE,
  LEN_WRAP,                     \* uart_get_rx_data_len returns a uint8_t: 256
  HEADER_BYTES_TIMEOUT_MS, POSTAMBLE_BYTES_TIMEOUT_MS,
  Streams,                      \* the sequences of bytes a host may send
  HostPackets,                  \* <<header, payload>> of the packets in them
  MayLose,                      \* bytes may be lost on the line
  AppProcesses                  \* the application reports packets processed

ASSUME BytesAssumption ==
  /\ 0 \in Byte
  /\ PREAMBLE \in Seq(Byte) /\ POSTAMBLE \in Seq(Byte)
  /\ Streams \subseteq Seq(Byte)

ASSUME PreambleAssumption == PREAMBLE # <<>>

ASSUME SizesAssumption ==
  /\ HEADER_SIZE_BYTES \in Nat /\ CRC_SIZE_BYTES \in Nat /\ MAX_PAYLOAD_SIZE \in Nat
  /\ RX_DATA_BUFF_SIZE \in Nat /\ LEN_WRAP \in Nat \ {0}
  /\ HEADER_BYTES_TIMEOUT_MS \in Nat /\ POSTAMBLE_BYTES_TIMEOUT_MS \in Nat

(* protocol_check_valid_header refuses a payload_len that does not fit.    *)
ASSUME ValidHeaderAssumption ==
  \A h \in [1..HEADER_SIZE_BYTES -> Byte] :
    ValidHeader(h) => PayloadLen(h) \in 0..MAX_PAYLOAD_SIZE

VARIABLES
  state, internal, external,    \* handle->state, handle->event
  time,                         \* handle->event.time
  header, payload,              \* handle->iface.packet
  rx,                           \* the bytes in uart_data.rx.cb
  pc, block,                    \* reading, and the bytes this read produced
  coming,                       \* the bytes the host has still to send
  reply,                        \* history: the last answer
  released,                     \* history: the ready packet was processed
  mishaps                       \* history: "lost", "overflow", "timeout"

handle == <<state, internal, external, time, header, payload>>
history == <<reply, released, mishaps>>
vars == <<handle, rx, pc, block, coming, history>>

Zeros(n) == [i \in 1..n |-> 0]

Init ==
  /\ state = "preamble_proc" /\ internal = "invalid" /\ external = "invalid"
  /\ time = [header_timeout |-> Stopped, payload_timeout |-> Stopped,
             crc_and_postamble_timeout |-> Stopped]
  /\ header = Zeros(HEADER_SIZE_BYTES) /\ payload = Zeros(MAX_PAYLOAD_SIZE)
  /\ rx = <<>> /\ pc = "react" /\ block = <<>>
  /\ coming \in Streams
  /\ reply = "none" /\ released = FALSE /\ mishaps = {}

-----------------------------------------------------------------------------
(* uart_driver.c: HAL_UART_RxCpltCallback drops the byte and everything    *)
(* buffered when the buffer is full.                                       *)

ArriveUnbounded ==
  /\ coming # <<>>
  /\ coming' = Tail(coming)
  /\ rx' = Append(rx, Head(coming))
  /\ UNCHANGED <<handle, pc, block, history>>

Arrive ==
  /\ coming # <<>>
  /\ coming' = Tail(coming)
  /\ IF Len(rx) < RX_DATA_BUFF_SIZE
       THEN rx' = Append(rx, Head(coming)) /\ UNCHANGED mishaps
       ELSE rx' = <<>> /\ mishaps' = mishaps \cup {"overflow"}
  /\ UNCHANGED <<handle, pc, block, reply, released>>

Lose ==
  /\ MayLose /\ coming # <<>>
  /\ coming' = Tail(coming)
  /\ mishaps' = mishaps \cup {"lost"}
  /\ UNCHANGED <<handle, rx, pc, block, reply, released>>

uart_get_rx_data_len == Len(rx) % LEN_WRAP

-----------------------------------------------------------------------------
(* Timers *)

SysTick ==
  /\ time' = [t \in DOMAIN time |-> Updated(time[t])]
  /\ UNCHANGED <<state, internal, external, header, payload,
                 rx, pc, block, coming, history>>

(* The timeout each state tests.                                           *)
TimedOut ==
  CASE state = "header_proc"            -> time.header_timeout.raised
    [] state = "payload_proc"           -> time.payload_timeout.raised
    [] state = "crc_and_postamble_proc" -> time.crc_and_postamble_timeout.raised
    [] OTHER                            -> FALSE

-----------------------------------------------------------------------------
(* The during actions: read what the state waits for, once it is there.    *)

Needed ==
  CASE state = "preamble_proc" -> Len(PREAMBLE)
    [] state = "header_proc"   -> HEADER_SIZE_BYTES
    [] state = "payload_proc"  -> PayloadLen(header)
    [] OTHER                   -> CRC_SIZE_BYTES + Len(POSTAMBLE)

BeginReadEarly ==
  /\ pc = "react" /\ state # "packet_ready"
  /\ internal = "invalid" /\ ~TimedOut
  /\ uart_get_rx_data_len >= Needed - 1
  /\ pc' = "read"
  /\ UNCHANGED <<handle, rx, block, coming, history>>

(* The state takes no transition in this run, and the bytes are there.     *)
BeginRead ==
  /\ pc = "react" /\ state # "packet_ready"
  /\ internal = "invalid" /\ ~TimedOut
  /\ uart_get_rx_data_len >= Needed
  /\ pc' = "read"
  /\ UNCHANGED <<handle, rx, block, coming, history>>


(* The preamble is compared byte by byte: a mismatch ends the read.        *)
ReadOver ==
  \/ Len(block) >= Needed
  \/ state = "preamble_proc" /\ block # <<>> /\ Last(block) # PREAMBLE[Len(block)]

GetByte ==
  /\ pc = "read" /\ ~ReadOver
  /\ rx # <<>>
  /\ block' = Append(block, Head(rx)) /\ rx' = Tail(rx)
  /\ UNCHANGED <<handle, pc, coming, history>>

(* What the destination holds where a read found the buffer empty: the     *)
(* interrupt has reset it since it was tested.  The preamble byte is a     *)
(* local that keeps its last value and starts undefined; the packet keeps  *)
(* its old bytes; recv_crc and postamble are undefined.                    *)
Unread ==
  CASE state = "preamble_proc" -> IF block = <<>> THEN {<<b>> : b \in Byte}
                                                  ELSE {<<Last(block)>>}
    [] state = "header_proc"   -> {SubSeq(header, Len(block) + 1, Needed)}
    [] state = "payload_proc"  -> {SubSeq(payload, Len(block) + 1, Needed)}
    [] OTHER                   ->
         LET end == IF Len(block) < CRC_SIZE_BYTES THEN CRC_SIZE_BYTES ELSE Needed
         IN  [1..(end - Len(block)) -> Byte]

GetNothing ==
  /\ pc = "read" /\ ~ReadOver
  /\ rx = <<>>
  /\ \E bytes \in Unread : block' = block \o bytes
  /\ UNCHANGED <<handle, rx, pc, coming, history>>

Judged(event) ==
  /\ internal' = event
  /\ pc' = "react" /\ block' = <<>>
  /\ UNCHANGED <<state, external, time, rx, coming, history>>

JudgePreamble ==
  /\ pc = "read" /\ state = "preamble_proc" /\ ReadOver
  /\ Judged(IF block = PREAMBLE THEN "preamble_ok" ELSE "invalid")
  /\ UNCHANGED <<header, payload>>

(* A fault: payload_len is not checked.                                    *)
JudgeHeaderUnchecked ==
  /\ pc = "read" /\ state = "header_proc" /\ ReadOver
  /\ header' = block
  /\ Judged("header_ok")
  /\ UNCHANGED payload

JudgeHeader ==
  /\ pc = "read" /\ state = "header_proc" /\ ReadOver
  /\ header' = block
  /\ Judged(IF ValidHeader(header') THEN "header_ok" ELSE "header_error")
  /\ UNCHANGED payload

JudgePayload ==
  /\ pc = "read" /\ state = "payload_proc" /\ ReadOver
  /\ payload' = block \o SubSeq(payload, Needed + 1, MAX_PAYLOAD_SIZE)
  /\ Judged("payload_ok")
  /\ UNCHANGED header

(* crc32_accumulate takes a uint32_t pointer and the length in bytes: it   *)
(* covers CRC_STRIDE bytes of the packet in memory for each byte of its    *)
(* length, whatever these bytes were left by.                              *)
CoveredOf(h, bytes) ==
  SubSeq(h \o bytes, 1, CRC_STRIDE * (HEADER_SIZE_BYTES + PayloadLen(h)))

Covered == CoveredOf(header, payload)

JudgeNothing ==
  /\ pc = "read" /\ state = "crc_and_postamble_proc" /\ ReadOver
  /\ Judged("crc_and_postamble_ok")
  /\ UNCHANGED <<header, payload>>

(* A wrong postamble sets postamble_error, which the next statement        *)
(* overwrites.                                                             *)
JudgeCrcAndPostamble ==
  /\ pc = "read" /\ state = "crc_and_postamble_proc" /\ ReadOver
  /\ LET recv_crc == SubSeq(block, 1, CRC_SIZE_BYTES)
     IN  Judged(IF recv_crc # CrcOf(Covered) THEN "crc_error" ELSE "crc_and_postamble_ok")
  /\ UNCHANGED <<header, payload>>

-----------------------------------------------------------------------------
(* Entering the states *)

SetNextStateKeepsExternal(next_state) ==
  /\ state' = next_state
  /\ internal' = "invalid" /\ external' = external

SetNextState(next_state) ==
  /\ state' = next_state
  /\ internal' = "invalid" /\ external' = "invalid"

Reacting(in) ==
  /\ pc = "react" /\ state = in
  /\ UNCHANGED <<header, payload, pc, block, coming>>

(* The answers: host_comm_tx_fsm_send_packet_no_payload                    *)
Nack ==
  /\ reply' = "nack"
  /\ mishaps' = IF TimedOut THEN mishaps \cup {"timeout"} ELSE mishaps
  /\ UNCHANGED released

Ack ==
  /\ reply' = "ack" /\ released' = FALSE
  /\ UNCHANGED mishaps

-----------------------------------------------------------------------------
(* The reactions *)

PreambleOk ==
  /\ Reacting("preamble_proc")
  /\ internal = "preamble_ok"
  /\ SetNextState("header_proc")
  /\ time' = [time EXCEPT !.header_timeout = Started(HEADER_BYTES_TIMEOUT_MS)]
  /\ UNCHANGED <<rx, history>>

(* Faults: the timer of the header runs on; the payload gets no timer.     *)
HeaderOkTimerRunsOn ==
  /\ Reacting("header_proc")
  /\ internal = "header_ok"
  /\ IF PayloadLen(header) > 0
       THEN /\ SetNextState("payload_proc")
            /\ time' = [time EXCEPT !.payload_timeout = Started(PayloadLen(header))]
       ELSE /\ SetNextState("crc_and_postamble_proc")
            /\ time' = [time EXCEPT !.crc_and_postamble_timeout = Started(POSTAMBLE_BYTES_TIMEOUT_MS)]
  /\ UNCHANGED <<rx, history>>

HeaderOkNoPayloadTimer ==
  /\ Reacting("header_proc")
  /\ internal = "header_ok"
  /\ IF PayloadLen(header) > 0
       THEN /\ SetNextState("payload_proc")
            /\ time' = [time EXCEPT !.header_timeout = Stopped]
       ELSE /\ SetNextState("crc_and_postamble_proc")
            /\ time' = [time EXCEPT !.header_timeout = Stopped,
                 !.crc_and_postamble_timeout = Started(POSTAMBLE_BYTES_TIMEOUT_MS)]
  /\ UNCHANGED <<rx, history>>

HeaderOk ==
  /\ Reacting("header_proc")
  /\ internal = "header_ok"
  /\ IF PayloadLen(header) > 0
       THEN /\ SetNextState("payload_proc")
            /\ time' = [time EXCEPT !.header_timeout = Stopped,
                 !.payload_timeout = Started(PayloadLen(header))]
       ELSE /\ SetNextState("crc_and_postamble_proc")
            /\ time' = [time EXCEPT !.header_timeout = Stopped,
                 !.crc_and_postamble_timeout = Started(POSTAMBLE_BYTES_TIMEOUT_MS)]
  /\ UNCHANGED <<rx, history>>

HeaderFailed ==
  /\ Reacting("header_proc")
  /\ internal # "header_ok" /\ (TimedOut \/ internal = "header_error")
  /\ rx' = IF TimedOut THEN <<>> ELSE rx
  /\ Nack
  /\ SetNextState("preamble_proc")
  /\ time' = [time EXCEPT !.header_timeout = Stopped]

PayloadOk ==
  /\ Reacting("payload_proc")
  /\ internal = "payload_ok"
  /\ SetNextState("crc_and_postamble_proc")
  /\ time' = [time EXCEPT !.payload_timeout = Stopped,
       !.crc_and_postamble_timeout = Started(POSTAMBLE_BYTES_TIMEOUT_MS)]
  /\ UNCHANGED <<rx, history>>

PayloadFailed ==
  /\ Reacting("payload_proc")
  /\ internal # "payload_ok" /\ TimedOut
  /\ rx' = <<>>
  /\ Nack
  /\ SetNextState("preamble_proc")
  /\ time' = [time EXCEPT !.payload_timeout = Stopped]

CrcAndPostambleOk ==
  /\ Reacting("crc_and_postamble_proc")
  /\ internal = "crc_and_postamble_ok"
  /\ Ack
  /\ SetNextState("packet_ready")
  /\ time' = [time EXCEPT !.crc_and_postamble_timeout = Stopped]
  /\ UNCHANGED rx

(* The timer is stopped before it is tested a second time, to decide       *)
(* whether the buffer is cleared.                                          *)
CrcAndPostambleFailed ==
  /\ Reacting("crc_and_postamble_proc")
  /\ internal # "crc_and_postamble_ok"
  /\ TimedOut \/ internal \in {"crc_error", "postamble_error"}
  /\ time' = [time EXCEPT !.crc_and_postamble_timeout = Stopped]
  /\ rx' = IF time'.crc_and_postamble_timeout.raised THEN <<>> ELSE rx
  /\ Nack
  /\ SetNextState("preamble_proc")

PacketProcessed ==
  /\ Reacting("packet_ready")
  /\ external = "packet_proccessed"
  /\ SetNextState("preamble_proc")
  /\ UNCHANGED <<time, rx, history>>

(* host_comm_rx_fsm_set_ext_event, from the main loop at any time.         *)
SetExtEvent ==
  /\ AppProcesses /\ pc = "react"
  /\ external' = "packet_proccessed"
  /\ released' = (state = "packet_ready")
  /\ UNCHANGED <<state, internal, time, header, payload,
                 rx, pc, block, coming, reply, mishaps>>

-----------------------------------------------------------------------------

(* One call of host_comm_rx_fsm_run, or the next step of the one going on. *)
Run ==
  \/ BeginRead \/ GetByte \/ GetNothing
  \/ JudgePreamble \/ JudgeHeader \/ JudgePayload \/ JudgeCrcAndPostamble
  \/ PreambleOk \/ HeaderOk \/ HeaderFailed \/ PayloadOk \/ PayloadFailed
  \/ CrcAndPostambleOk \/ CrcAndPostambleFailed \/ PacketProcessed

Next ==
  \/ Run
  \/ SetExtEvent
  \/ SysTick
  \/ Arrive \/ Lose

Spec == Init /\ [][Next]_vars

(* The main loop calls run again and again, SysTick keeps coming, and the  *)
(* host sends what it has to send.  Nothing is assumed of the application: *)
(* no code reports a packet processed yet.                                 *)
Fairness == WF_vars(Run) /\ WF_vars(SysTick) /\ WF_vars(Arrive)

FairSpec == Spec /\ Fairness

-----------------------------------------------------------------------------
(* Properties *)

(* The handle holds values of its types and the receive buffer does not    *)
(* overflow.                                                               *)
TypeOK ==
  /\ state \in {"preamble_proc", "header_proc", "payload_proc",
                "crc_and_postamble_proc", "packet_ready"}
  /\ internal \in {"invalid", "preamble_ok", "header_ok", "header_error", "payload_ok",
                   "crc_and_postamble_ok", "crc_error"}
  /\ external \in {"invalid", "packet_proccessed"}
  /\ time \in [header_timeout : TimeEvent, payload_timeout : TimeEvent,
               crc_and_postamble_timeout : TimeEvent]
  /\ header \in Seq(Byte) /\ Len(header) = HEADER_SIZE_BYTES
  /\ payload \in Seq(Byte) /\ Len(payload) = MAX_PAYLOAD_SIZE
  /\ rx \in Seq(Byte) /\ Len(rx) <= RX_DATA_BUFF_SIZE
  /\ pc \in {"react", "read"} /\ block \in Seq(Byte)

(* Exactly the timer of the state that waits for bytes runs: a timeout     *)
(* left from an earlier state or frame never hits a later one.             *)
OnlyOwnTimerRuns ==
  /\ time.header_timeout.active            <=> state = "header_proc"
  /\ time.payload_timeout.active           <=> state = "payload_proc"
  /\ time.crc_and_postamble_timeout.active <=> state = "crc_and_postamble_proc"
  /\ \A t \in DOMAIN time : time[t].raised => time[t].active

(* packet_payload_t has MAX_PAYLOAD_SIZE bytes, a payload_len from the     *)
(* line, damaged or left from an earlier header, could ask for more: no    *)
(* read goes past its end.                                                 *)
ReadFits ==
  pc = "read" /\ state = "payload_proc" => Needed <= MAX_PAYLOAD_SIZE

(* The sequences of n bytes that come, in order, of a stream s when others *)
(* are lost.                                                               *)
Delivered(n, s) ==
  {[i \in 1..n |-> s[place[i]]] : place \in
     {f \in [1..n -> DOMAIN s] : \A i, j \in 1..n : i < j => f[i] < f[j]}}

(* What the CRC is for: a preamble, a valid header, its payload and the    *)
(* CRC of the two that are put together of the bytes of a stream are those *)
(* of a packet the host sent, whatever else the CRC covered.               *)
CrcTells ==
  \A s \in Streams,
     len \in {PayloadLen(h) : h \in {g \in [1..HEADER_SIZE_BYTES -> Byte] : ValidHeader(g)}} :
    LET body == Len(PREAMBLE) + HEADER_SIZE_BYTES
    IN  \A d \in Delivered(body + len + CRC_SIZE_BYTES, s) :
          LET h == SubSeq(d, Len(PREAMBLE) + 1, body)
              p == SubSeq(d, body + 1, body + len)
              c == SubSeq(d, body + len + 1, body + len + CRC_SIZE_BYTES)
          IN  SubSeq(d, 1, Len(PREAMBLE)) = PREAMBLE /\ ValidHeader(h) /\ PayloadLen(h) = len
                => \A old \in [1..(MAX_PAYLOAD_SIZE - len) -> Byte] :
                     c = CrcOf(CoveredOf(h, p \o old)) => <<h, p>> \in HostPackets

(* README, Acknowledge Frame: an acknowledged packet is one the host sent, *)
(* intact, whatever was lost, damaged or timed out around it - as long as  *)
(* the interrupt did not reset the buffer under the reader, nor, in the    *)
(* middle of a get (UartRx), fill it.                                      *)
AckedIntact ==
  state = "packet_ready" /\ "overflow" \notin mishaps =>
    <<header, SubSeq(payload, 1, PayloadLen(header))>> \in HostPackets

(* A packet is released only by an event set while it was ready, never by  *)
(* one left from before.                                                   *)
ReleaseIsFresh ==
  [][state = "packet_ready" /\ state' # "packet_ready" => released]_vars

(* The header, payload and CRC of an intact packet; its sender has zeros   *)
(* behind the payload, for a CRC that covers more than the packet.         *)
IsPacket(h, p, c, len) ==
  /\ h \in [1..HEADER_SIZE_BYTES -> Byte] /\ ValidHeader(h) /\ PayloadLen(h) = len
  /\ p \in [1..len -> Byte]
  /\ c \in [1..CRC_SIZE_BYTES -> Byte]
  /\ c = CrcOf(CoveredOf(h, p \o Zeros(MAX_PAYLOAD_SIZE - len)))

(* s is the frame of an intact packet with len payload bytes, and r.       *)
FrameThen(s, len, r) ==
  \E h \in [1..HEADER_SIZE_BYTES -> Byte], p \in [1..len -> Byte],
     c \in [1..CRC_SIZE_BYTES -> Byte] :
    /\ IsPacket(h, p, c, len)
    /\ s = PREAMBLE \o (h \o (p \o (c \o (POSTAMBLE \o r))))

(* s is what the match with the preamble drops at once, and r: a byte that *)
(* differs, and what came before it that did not.                          *)
NoiseThen(s, r) ==
  \E n \in 1..Len(PREAMBLE) :
    /\ n <= Len(s) /\ s[n] # PREAMBLE[n]
    /\ \A i \in 1..(n - 1) : s[i] = PREAMBLE[i]
    /\ r = SubSeq(s, n + 1, Len(s))

(* s is made of intact frames with payloads of len bytes and of noise;     *)
(* rest has what is left of it before each of them.                        *)
MadeOf(s, len, rest) ==
  /\ rest # <<>> /\ rest[1] = s /\ rest[Len(rest)] = <<>>
  /\ \A k \in 1..(Len(rest) - 1) :
       FrameThen(rest[k], len, rest[k + 1]) \/ NoiseThen(rest[k], rest[k + 1])

Intact(s) ==
  \E len \in 0..MAX_PAYLOAD_SIZE : \E rest \in Seq(Seq(Byte)) : MadeOf(s, len, rest)

(* README, Packet Integrity: a NACK means the packet was damaged.  As long *)
(* as nothing was lost or late, a host that sends intact packets gets none.*)
IntactNotRefused ==
  mishaps = {} => reply # "nack"

(* A host that stops in the middle of a frame does not hold the receiver.  *)
StallRecovers ==
  state \in {"header_proc", "payload_proc", "crc_and_postamble_proc"}
    ~> state \in {"preamble_proc", "packet_ready"}

(* README, Acknowledge Frame: the answer is always sent.  Back from a      *)
(* packet that was processed, the receiver reads on when there are enough  *)
(* bytes for the next preamble.                                            *)
BufferedIsRead ==
  (state = "preamble_proc" /\ pc = "react" /\ reply = "ack" /\ Len(rx) >= Len(PREAMBLE))
    ~> (pc = "read" \/ state # "preamble_proc")

(* README, Synchronization: the postamble indicates the end of the data.   *)
(* A frame passes for good only if it ends with one; the machine has an    *)
(* event and a NACK for a frame that does not.                             *)
PostambleChecked ==
  [][internal' = "crc_and_postamble_ok" /\ internal # internal'
     => SubSeq(block, CRC_SIZE_BYTES + 1, Needed) = POSTAMBLE]_vars

HasPreamble(s) ==
  \E n \in 0..(Len(s) - Len(PREAMBLE)) : SubSeq(s, n + 1, n + Len(PREAMBLE)) = PREAMBLE

(* README, Synchronization: a preamble on the line makes the receiver      *)
(* prepare for data, whatever byte came before it.                         *)
PreambleNoticed ==
  HasPreamble(coming) ~> state # "preamble_proc" \/ mishaps # {}

=============================================================================
