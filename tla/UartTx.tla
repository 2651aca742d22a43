------------------------------- MODULE UartTx -------------------------------
(***************************************************************************)
(* The transmit half of uart_driver.c: the main loop writes to the ring,   *)
(* the transmission-complete interrupt reads from it.                      *)
(*                                                                         *)
(* The main loop is taken apart where the interrupt can tell: each store   *)
(* to the ring is a step, and so is each load whose value is used later.   *)
(* The interrupt cannot be interrupted by the main loop: each of its three *)
(* branches is one step.  No transmit interrupt is enabled while gState is *)
(* ready, so that the kick at the end of uart_transmit_it is one step.     *)
(*                                                                         *)
(* The bytes written are numbered from 1; 0 is a byte nobody wrote.        *)
(***************************************************************************)
EXTENDS CircularBuffer

CONSTANTS
  TX_DATA_BUFF_SIZE, MAX_DATA_CHUNK_SIZE,
  Lens,       \* the lengths of the blocks the main loop writes
  LAST        \* bound: the last byte written

ASSUME SizesAssumption ==
  /\ TX_DATA_BUFF_SIZE \in Nat \ {0}
  /\ MAX_DATA_CHUNK_SIZE \in Nat \ {0, 1}
  /\ Lens \subseteq Nat \ {0}
  /\ LAST \in Nat

VARIABLES
  cb,             \* uart_data.tx.cb
  pc, len,        \* where the main loop is; how many bytes it has to put
  reg, flag,      \* what it has loaded: a length or an index, a comparison
  gState, it,     \* huart2: its state and which transmit interrupt is on
  pending,        \* huart2: the bytes it has still to send
  line,           \* history: the bytes sent
  written,        \* history: how many bytes the main loop has put
  mishaps         \* history: what went wrong between the steps

main == <<pc, len, reg, flag>>
huart2 == <<gState, it, pending>>
vars == <<cb, main, huart2, line, written, mishaps>>

Init ==
  /\ cb = circular_buff_init(TX_DATA_BUFF_SIZE, 0)
  /\ pc = "idle" /\ len = 0 /\ reg = 0 /\ flag = FALSE
  /\ gState = "ready" /\ it = "none" /\ pending = <<>>
  /\ line = <<>> /\ written = 0 /\ mishaps = {}

-----------------------------------------------------------------------------
(* HAL_UART_Transmit_IT in a state where gState is ready: it keeps the     *)
(* address of the bytes and turns on the interrupt.                        *)
HAL_UART_Transmit_IT(bytes) ==
  gState' = "busy" /\ pending' = bytes /\ it' = "txe"

-----------------------------------------------------------------------------
(* The main loop, in uart_transmit_it                                      *)

At(here, there) ==
  /\ pc = here /\ pc' = there

(* circular_buff_write: is there room?  Only the main loop sets full, so   *)
(* the second test of it, in get_data_len, agrees with the first.          *)
Call ==
  /\ pc = "idle"
  /\ \E n \in Lens : written + n <= LAST /\ len' = n
  /\ pc' = IF cb.full THEN "idle" ELSE "compare"
  /\ UNCHANGED <<cb, reg, flag, huart2, line, written, mishaps>>

LenCompare ==
  /\ At("compare", "subtract")
  /\ flag' = (cb.head >= cb.tail)
  /\ UNCHANGED <<cb, len, reg, huart2, line, written, mishaps>>

(* The lengths are unsigned: a data length beyond the size of the ring     *)
(* makes the free space a huge number.                                     *)
LenSubtract ==
  /\ pc = "subtract"
  /\ LET data_len == IF flag THEN cb.head - cb.tail ELSE cb.length + cb.head - cb.tail
         room     == data_len > cb.length \/ cb.length - data_len >= len
     IN  pc' = IF room THEN "store" ELSE "idle"
  /\ UNCHANGED <<cb, len, reg, flag, huart2, line, written, mishaps>>

(* circular_buff_put and head_ptr_advance, store by store                  *)
StoreByte ==
  /\ pc = "store"
  /\ cb' = [cb EXCEPT !.buffer[cb.head] = written + 1]
  /\ reg' = After(cb, cb.tail)
  /\ pc' = IF cb.full THEN "tail" ELSE "head"
  /\ UNCHANGED <<len, flag, huart2, line, written, mishaps>>

StoreTail ==
  /\ At("tail", "head")
  /\ cb' = [cb EXCEPT !.tail = reg]
  /\ UNCHANGED <<len, reg, flag, huart2, line, written, mishaps>>

StoreHead ==
  /\ At("head", "meet")
  /\ cb' = [cb EXCEPT !.head = After(cb, cb.head)]
  /\ written' = written + 1
  /\ UNCHANGED <<len, reg, flag, huart2, line, mishaps>>

Meet ==
  /\ At("meet", "full")
  /\ flag' = (cb.head = cb.tail)
  /\ UNCHANGED <<cb, len, reg, huart2, line, written, mishaps>>

StoreFull ==
  /\ pc = "full"
  /\ cb' = [cb EXCEPT !.full = flag]
  /\ len' = len - 1
  /\ pc' = IF len = 1 THEN "kick" ELSE "store"
  /\ UNCHANGED <<reg, flag, huart2, line, written, mishaps>>

(* Faults: the kick is given up where bytes are left to the interrupt;     *)
(* the byte goes out but stays in the ring.                                *)
KickWhenAlone ==
  /\ At("kick", "idle")
  /\ IF gState = "ready" /\ DataLen(cb) = 1
       THEN cb' = TailRetreated(cb) /\ HAL_UART_Transmit_IT(<<Oldest(cb)>>)
       ELSE UNCHANGED <<cb, huart2>>
  /\ UNCHANGED <<len, reg, flag, line, written, mishaps>>

KickKeepsByte ==
  /\ At("kick", "idle")
  /\ IF gState = "ready" /\ ~Empty(cb)
       THEN cb' = cb /\ HAL_UART_Transmit_IT(<<Oldest(cb)>>)
       ELSE UNCHANGED <<cb, huart2>>
  /\ UNCHANGED <<len, reg, flag, line, written, mishaps>>

(* Nothing is being sent: send the oldest byte.  The result of the get is  *)
(* not looked at; where the interrupts have sent everything meanwhile, the *)
(* byte is undefined.                                                      *)
Kick ==
  /\ At("kick", "idle")
  /\ CASE gState = "ready" /\ ~Empty(cb) ->
            /\ cb' = TailRetreated(cb) /\ HAL_UART_Transmit_IT(<<Oldest(cb)>>)
            /\ UNCHANGED mishaps
       [] gState = "ready" /\ Empty(cb) ->
            /\ UNCHANGED cb /\ HAL_UART_Transmit_IT(<<0>>)
            /\ mishaps' = mishaps \cup {"late"}
       [] gState = "busy" -> UNCHANGED <<cb, huart2, mishaps>>
  /\ UNCHANGED <<len, reg, flag, line, written>>

-----------------------------------------------------------------------------
(* The interrupt                                                           *)

(* UART_Transmit_IT: the data register is empty.                           *)
SendByte ==
  /\ it = "txe"
  /\ line' = Append(line, Head(pending))
  /\ pending' = Tail(pending)
  /\ it' = IF pending' = <<>> THEN "tc" ELSE "txe"
  /\ UNCHANGED <<cb, main, gState, written, mishaps>>

(* How many bytes the callback passes on, and what they are: where the     *)
(* read comes out short, the rest of the chunk is left from before.        *)
ChunkLen == IF DataLen(cb) >= MAX_DATA_CHUNK_SIZE THEN MAX_DATA_CHUNK_SIZE - 1
                                                  ELSE DataLen(cb)

Chunk ==
  LET bytes == BytesRead(cb, ChunkLen)
  IN  [i \in 1..ChunkLen |-> IF i <= Len(bytes) THEN bytes[i] ELSE 0]

(* UART_EndTransmit_IT                                                     *)
EndTransmit == gState' = "ready" /\ it' = "none" /\ UNCHANGED pending

(* Fault: the bytes past a chunk are read as well, and not sent.           *)
TxCpltDropsRest ==
  /\ it = "tc"
  /\ IF DataLen(cb) > 0
       THEN cb' = AfterRead(cb, DataLen(cb)) /\ HAL_UART_Transmit_IT(Chunk)
       ELSE UNCHANGED cb /\ EndTransmit
  /\ UNCHANGED <<main, line, written, mishaps>>

(* The end of a transmission and its callback.  A drain that leaves        *)
(* head and tail equal before the main loop compares them makes an empty   *)
(* ring look full; a tail that goes round between the two halves of        *)
(* get_data_len makes the data length exceed the ring.                     *)
HAL_UART_TxCpltCallback ==
  /\ it = "tc"
  /\ IF DataLen(cb) > 0
       THEN cb' = AfterRead(cb, ChunkLen) /\ HAL_UART_Transmit_IT(Chunk)
       ELSE UNCHANGED cb /\ EndTransmit
  /\ mishaps' = mishaps
       \cup (IF pc = "meet" /\ cb' # cb /\ cb'.tail = cb'.head THEN {"emptied"} ELSE {})
       \cup (IF pc = "subtract" /\ ~flag /\ cb'.tail <= cb'.head THEN {"wrapped"} ELSE {})
  /\ UNCHANGED <<main, line, written>>

-----------------------------------------------------------------------------

Main ==
  \/ LenCompare \/ LenSubtract
  \/ StoreByte \/ StoreTail \/ StoreHead \/ Meet \/ StoreFull
  \/ Kick

Next == Call \/ Main \/ SendByte \/ HAL_UART_TxCpltCallback

Spec == Init /\ [][Next]_vars

(* The main loop returns from the call, and the hardware sends.            *)
FairSpec ==
  /\ Spec
  /\ WF_vars(Main) /\ WF_vars(SendByte) /\ WF_vars(HAL_UART_TxCpltCallback)

-----------------------------------------------------------------------------
(* Properties *)

TypeOK ==
  /\ cb \in Ring(TX_DATA_BUFF_SIZE, 0..LAST)
  /\ pc \in {"idle", "compare", "subtract", "store", "tail", "head", "meet", "full", "kick"}
  /\ len \in Nat /\ reg \in Nat /\ flag \in BOOLEAN
  /\ gState \in {"ready", "busy"} /\ it \in {"none", "txe", "tc"}
  /\ pending \in Seq(0..LAST) /\ line \in Seq(0..LAST)
  /\ written \in 0..LAST
  /\ mishaps \subseteq {"emptied", "wrapped", "late"}

(* uart_transmit_it leaves bytes to the interrupt when a transmission is   *)
(* going on: however the two interleave, no byte is left with nobody to    *)
(* send it.                                                                *)
NothingStranded == pc = "idle" /\ gState = "ready" => Empty(cb)

(* README, Peripheral Data Processing: the ring prevents loss.  Apart from *)
(* the three interleavings that mishaps names, what was written is what    *)
(* was sent, is being sent and is in the ring, in order.                   *)
SentInOrder ==
  pc = "idle" /\ mishaps = {} =>
    line \o pending \o Contents(cb) = [i \in 1..written |-> i]

(* And all of it gets out.                                                 *)
AllSent ==
  \A n \in 1..LAST : written >= n ~> Len(line) >= n \/ mishaps # {}

(* The same promise without the exceptions, but for the one that takes an  *)
(* interrupted main loop longer than a byte takes on the line.             *)
OnlyWrittenIsSent ==
  "late" \notin mishaps => \A i \in DOMAIN line : line[i] = i

(* "Get amount of bytes available to be written in c_buffer": a block is   *)
(* accepted only where there is room, so that no byte is pushed out before *)
(* it is sent - here of a ring that "emptied" has not spoiled.             *)
AcceptedIsSent ==
  {"late", "emptied"} \cap mishaps = {} => \A i \in DOMAIN line : line[i] = i

=============================================================================
