------------------------------- MODULE UartRx -------------------------------
(***************************************************************************)
(* The receive half of uart_driver.c and of the HAL's interrupt handler:   *)
(* the interrupt writes to the ring, the main loop reads from it.          *)
(*                                                                         *)
(* As in UartTx, the main loop is taken apart where the interrupt can      *)
(* tell.  The interrupt handler is two steps, because bytes go on arriving *)
(* in the data register between its read of the status and its read of     *)
(* the byte; the main loop does not run in between.                        *)
(*                                                                         *)
(* The bytes of the host are numbered from 1; 0 is no byte.                *)
(***************************************************************************)
EXTENDS CircularBuffer, Functions

CONSTANTS
  RX_DATA_BUFF_SIZE,
  LEN_WRAP,     \* uart_get_rx_data_len returns a uint8_t: 2^8
  Lens,         \* how many bytes the main loop reads at once
  LAST          \* bound: the last byte of the host

ASSUME SizesAssumption ==
  /\ RX_DATA_BUFF_SIZE \in Nat \ {0} /\ LEN_WRAP \in Nat \ {0}
  /\ RX_DATA_BUFF_SIZE % LEN_WRAP = 0
  /\ Lens \subseteq Nat \ {0}
  /\ LAST \in Nat

VARIABLES
  cb,             \* uart_data.rx.cb
  pc, len,        \* where the main loop is; how many bytes it has to read
  reg, flag,      \* what it has loaded: an index, a comparison
  rdr, ore,       \* the data register; the overrun flag
  isr,            \* what the handler has read of the status
  armed,          \* RxState is busy and the receive interrupts are enabled
  arrived,        \* how many bytes the host has sent
  got,            \* history: the bytes the main loop has read
  flushed,        \* history: the last byte that had arrived at the last reset
  dropped,        \* history: the bytes thrown away by an overrun or a reset
  mishaps         \* history: what came between the steps

main == <<pc, len, reg, flag>>
hardware == <<rdr, ore, isr, armed, arrived>>
history == <<got, flushed, dropped, mishaps>>
vars == <<cb, main, hardware, history>>

Init ==
  /\ cb = circular_buff_init(RX_DATA_BUFF_SIZE, 0)
  /\ pc = "idle" /\ len = 0 /\ reg = 0 /\ flag = FALSE
  /\ rdr = 0 /\ ore = FALSE /\ isr = "none" /\ armed = TRUE
  /\ arrived = 0
  /\ got = <<>> /\ flushed = 0 /\ dropped = {} /\ mishaps = {}

-----------------------------------------------------------------------------
(* The hardware: a byte that finds the data register taken is lost.        *)

Arrive ==
  /\ arrived < LAST
  /\ arrived' = arrived + 1
  /\ IF rdr = 0
       THEN rdr' = arrived' /\ UNCHANGED <<ore, dropped, mishaps>>
       ELSE /\ ore' = TRUE /\ dropped' = dropped \cup {arrived'}
            /\ mishaps' = IF isr = "none" THEN mishaps ELSE mishaps \cup {"window"}
            /\ UNCHANGED rdr
  /\ UNCHANGED <<cb, main, isr, armed, got, flushed>>

-----------------------------------------------------------------------------
(* The interrupt: HAL_UART_IRQHandler                                      *)

ReadStatus ==
  /\ isr = "none" /\ armed
  /\ isr' = CASE rdr # 0 /\ ~ore -> "byte"
              [] rdr # 0 /\ ore  -> "byte and overrun"
              [] rdr = 0 /\ ore  -> "overrun"
              [] OTHER           -> "none"
  /\ isr' # "none"
  /\ UNCHANGED <<cb, main, rdr, ore, armed, arrived, history>>

(* HAL_UART_Receive_IT from the callback returns HAL_BUSY while the main   *)
(* loop holds the lock of the handle, and nobody looks at the result.      *)
Rearmed == pc # "locked"

(* Where a reset, or a byte that takes the last place, finds the main loop *)
(* in the middle of a get.                                                 *)
Tears(c) ==
  (IF ~Accepts(cb, <<rdr>>) /\ pc \in {"get", "meet", "take", "full", "load tail", "tail"}
     THEN {"reset"} ELSE {})
  \cup
  (IF \/ Accepts(cb, <<rdr>>) /\ c.full /\ pc \in {"load tail", "tail"}
      \/ Accepts(cb, <<rdr>>) /\ c.full /\ pc = "meet" /\ ~flag
      \/ Empty(cb) /\ pc \in {"load tail", "tail"}
     THEN {"filled"} ELSE {})

(* HAL_UART_RxCpltCallback: a ring without room is reset, and the byte     *)
(* goes with what it held.                                                 *)
RxCplt(c) ==
  /\ cb' = c
  /\ IF Accepts(cb, <<rdr>>)
       THEN UNCHANGED <<flushed, dropped>>
       ELSE /\ flushed' = rdr
            /\ dropped' = dropped \cup (1..rdr \ Range(got))
  /\ mishaps' = mishaps \cup Tears(c) \cup (IF Rearmed THEN {} ELSE {"locked"})
  /\ UNCHANGED got

(* ErrorCode after the byte is taken: the call that arms reception again   *)
(* clears it.  A fault: it does not.                                       *)
ErrorCodeKept == IF isr = "byte" THEN "none" ELSE "overrun"

ErrorCode == IF isr = "byte" \/ Rearmed THEN "none" ELSE "overrun"

(* UART_Receive_IT.  To read the byte clears an overrun that the status    *)
(* showed.  An overrun that is still in ErrorCode ends the reception.      *)
Receive ==
  /\ isr \in {"byte", "byte and overrun"}
  /\ isr' = "none" /\ rdr' = 0
  /\ ore' = (ore /\ isr = "byte")
  /\ armed' = (Rearmed /\ ErrorCode = "none")
  /\ RxCplt(IF Accepts(cb, <<rdr>>) THEN Written(cb, <<rdr>>) ELSE Reset(cb))
  /\ UNCHANGED <<main, arrived>>

(* An overrun without a byte ends the reception; the error callback that   *)
(* could start it again is the HAL's empty one.                            *)
EndRxTransfer ==
  /\ isr = "overrun"
  /\ isr' = "none" /\ armed' = FALSE
  /\ UNCHANGED <<cb, main, rdr, ore, arrived, history>>

-----------------------------------------------------------------------------
(* The main loop                                                           *)

At(here, there) ==
  /\ pc = here /\ pc' = there /\ isr = "none"

(* uart_transmit_it calls HAL_UART_Transmit_IT, which locks the handle.    *)
Lock == At("idle", "locked") /\ UNCHANGED <<cb, len, reg, flag, hardware, history>>

Unlock == At("locked", "idle") /\ UNCHANGED <<cb, len, reg, flag, hardware, history>>

(* uart_get_rx_data_len, and uart_read_rx_data if there is enough.  The    *)
(* length of a full ring is 0 in a uint8_t.                                *)
Poll ==
  /\ At("idle", "compare") /\ ~cb.full
  /\ len' \in Lens
  /\ UNCHANGED <<cb, reg, flag, hardware, history>>

LenCompare ==
  /\ At("compare", "subtract")
  /\ flag' = (cb.head >= cb.tail)
  /\ UNCHANGED <<cb, len, reg, hardware, history>>

(* A fault: one byte too few is enough.                                    *)
LenSubtractEarly ==
  /\ pc = "subtract" /\ isr = "none"
  /\ LET data_len == IF flag THEN cb.head - cb.tail ELSE cb.length + cb.head - cb.tail
     IN  pc' = IF data_len % LEN_WRAP >= len - 1 THEN "get" ELSE "idle"
  /\ UNCHANGED <<cb, len, reg, flag, hardware, history>>

LenSubtract ==
  /\ pc = "subtract" /\ isr = "none"
  /\ LET data_len == IF flag THEN cb.head - cb.tail ELSE cb.length + cb.head - cb.tail
     IN  pc' = IF data_len % LEN_WRAP >= len THEN "get" ELSE "idle"
  /\ UNCHANGED <<cb, len, reg, flag, hardware, history>>

(* circular_buff_get: the test for empty loads full before head and tail.  *)
GetFull ==
  /\ At("get", "meet")
  /\ flag' = cb.full
  /\ UNCHANGED <<cb, len, reg, hardware, history>>

(* A get that finds nothing ends the read, with the rest unread.           *)
Meet ==
  /\ pc = "meet" /\ isr = "none"
  /\ IF ~flag /\ cb.head = cb.tail
       THEN pc' = "idle" /\ mishaps' = mishaps \cup {"short"}
       ELSE pc' = "take" /\ UNCHANGED mishaps
  /\ UNCHANGED <<cb, len, reg, flag, hardware, got, flushed, dropped>>

Take ==
  /\ At("take", "full")
  /\ got' = Append(got, Oldest(cb))
  /\ UNCHANGED <<cb, len, reg, flag, hardware, flushed, dropped, mishaps>>

StoreFull ==
  /\ At("full", "load tail")
  /\ cb' = [cb EXCEPT !.full = FALSE]
  /\ UNCHANGED <<len, reg, flag, hardware, history>>

LoadTail ==
  /\ At("load tail", "tail")
  /\ reg' = After(cb, cb.tail)
  /\ UNCHANGED <<cb, len, flag, hardware, history>>

StoreTail ==
  /\ pc = "tail" /\ isr = "none"
  /\ cb' = [cb EXCEPT !.tail = reg]
  /\ len' = len - 1
  /\ pc' = IF len = 1 THEN "idle" ELSE "get"
  /\ UNCHANGED <<reg, flag, hardware, history>>

(* uart_clear_rx_data                                                      *)
ResetHead ==
  /\ At("idle", "reset tail")
  /\ cb' = [cb EXCEPT !.head = 0]
  /\ flushed' = IF rdr = 0 THEN arrived ELSE rdr - 1
  /\ UNCHANGED <<len, reg, flag, hardware, got, dropped, mishaps>>

ResetTail ==
  /\ At("reset tail", "reset full")
  /\ cb' = [cb EXCEPT !.tail = 0]
  /\ UNCHANGED <<len, reg, flag, hardware, history>>

ResetFull ==
  /\ At("reset full", "idle")
  /\ cb' = [cb EXCEPT !.full = FALSE]
  /\ dropped' = dropped \cup (1..arrived \ (Range(got) \cup Range(Contents(cb')) \cup {rdr}))
  /\ UNCHANGED <<len, reg, flag, hardware, got, flushed, mishaps>>

-----------------------------------------------------------------------------

Main ==
  \/ Lock \/ Unlock
  \/ Poll \/ LenCompare \/ LenSubtract
  \/ GetFull \/ Meet \/ Take \/ StoreFull \/ LoadTail \/ StoreTail
  \/ ResetHead \/ ResetTail \/ ResetFull

Next == Arrive \/ ReadStatus \/ Receive \/ EndRxTransfer \/ Main

Spec == Init /\ [][Next]_vars

-----------------------------------------------------------------------------
(* Properties *)

TypeOK ==
  /\ cb \in Ring(RX_DATA_BUFF_SIZE, 0..LAST)
  /\ pc \in {"idle", "locked", "compare", "subtract", "get", "meet", "take", "full",
             "load tail", "tail", "reset tail", "reset full"}
  /\ len \in Nat /\ reg \in Nat /\ flag \in BOOLEAN
  /\ rdr \in 0..LAST /\ arrived \in 0..LAST
  /\ ore \in BOOLEAN /\ armed \in BOOLEAN
  /\ isr \in {"none", "byte", "byte and overrun", "overrun"}
  /\ got \in Seq(0..LAST) /\ flushed \in 0..LAST /\ dropped \subseteq 0..LAST
  /\ mishaps \subseteq {"reset", "filled", "short", "locked", "window"}

Torn == {"reset", "filled"} \cap mishaps # {}
Quiet == pc = "idle" /\ isr = "none"

(* README, Peripheral Data Processing: the ring prevents loss.  As long as *)
(* the ring does not reach its limit in the middle of a get, the main loop *)
(* reads the bytes in the order of their arrival, and each byte is read,   *)
(* in the ring, in the data register, or thrown away by an overrun or a    *)
(* reset.                                                                  *)
ReadInOrder ==
  Quiet /\ ~Torn =>
    LET bytes == got \o Contents(cb)
    IN  /\ \A i \in 2..Len(bytes) : bytes[i - 1] < bytes[i]
        /\ 1..arrived \subseteq Range(bytes) \cup dropped \cup {rdr}

(* "Reinit ring buffer": what the ring holds after a reset, by either side, *)
(* has arrived since - again if the reset does not hit a get.              *)
ReinitIsFresh ==
  Quiet /\ ~Torn => \A byte \in Range(Contents(cb)) : byte > flushed

(* A read of no more bytes than uart_get_rx_data_len has promised does not *)
(* come out short.                                                         *)
TestedReadIsWhole == "short" \in mishaps => Torn

(* "Set Uart Data reception for next byte": reception ends only where a    *)
(* byte is taken while the main loop holds the lock, or where an overrun   *)
(* comes between the handler's two reads.  Any other overrun is survived.  *)
StaysArmed == ~armed /\ isr = "none" => {"locked", "window"} \cap mishaps # {}

(* The promises above without the exception, each where a reset in the     *)
(* middle of a get plays no part.  README, Peripheral Data Processing: the *)
(* ring prevents loss, also of the byte that takes its last place.         *)
NoneForgotten ==
  Quiet /\ "reset" \notin mishaps =>
    1..arrived \subseteq Range(got \o Contents(cb)) \cup dropped \cup {rdr}

(* "get amount of data available to be read in c_buff": a read of that     *)
(* many bytes finds them.                                                  *)
AvailableIsRead == "short" \in mishaps => "reset" \in mishaps

(* "Reinit ring buffer": after a reset the ring has only what arrived      *)
(* since, wherever the main loop was in its reading.                       *)
ReinitForgets ==
  Quiet /\ "filled" \notin mishaps => \A byte \in Range(Contents(cb)) : byte > flushed

=============================================================================
