---------------------------- MODULE UartRx_proof ----------------------------
(***************************************************************************)
(* Proofs about UartRx, for every size of the ring, every read and every   *)
(* number of bytes: what ends reception, and in what order the bytes that  *)
(* arrive are read, however the interrupt and the main loop interleave.    *)
(***************************************************************************)
EXTENDS UartRx, SequenceTheorems, TLAPS

(* Where an overrun can be seen without its byte, the byte came between    *)
(* the handler's two reads.                                                *)
OverrunInv ==
  /\ isr = "byte" /\ ore => "window" \in mishaps
  /\ rdr = 0 /\ ore => "window" \in mishaps
  /\ isr = "overrun" => "window" \in mishaps

EndInv ==
  ~armed /\ isr = "none" => "locked" \in mishaps \/ "window" \in mishaps

Inv == OverrunInv /\ EndInv /\ arrived \in Nat

LEMMA InitInv == Init => Inv
BY DEF Init, Inv, OverrunInv, EndInv

LEMMA StepInv == Inv /\ [Next]_vars => Inv'
<1> SUFFICES ASSUME Inv, [Next]_vars PROVE Inv'
  OBVIOUS
<1> USE DEF Inv, OverrunInv, EndInv
<1>1. CASE Arrive
  <2>1. isr' = isr /\ armed' = armed /\ arrived' = arrived + 1
    BY <1>1 DEF Arrive
  <2>2. CASE rdr = 0
    <3>1. rdr' = arrived' /\ ore' = ore /\ mishaps' = mishaps
      BY <1>1, <2>2 DEF Arrive
    <3>2. rdr' # 0 /\ arrived' \in Nat
      BY <2>1, <3>1
    <3>3. QED
      BY <2>1, <3>1, <3>2
  <2>3. CASE rdr # 0
    <3>1. rdr' = rdr /\ (isr # "none" => "window" \in mishaps') /\ mishaps \subseteq mishaps'
      BY <1>1, <2>3 DEF Arrive
    <3>2. QED
      BY <2>1, <2>3, <3>1
  <2>4. QED
    BY <2>2, <2>3
<1>2. CASE ReadStatus
  BY <1>2 DEF ReadStatus, history
<1>3. CASE Receive
  <2>1. /\ isr' = "none" /\ rdr' = 0 /\ ore' = (ore /\ isr = "byte")
        /\ armed' = (Rearmed /\ ErrorCode = "none") /\ arrived' = arrived
    BY <1>3 DEF Receive
  <2>2. mishaps \subseteq mishaps' /\ (~Rearmed => "locked" \in mishaps')
    BY <1>3 DEF Receive, RxCplt
  <2>3. armed' \/ "locked" \in mishaps'
    BY <2>1, <2>2 DEF ErrorCode
  <2>4. ore' => "window" \in mishaps'
    BY <2>1, <2>2
  <2>5. QED
    BY <2>1, <2>3, <2>4
<1>4. CASE EndRxTransfer
  BY <1>4 DEF EndRxTransfer, history
<1>5. CASE Main
  <2>1. UNCHANGED hardware /\ mishaps \subseteq mishaps'
    BY <1>5
       DEF Main, Lock, Unlock, Poll, LenCompare, LenSubtract, GetFull, Meet, Take,
           StoreFull, LoadTail, StoreTail, ResetHead, ResetTail, ResetFull, history
  <2>2. QED
    BY <2>1 DEF hardware
<1>6. CASE UNCHANGED vars
  BY <1>6 DEF vars, hardware, history
<1>7. QED
  BY <1>1, <1>2, <1>3, <1>4, <1>5, <1>6 DEF Next

(* uart_driver.c, stm32f4xx_hal_uart.c: a byte taken while the main loop   *)
(* holds the lock, and an overrun between the handler's two reads, are the *)
(* only ways in which reception ends.                                      *)
THEOREM ReceptionStays == Spec => []StaysArmed
<1>1. Spec => []Inv
  BY InitInv, StepInv, PTL DEF Spec
<1>2. Inv => StaysArmed
  BY DEF Inv, EndInv, StaysArmed
<1>3. QED
  BY <1>1, <1>2, PTL

-----------------------------------------------------------------------------
(* Indices of the ring *)

(* What most proofs need of the constants.                                 *)
LEMMA Sizes ==
  RX_DATA_BUFF_SIZE \in Nat \ {0} /\ Lens \subseteq Nat \ {0} /\ LAST \in Nat
BY SizesAssumption

USE Sizes

Size == RX_DATA_BUFF_SIZE

(* An index not further than once round the ring.                          *)
Round(k) == IF k < Size THEN k ELSE k - Size

LEMMA RingFields ==
  ASSUME NEW c \in Ring(Size, 0..LAST)
  PROVE  /\ c.length = Size /\ Size \in Nat \ {0}
         /\ c.head \in 0..(Size - 1) /\ c.tail \in 0..(Size - 1)
         /\ c.buffer \in [0..(Size - 1) -> 0..LAST]
         /\ c.full \in BOOLEAN
BY DEF Ring, Size

LEMMA RoundInRing ==
  ASSUME NEW i \in 0..(Size - 1), NEW j \in 0..Size
  PROVE  (i + j) % Size = Round(i + j) /\ Round(i + j) \in 0..(Size - 1)
BY DEF Round, Size

LEMMA RoundTwice ==
  ASSUME NEW t \in 0..(Size - 1), NEW a \in Nat, NEW b \in Nat, a + b <= Size
  PROVE  Round(Round(t + a) + b) = Round(t + (a + b))
BY DEF Round, Size

LEMMA RoundApart ==
  ASSUME NEW t \in 0..(Size - 1), NEW a \in Nat, NEW b \in Nat, a < b, b < Size
  PROVE  Round(t + a) # Round(t + b)
BY DEF Round, Size

LEMMA AfterIsRound ==
  ASSUME NEW c \in Ring(Size, 0..LAST), NEW i \in 0..(Size - 1)
  PROVE  After(c, i) = Round(i + 1) /\ Round(i + 1) \in 0..(Size - 1)
<1>1. 1 \in 0..Size /\ c.length = Size
  BY RingFields DEF Size
<1>2. QED
  BY <1>1, RoundInRing DEF After

(* A byte finds room exactly in a ring that is not full.                   *)
LEMMA AcceptsByte ==
  ASSUME NEW c \in Ring(Size, 0..LAST), NEW byte
  PROVE  Accepts(c, <<byte>>) <=> ~c.full
BY RingFields DEF Accepts, FreeSpace, DataLen

(* To write one byte is to store it and to move head.                      *)
LEMMA WrittenByte ==
  ASSUME NEW c \in Ring(Size, 0..LAST), NEW byte
  PROVE  Written(c, <<byte>>) =
           [c EXCEPT !.buffer = [c.buffer EXCEPT ![c.head] = byte],
                     !.head = Round(c.head + 1), !.full = (Round(c.head + 1) = c.tail)]
<1> DEFINE to(i) == (i + c.length - c.head) % c.length
           new == [i \in DOMAIN c.buffer |->
                     IF to(i) < Len(<<byte>>) THEN <<byte>>[to(i) + 1] ELSE c.buffer[i]]
<1>1. c.length = Size /\ c.head \in 0..(Size - 1) /\ DOMAIN c.buffer = 0..(Size - 1)
  BY RingFields
<1>2. ASSUME NEW i \in 0..(Size - 1)
      PROVE  new[i] = IF i = c.head THEN byte ELSE c.buffer[i]
  <2>1. to(i) \in Nat /\ (to(i) < 1 <=> i = c.head)
    <3>1. /\ Size - c.head \in 0..Size /\ i \in Nat /\ c.head \in Nat
          /\ i + c.length - c.head = i + (Size - c.head)
      BY <1>1, RingFields
    <3>2. (i + (Size - c.head)) % Size = Round(i + (Size - c.head))
      BY <3>1, RoundInRing
    <3>3. to(i) = Round(i + (Size - c.head))
      BY <1>1, <3>1, <3>2
    <3> DEFINE h == c.head
    <3>4. h \in 0..(Size - 1) /\ Size \in Nat \ {0}
      BY <1>1 DEF Size
    <3> HIDE DEF h
    <3>5. /\ Round(i + (Size - h)) \in Nat
          /\ (Round(i + (Size - h)) < 1 <=> i = h)
      BY <3>4 DEF Round
    <3>6. QED
      BY <3>3, <3>5 DEF h
  <2>2. Len(<<byte>>) = 1 /\ <<byte>>[1] = byte
    OBVIOUS
  <2>3. new[i] = IF to(i) < 1 THEN <<byte>>[to(i) + 1] ELSE c.buffer[i]
    BY <1>1, <2>2
  <2> HIDE DEF new, to
  <2>4. CASE i = c.head
    <3>1. to(i) = 0
      BY <2>1, <2>4
    <3>2. QED
      BY <2>2, <2>3, <2>4, <3>1
  <2>5. CASE i # c.head
    BY <2>1, <2>3, <2>5
  <2>6. QED
    BY <2>4, <2>5
<1>3. new = [c.buffer EXCEPT ![c.head] = byte]
  <2>1. DOMAIN new = 0..(Size - 1)
    BY <1>1
  <2> HIDE DEF new
  <2>2. new = [i \in 0..(Size - 1) |-> new[i]]
    <3>1. new = [i \in DOMAIN c.buffer |-> new[i]]
      BY DEF new
    <3>2. QED
      BY <1>1, <3>1
  <2>3. [c.buffer EXCEPT ![c.head] = byte]
          = [i \in 0..(Size - 1) |-> IF i = c.head THEN byte ELSE c.buffer[i]]
    BY <1>1, RingFields
  <2>4. QED
    BY <1>2, <2>2, <2>3
<1>4. (c.head + Len(<<byte>>)) % c.length = Round(c.head + 1)
  <2>1. 1 \in 0..Size /\ Len(<<byte>>) = 1
    BY RingFields
  <2>2. QED
    BY <1>1, <2>1, RoundInRing
<1>5. Len(<<byte>>) # 0
  OBVIOUS
<1>6. Written(c, <<byte>>) =
        [c EXCEPT !.buffer = new, !.head = (c.head + Len(<<byte>>)) % c.length,
                  !.full = ((c.head + Len(<<byte>>)) % c.length = c.tail)]
  BY <1>5 DEF Written
<1> HIDE DEF new
<1>7. QED
  BY <1>3, <1>4, <1>6

-----------------------------------------------------------------------------
(* Types, also after the ring has reached its limit in the middle of a get *)

Pcs == {"idle", "locked", "compare", "subtract", "get", "meet", "take", "full",
        "load tail", "tail", "reset tail", "reset full"}

(* There is a byte to take where the handler has seen one, and one to read *)
(* until the read returns.                                                 *)
CallInv ==
  /\ pc \in Pcs \ {"idle", "locked", "reset tail", "reset full"} => len >= 1
  /\ pc = "tail" => reg \in 0..(Size - 1)
  /\ isr \in {"byte", "byte and overrun"} => rdr # 0

Typed == TypeOK /\ CallInv

LEMMA InitTyped == Init => Typed
<1> SUFFICES ASSUME Init PROVE Typed
  OBVIOUS
<1>1. cb \in Ring(Size, 0..LAST)
  BY DEF Init, circular_buff_init, Ring, Size
<1>2. /\ pc = "idle" /\ len = 0 /\ reg = 0 /\ rdr = 0 /\ isr = "none" /\ arrived = 0
      /\ got = <<>> /\ flushed = 0 /\ dropped = {} /\ mishaps = {}
  BY DEF Init
<1>3. flag \in BOOLEAN /\ ore \in BOOLEAN /\ armed \in BOOLEAN
  BY DEF Init
<1>4. <<>> \in Seq(0..LAST) /\ 0 \in 0..LAST
  OBVIOUS
<1>5. QED
  BY <1>1, <1>2, <1>3, <1>4 DEF Typed, TypeOK, CallInv, Size

(* What the interrupt does to the ring.                                    *)
LEMMA ReceiveRing ==
  ASSUME Typed, Receive
  PROVE  /\ rdr \in 1..LAST /\ rdr' = 0 /\ isr' = "none" /\ UNCHANGED <<pc, len, reg, arrived, got>>
         /\ mishaps \subseteq mishaps'
         /\ cb' \in Ring(Size, 0..LAST)
         /\ ~cb.full => /\ cb'.buffer = [cb.buffer EXCEPT ![cb.head] = rdr]
                        /\ cb'.head = Round(cb.head + 1) /\ cb'.tail = cb.tail
                        /\ cb'.full = (cb'.head = cb.tail)
                        /\ UNCHANGED <<flushed, dropped>>
         /\ cb.full => /\ cb'.head = 0 /\ cb'.tail = 0 /\ ~cb'.full
                       /\ flushed' = rdr
                       /\ dropped' = dropped \cup (1..rdr \ Range(got))
<1>1. cb \in Ring(Size, 0..LAST) /\ rdr \in 1..LAST
  <2>1. cb \in Ring(Size, 0..LAST) /\ rdr \in 0..LAST
    BY DEF Typed, TypeOK, Size
  <2>2. rdr # 0
    BY DEF Typed, CallInv, Receive
  <2>3. QED
    BY <2>1, <2>2
<1>2. /\ rdr' = 0 /\ isr' = "none" /\ UNCHANGED <<pc, len, reg, arrived, got>>
      /\ mishaps \subseteq mishaps'
  BY DEF Receive, RxCplt, main
<1>3. Accepts(cb, <<rdr>>) <=> ~cb.full
  BY <1>1, AcceptsByte
<1>4. CASE ~cb.full
  <2> DEFINE head == Round(cb.head + 1)
  <2>1. cb' = [cb EXCEPT !.buffer = [cb.buffer EXCEPT ![cb.head] = rdr],
                         !.head = head, !.full = (head = cb.tail)]
    <3>1. cb' = Written(cb, <<rdr>>)
      BY <1>3, <1>4 DEF Receive, RxCplt
    <3>2. QED
      BY <1>1, <3>1, WrittenByte
  <2>2. head \in 0..(Size - 1)
    BY <1>1, AfterIsRound, RingFields
  <2> HIDE DEF head
  <2>3. /\ cb'.buffer = [cb.buffer EXCEPT ![cb.head] = rdr]
        /\ cb'.head = head /\ cb'.tail = cb.tail /\ cb'.full = (head = cb.tail)
    BY <1>1, <2>1, <2>2 DEF Ring
  <2>6. cb' \in Ring(Size, 0..LAST)
    <3>1. [cb.buffer EXCEPT ![cb.head] = rdr] \in [0..(Size - 1) -> 0..LAST]
      BY <1>1, RingFields
    <3>2. (head = cb.tail) \in BOOLEAN
      OBVIOUS
    <3>3. QED
      BY <1>1, <2>1, <2>2, <3>1, <3>2 DEF Ring
  <2>4. UNCHANGED <<flushed, dropped>>
    BY <1>3, <1>4 DEF Receive, RxCplt
  <2>5. QED
    BY <1>1, <1>2, <1>4, <2>3, <2>4, <2>6 DEF head
<1>5. CASE cb.full
  <2>1. cb' = [cb EXCEPT !.head = 0, !.tail = 0, !.full = FALSE]
    BY <1>3, <1>5 DEF Receive, RxCplt, Reset
  <2>2. 0 \in 0..(Size - 1)
    BY RingFields, <1>1
  <2>3. cb'.head = 0 /\ cb'.tail = 0 /\ cb'.full = FALSE /\ cb' \in Ring(Size, 0..LAST)
    BY <1>1, <2>1, <2>2 DEF Ring
  <2>4. flushed' = rdr /\ dropped' = dropped \cup (1..rdr \ Range(got))
    BY <1>3, <1>5 DEF Receive, RxCplt
  <2>5. QED
    BY <1>1, <1>2, <1>5, <2>3, <2>4
<1>6. QED
  BY <1>4, <1>5, <1>1 DEF Ring

(* The two halves of uart_get_rx_data_len, and the other steps of the main *)
(* loop that leave the ring alone.                                         *)
LEMMA LoopTyped ==
  ASSUME Typed,
         \/ Lock \/ Unlock \/ Poll \/ LenCompare \/ LenSubtract \/ GetFull \/ Meet
         \/ LoadTail
  PROVE  Typed'
<1>1. UNCHANGED <<cb, hardware, got, flushed, dropped>> /\ pc' \in Pcs
  BY DEF Lock, Unlock, Poll, LenCompare, LenSubtract, GetFull, Meet, LoadTail, At, Pcs, history
<1>2. mishaps' \subseteq mishaps \cup {"short"}
  BY DEF Lock, Unlock, Poll, LenCompare, LenSubtract, GetFull, Meet, LoadTail, history
<1>3. flag' \in BOOLEAN
  <2>1. flag' = flag \/ flag' = (cb.head >= cb.tail) \/ flag' = cb.full
    BY DEF Lock, Unlock, Poll, LenCompare, LenSubtract, GetFull, Meet, LoadTail
  <2>2. flag \in BOOLEAN /\ cb.full \in BOOLEAN /\ (cb.head >= cb.tail) \in BOOLEAN
    <3>1. flag \in BOOLEAN /\ cb \in Ring(Size, 0..LAST)
      BY DEF Typed, TypeOK, Size
    <3>2. QED
      BY <3>1, RingFields
  <2>3. QED
    BY <2>1, <2>2
<1>4. reg' \in Nat /\ (pc' = "tail" => reg' \in 0..(Size - 1))
  <2>1. CASE LoadTail
    <3>1. cb \in Ring(Size, 0..LAST) /\ reg' = After(cb, cb.tail)
      BY <2>1 DEF LoadTail, Typed, TypeOK, Size
    <3>2. reg' \in 0..(Size - 1)
      BY <3>1, AfterIsRound, RingFields
    <3>3. QED
      BY <3>1, <3>2, RingFields
  <2>2. CASE ~LoadTail
    <3>1. reg' = reg /\ pc' # "tail"
      BY <2>2 DEF Lock, Unlock, Poll, LenCompare, LenSubtract, GetFull, Meet, At
    <3>2. QED
      BY <3>1 DEF Typed, TypeOK
  <2>3. QED
    BY <2>1, <2>2
<1>5. len' \in Nat /\ (pc' \in Pcs \ {"idle", "locked", "reset tail", "reset full"} => len' >= 1)
  <2>1. CASE Poll
    <3>1. len' \in Lens /\ Lens \subseteq Nat \ {0}
      BY <2>1 DEF Poll
    <3>2. len' \in Nat \ {0}
      BY <3>1
    <3>3. len' \in Nat /\ len' >= 1
      BY <3>2
    <3>4. QED
      BY <3>3
  <2>2. CASE ~Poll
    <3>1. len' = len /\ len \in Nat
      BY <2>2 DEF Lock, Unlock, LenCompare, LenSubtract, GetFull, Meet, LoadTail, Typed, TypeOK
    <3>2. \/ pc' \in {"idle", "locked"}
          \/ pc \in Pcs \ {"idle", "locked", "reset tail", "reset full"}
      BY <2>2 DEF Lock, Unlock, LenCompare, LenSubtract, GetFull, Meet, LoadTail, At, Pcs
    <3>3. QED
      BY <3>1, <3>2 DEF Typed, CallInv
  <2>3. QED
    BY <2>1, <2>2
<1>6. QED
  BY <1>1, <1>2, <1>3, <1>4, <1>5 DEF Typed, TypeOK, CallInv, Pcs, hardware

(* The steps of a get and of a reset that change the ring.                 *)
LEMMA RingTyped ==
  ASSUME Typed,
         Take \/ StoreFull \/ StoreTail \/ ResetHead \/ ResetTail \/ ResetFull
  PROVE  Typed'
<1>1. cb \in Ring(Size, 0..LAST) /\ len \in Nat
  BY DEF Typed, TypeOK, Size
<1>2. UNCHANGED <<reg, flag, hardware, mishaps>> /\ pc' \in Pcs /\ pc' # "tail"
  BY DEF Take, StoreFull, StoreTail, ResetHead, ResetTail, ResetFull, At, Pcs, history
<1>3. cb' \in Ring(Size, 0..LAST)
  <2>1. 0 \in 0..(Size - 1)
    BY <1>1, RingFields
  <2>2. CASE StoreTail
    <3>1. reg \in 0..(Size - 1) /\ cb' = [cb EXCEPT !.tail = reg]
      BY <2>2 DEF StoreTail, Typed, CallInv
    <3>2. QED
      BY <1>1, <3>1 DEF Ring
  <2>3. CASE Take
    BY <1>1, <2>3 DEF Take
  <2>4. CASE StoreFull \/ ResetHead \/ ResetTail \/ ResetFull
    <3>1. \/ cb' = [cb EXCEPT !.full = FALSE]
          \/ cb' = [cb EXCEPT !.head = 0]
          \/ cb' = [cb EXCEPT !.tail = 0]
      BY <2>4 DEF StoreFull, ResetHead, ResetTail, ResetFull
    <3>2. QED
      BY <1>1, <2>1, <3>1 DEF Ring
  <2>5. QED
    BY <2>2, <2>3, <2>4
<1>4. len' \in Nat /\ (pc' \in Pcs \ {"idle", "locked", "reset tail", "reset full"} => len' >= 1)
  <2>1. CASE StoreTail
    <3>1. len >= 1 /\ len' = len - 1 /\ pc' = (IF len = 1 THEN "idle" ELSE "get")
      BY <2>1 DEF StoreTail, Typed, CallInv, Pcs
    <3>2. QED
      BY <1>1, <3>1
  <2>2. CASE ~StoreTail
    <3>1. len' = len
      BY <2>2 DEF Take, StoreFull, ResetHead, ResetTail, ResetFull
    <3>2. \/ pc' \in {"idle", "reset tail", "reset full"}
          \/ pc \in Pcs \ {"idle", "locked", "reset tail", "reset full"}
      BY <2>2 DEF Take, StoreFull, ResetHead, ResetTail, ResetFull, At, Pcs
    <3>3. QED
      BY <1>1, <3>1, <3>2 DEF Typed, CallInv
  <2>3. QED
    BY <2>1, <2>2
<1>5. got' \in Seq(0..LAST)
  <2>1. CASE Take
    <3>1. Oldest(cb) \in 0..LAST /\ got \in Seq(0..LAST) /\ got' = Append(got, Oldest(cb))
      BY <1>1, <2>1, RingFields DEF Oldest, Take, Typed, TypeOK
    <3>2. QED
      BY <3>1
  <2>2. CASE ~Take
    BY <2>2 DEF StoreFull, StoreTail, ResetHead, ResetTail, ResetFull, history, Typed, TypeOK
  <2>3. QED
    BY <2>1, <2>2
<1>6. flushed' \in 0..LAST
  <2>1. CASE ResetHead
    <3>1. flushed' = (IF rdr = 0 THEN arrived ELSE rdr - 1)
          /\ rdr \in 0..LAST /\ arrived \in 0..LAST
      BY <2>1 DEF ResetHead, Typed, TypeOK
    <3>2. QED
      BY <3>1
  <2>2. CASE ~ResetHead
    BY <2>2 DEF Take, StoreFull, StoreTail, ResetTail, ResetFull, history, Typed, TypeOK
  <2>3. QED
    BY <2>1, <2>2
<1>7. dropped' \subseteq 0..LAST
  <2>1. dropped' \subseteq dropped \cup 1..arrived
    BY DEF Take, StoreFull, StoreTail, ResetHead, ResetTail, ResetFull, history
  <2>2. dropped \subseteq 0..LAST /\ arrived \in 0..LAST /\ LAST \in Nat
    BY DEF Typed, TypeOK
  <2>3. QED
    BY <2>1, <2>2
<1>8. QED
  BY <1>2, <1>3, <1>4, <1>5, <1>6, <1>7 DEF Typed, TypeOK, CallInv, Pcs, hardware, Size

LEMMA HardwareTyped ==
  ASSUME Typed, Arrive \/ ReadStatus \/ EndRxTransfer
  PROVE  Typed'
<1>1. UNCHANGED <<cb, main, got, flushed>>
  BY DEF Arrive, ReadStatus, EndRxTransfer, history
<1>2. CASE Arrive
  <2>1. arrived' \in 1..LAST /\ isr' = isr
    <3>1. arrived' = arrived + 1 /\ arrived < LAST /\ isr' = isr
      BY <1>2 DEF Arrive
    <3>2. arrived \in 0..LAST
      BY DEF Typed, TypeOK
    <3>3. QED
      BY <3>1, <3>2
  <2>2. \/ /\ rdr = 0 /\ rdr' = arrived' /\ UNCHANGED <<dropped, mishaps>>
        \/ /\ rdr # 0 /\ rdr' = rdr /\ dropped' = dropped \cup {arrived'}
           /\ mishaps' \subseteq mishaps \cup {"window"}
    BY <1>2 DEF Arrive
  <2>3. rdr' \in 0..LAST /\ (isr' \in {"byte", "byte and overrun"} => rdr' # 0)
    <3>1. rdr \in 0..LAST /\ LAST \in Nat
      BY DEF Typed, TypeOK
    <3>2. rdr' = arrived' \/ rdr' = rdr
      BY <2>2
    <3>3. rdr' \in 0..LAST
      BY <2>1, <3>1, <3>2
    <3>4. rdr' # 0
      BY <2>1, <2>2
    <3>5. QED
      BY <3>3, <3>4
  <2>4. /\ dropped' \subseteq 0..LAST
        /\ mishaps' \subseteq {"reset", "filled", "short", "locked", "window"}
    <3>1. /\ dropped \subseteq 0..LAST /\ LAST \in Nat
          /\ mishaps \subseteq {"reset", "filled", "short", "locked", "window"}
      BY DEF Typed, TypeOK
    <3>2. dropped' \subseteq dropped \cup {arrived'} /\ mishaps' \subseteq mishaps \cup {"window"}
      BY <2>2
    <3>3. arrived' \in 0..LAST
      BY <2>1, <3>1
    <3>4. QED
      BY <3>1, <3>2, <3>3
  <2>5. ore' \in BOOLEAN /\ armed' \in BOOLEAN
    <3>1. ore \in BOOLEAN /\ armed \in BOOLEAN
      BY DEF Typed, TypeOK
    <3>2. (ore' = ore \/ ore' = TRUE) /\ armed' = armed
      BY <1>2 DEF Arrive
    <3>3. QED
      BY <3>1, <3>2
  <2>6. TypeOK'
    <3>1. arrived' \in 0..LAST
      BY <2>1
    <3>2. UNCHANGED <<cb, pc, len, reg, isr, got, flushed>>
      BY <1>1, <2>1 DEF main
    <3>3. flag' = flag
      BY <1>1 DEF main
    <3>4. QED
      BY <2>3, <2>4, <2>5, <3>1, <3>2, <3>3 DEF Typed, TypeOK
  <2>7. QED
    BY <1>1, <2>3, <2>6 DEF Typed, CallInv, main
<1>3. CASE ReadStatus
  <2>1. UNCHANGED <<rdr, ore, armed, arrived, dropped, mishaps>>
    BY <1>3 DEF ReadStatus, history
  <2>2. isr' \in {"byte", "byte and overrun", "overrun"} /\ (rdr = 0 => isr' = "overrun")
    BY <1>3 DEF ReadStatus, Typed, TypeOK
  <2>3. QED
    BY <1>1, <2>1, <2>2 DEF Typed, TypeOK, CallInv, main
<1>4. CASE EndRxTransfer
  <2>1. UNCHANGED <<rdr, ore, arrived, dropped, mishaps>> /\ isr' = "none" /\ armed' = FALSE
    BY <1>4 DEF EndRxTransfer, history
  <2>2. QED
    BY <1>1, <2>1 DEF Typed, TypeOK, CallInv, main
<1>5. QED
  BY <1>2, <1>3, <1>4

LEMMA ReceiveTyped == Typed /\ Receive => Typed'
<1> SUFFICES ASSUME Typed, Receive PROVE Typed'
  OBVIOUS
<1>1. flag' = flag /\ ore' \in BOOLEAN /\ armed' \in BOOLEAN
  BY DEF Receive, main
<1>2. mishaps' \subseteq {"reset", "filled", "short", "locked", "window"}
  BY DEF Receive, RxCplt, Tears, Typed, TypeOK
<1>3. flushed' \in 0..LAST /\ dropped' \subseteq 0..LAST
  <2>1. rdr \in 1..LAST /\ 1..rdr \subseteq 0..LAST
    BY ReceiveRing
  <2>2. flushed \in 0..LAST /\ dropped \subseteq 0..LAST
    BY DEF Typed, TypeOK
  <2>3. \/ UNCHANGED <<flushed, dropped>>
        \/ flushed' = rdr /\ dropped' = dropped \cup (1..rdr \ Range(got))
    BY ReceiveRing
  <2>4. rdr \in 0..LAST
    BY <2>1
  <2>5. QED
    BY <2>1, <2>2, <2>3, <2>4
<1>4. /\ rdr' = 0 /\ isr' = "none" /\ UNCHANGED <<pc, len, reg, arrived, got>>
      /\ cb' \in Ring(Size, 0..LAST)
  BY ReceiveRing
<1>5. TypeOK'
  <2>1. rdr' \in 0..LAST /\ isr' \in {"none", "byte", "byte and overrun", "overrun"}
    BY <1>4
  <2>2. QED
    BY <1>1, <1>2, <1>3, <1>4, <2>1 DEF Typed, TypeOK, Size
<1>6. CallInv'
  BY <1>4 DEF Typed, CallInv, Pcs
<1>7. QED
  BY <1>5, <1>6 DEF Typed

LEMMA StepTyped == Typed /\ [Next]_vars => Typed'
<1> SUFFICES ASSUME Typed, [Next]_vars PROVE Typed'
  OBVIOUS
<1>1. CASE UNCHANGED vars
  BY <1>1, ZenonT(30) DEF vars, main, hardware, history, Typed, TypeOK, CallInv
<1>2. QED
  BY <1>1, LoopTyped, RingTyped, HardwareTyped, ReceiveTyped DEF Next, Main

(* uart_driver.c: head and tail stay in the ring wherever the interrupt    *)
(* finds the main loop, also where it resets the ring under a get.         *)
THEOREM TypeCorrect == Spec => []TypeOK
<1>1. Spec => []Typed
  BY InitTyped, StepTyped, PTL DEF Spec
<1>2. Typed => TypeOK
  BY DEF Typed
<1>3. QED
  BY <1>1, <1>2, PTL

-----------------------------------------------------------------------------
(* The bytes that are still to be read, as long as the ring does not reach *)
(* its limit in the middle of a get.  A get has taken its byte before it   *)
(* moves tail; a reset by the main loop starts a new queue at index 0      *)
(* before it moves tail.                                                   *)

Resetting == pc \in {"reset tail", "reset full"}
Between == pc \in {"full", "load tail", "tail"}

(* From tail to head, where the byte at tail is there.                     *)
Gap(c) == IF c.head > c.tail THEN c.head - c.tail ELSE Size + c.head - c.tail

First == IF Resetting THEN 0 ELSE IF Between THEN Round(cb.tail + 1) ELSE cb.tail
Left == IF Resetting THEN cb.head ELSE IF Between THEN Gap(cb) - 1 ELSE DataLen(cb)

Queue(buffer, first, n) == [i \in 1..n |-> buffer[Round(first + (i - 1))]]
Unread == Queue(cb.buffer, First, Left)

(* Full is right wherever a byte that arrives looks at it.                 *)
PlaceInv ==
  /\ cb.full /\ ~Resetting => cb.head = cb.tail
  /\ pc = "meet" /\ ~flag => ~cb.full
  /\ pc = "full" /\ cb.head = cb.tail => cb.full
  /\ pc \in {"load tail", "tail"} => ~cb.full
  /\ pc = "tail" => reg = Round(cb.tail + 1)
  /\ pc = "reset full" => cb.tail = 0
  /\ pc \in {"get", "meet", "take"} => Left >= len
  /\ Between => Left + 1 >= len

Rising(s) == \A i \in 2..Len(s) : s[i - 1] < s[i]
Below(s) == \A i \in 1..Len(s) : s[i] <= arrived /\ (rdr # 0 => s[i] < rdr)

NumbersInv ==
  /\ Rising(got) /\ Below(got)
  /\ Rising(Unread) /\ Below(Unread)
  /\ Len(got) > 0 /\ Len(Unread) > 0 => got[Len(got)] < Unread[1]
  /\ \A i \in 1..Len(Unread) : Unread[i] > flushed
  /\ rdr <= arrived /\ flushed <= arrived /\ (rdr # 0 => flushed < rdr)

(* No byte is forgotten; a reset by the main loop accounts for its bytes   *)
(* at its end.                                                             *)
CoverInv ==
  ~Resetting => 1..arrived \subseteq Range(got) \cup Range(Unread) \cup dropped \cup {rdr}

Ordered == PlaceInv /\ NumbersInv /\ CoverInv

OrderInv == ~Torn => Ordered

-----------------------------------------------------------------------------
(* Lemmas about the queue *)

LEMMA Places ==
  ASSUME Typed, PlaceInv
  PROVE  /\ First \in 0..(Size - 1) /\ Left \in 0..Size /\ cb.head = Round(First + Left)
         /\ Between => Left \in 0..(Size - 1)
         /\ ~Resetting /\ ~Between => (cb.full <=> Left = Size)
<1>1. cb \in Ring(Size, 0..LAST)
  BY DEF Typed, TypeOK, Size
<1> DEFINE h == cb.head
           t == cb.tail
           f == cb.full
<1>2. h \in 0..(Size - 1) /\ t \in 0..(Size - 1) /\ cb.length = Size /\ Size \in Nat \ {0}
  BY <1>1, RingFields
<1>3. f /\ ~Resetting => h = t
  BY DEF PlaceInv
<1>4. CASE Resetting
  <2>1. First = 0 /\ Left = h /\ ~Between
    BY <1>4 DEF First, Left, Resetting, Between
  <2> HIDE DEF h, t, f
  <2>2. QED
    BY <1>2, <1>4, <2>1 DEF h, Round
<1>5. CASE Between
  <2>1. ~Resetting /\ First = Round(t + 1)
        /\ Left = (IF h > t THEN h - t ELSE Size + h - t) - 1
    BY <1>5 DEF First, Left, Resetting, Between, Gap
  <2> DEFINE first == First
             left == Left
  <2>2. first = Round(t + 1) /\ left = (IF h > t THEN h - t ELSE Size + h - t) - 1
    BY <2>1
  <2> HIDE DEF h, t, f, first, left
  <2>3. first \in 0..(Size - 1) /\ left \in 0..(Size - 1) /\ h = Round(first + left)
    BY <1>2, <2>2 DEF Round
  <2>4. left \in 0..Size
    BY <1>2, <2>3
  <2>5. QED
    BY <1>5, <2>3, <2>4 DEF h, first, left
<1>6. CASE ~Resetting /\ ~Between
  <2> DEFINE left == Left
  <2>1. First = t /\ left = IF f THEN Size ELSE IF h >= t THEN h - t ELSE Size + h - t
    BY <1>2, <1>6 DEF First, Left, DataLen
  <2> HIDE DEF h, t, f, left
  <2>2. left \in 0..Size /\ h = Round(t + left) /\ (f <=> left = Size)
    BY <1>2, <1>3, <1>6, <2>1 DEF Round
  <2>3. QED
    BY <1>2, <1>6, <2>1, <2>2 DEF h, f, left
<1>7. QED
  BY <1>4, <1>5, <1>6

LEMMA QueueType ==
  ASSUME NEW b \in [0..(Size - 1) -> 0..LAST], NEW t \in 0..(Size - 1), NEW n \in 0..Size
  PROVE  /\ Queue(b, t, n) \in Seq(0..LAST) /\ Len(Queue(b, t, n)) = n
         /\ \A i \in 1..n : Queue(b, t, n)[i] = b[Round(t + (i - 1))]
<1>1. ASSUME NEW i \in 1..n PROVE b[Round(t + (i - 1))] \in 0..LAST
  <2>1. i - 1 \in 0..Size
    BY DEF Size
  <2>2. QED
    BY <2>1, RoundInRing
<1>2. n \in Nat
  OBVIOUS
<1>3. QED
  BY <1>1, <1>2 DEF Queue

(* A byte stored behind the others.                                        *)
LEMMA QueueGrows ==
  ASSUME NEW b \in [0..(Size - 1) -> 0..LAST], NEW t \in 0..(Size - 1), NEW n \in 0..Size,
         n < Size, NEW byte \in 0..LAST
  PROVE  Queue([b EXCEPT ![Round(t + n)] = byte], t, n + 1) = Append(Queue(b, t, n), byte)
<1> DEFINE d == [b EXCEPT ![Round(t + n)] = byte]
           q == Queue(b, t, n)
           r == Queue(d, t, n + 1)
<1>1. n + 1 \in 0..Size /\ n \in 0..Size /\ n \in Nat /\ Round(t + n) \in 0..(Size - 1)
  <2>1. n + 1 \in 0..Size /\ n \in Nat
    BY DEF Size
  <2>2. QED
    BY <2>1, RoundInRing
<1>2. d \in [0..(Size - 1) -> 0..LAST]
  BY <1>1
<1>3. q \in Seq(0..LAST) /\ Len(q) = n /\ \A i \in 1..n : q[i] = b[Round(t + (i - 1))]
  BY QueueType
<1>4. r \in Seq(0..LAST) /\ Len(r) = n + 1 /\ \A i \in 1..(n + 1) : r[i] = d[Round(t + (i - 1))]
  <2> HIDE DEF d
  <2>1. QED
    BY <1>1, <1>2, QueueType
<1>5. ASSUME NEW i \in 1..n PROVE r[i] = q[i]
  <2>1. i - 1 \in Nat /\ i - 1 < n /\ i - 1 \in 0..Size /\ i \in 1..(n + 1)
    BY <1>1 DEF Size
  <2>2. Round(t + (i - 1)) # Round(t + n)
    BY <1>1, <2>1, RoundApart
  <2>3. Round(t + (i - 1)) \in 0..(Size - 1)
    BY <2>1, RoundInRing
  <2>4. d[Round(t + (i - 1))] = b[Round(t + (i - 1))]
    BY <2>2, <2>3
  <2> HIDE DEF d, q, r
  <2>5. QED
    BY <1>3, <1>4, <2>1, <2>4
<1>6. r[n + 1] = byte
  <2>1. d[Round(t + n)] = byte
    BY <1>1
  <2>2. (n + 1) - 1 = n /\ n + 1 \in 1..(n + 1)
    BY <1>1
  <2> HIDE DEF d, r
  <2>3. QED
    BY <1>4, <2>1, <2>2
<1> HIDE DEF d, q, r
<1>7. r = Append(q, byte)
  <2>1. /\ Append(q, byte) \in Seq(0..LAST) /\ Len(Append(q, byte)) = n + 1
        /\ \A i \in 1..n : Append(q, byte)[i] = q[i]
        /\ Append(q, byte)[n + 1] = byte
    BY <1>3
  <2> DEFINE s == Append(q, byte)
  <2> HIDE DEF s
  <2>2. \A i \in 1..(n + 1) : r[i] = s[i]
    BY <1>1, <1>5, <1>6, <2>1 DEF s
  <2>3. s \in Seq(0..LAST) /\ Len(s) = n + 1
    BY <2>1 DEF s
  <2>4. r = s
    BY <1>4, <2>2, <2>3
  <2>5. QED
    BY <2>4 DEF s
<1>8. QED
  BY <1>7 DEF d, q, r

(* The byte in front is taken.                                             *)
LEMMA QueueShrinks ==
  ASSUME NEW b \in [0..(Size - 1) -> 0..LAST], NEW t \in 0..(Size - 1), NEW n \in 0..Size,
         n > 0
  PROVE  /\ Queue(b, Round(t + 1), n - 1) = Tail(Queue(b, t, n))
         /\ Queue(b, t, n)[1] = b[t]
<1> DEFINE q == Queue(b, t, n)
           u == Round(t + 1)
           r == Queue(b, u, n - 1)
<1>1. n - 1 \in 0..Size /\ n \in Nat \ {0} /\ u \in 0..(Size - 1) /\ 1 \in 1..n
  <2>1. n - 1 \in 0..Size /\ n \in Nat \ {0} /\ 1 \in 0..Size
    BY DEF Size
  <2>2. QED
    BY <2>1, RoundInRing
<1>2. q \in Seq(0..LAST) /\ Len(q) = n /\ \A i \in 1..n : q[i] = b[Round(t + (i - 1))]
  BY QueueType
<1>3. /\ r \in Seq(0..LAST) /\ Len(r) = n - 1
      /\ \A i \in 1..(n - 1) : r[i] = b[Round(u + (i - 1))]
  <2> HIDE DEF u
  <2>1. QED
    BY <1>1, QueueType
<1>4. ASSUME NEW i \in 1..(n - 1) PROVE r[i] = q[i + 1]
  <2>1. 1 \in Nat /\ i - 1 \in Nat /\ 1 + (i - 1) <= Size /\ i + 1 \in 1..n /\ 1 + (i - 1) = i
        /\ (i + 1) - 1 = i
    <3>1. i \in Nat /\ i >= 1 /\ i <= n - 1
      BY <1>1
    <3>2. QED
      BY <1>1, <3>1 DEF Size
  <2>2. Round(u + (i - 1)) = Round(t + (1 + (i - 1)))
    BY <2>1, RoundTwice
  <2> HIDE DEF q, r, u
  <2>3. q[i + 1] = b[Round(t + ((i + 1) - 1))]
    BY <1>2, <2>1
  <2>4. QED
    BY <1>3, <2>1, <2>2, <2>3
<1>5. q[1] = b[t]
  <2>1. Round(t + (1 - 1)) = t
    BY DEF Round, Size
  <2> HIDE DEF q
  <2>2. QED
    BY <1>1, <1>2, <2>1
<1> HIDE DEF q, r
<1>6. r = Tail(q)
  <2> DEFINE s == Tail(q)
  <2>1. s \in Seq(0..LAST) /\ Len(s) = n - 1 /\ \A i \in 1..(n - 1) : s[i] = q[i + 1]
    BY <1>1, <1>2
  <2> HIDE DEF s
  <2>2. r = s
    BY <1>1, <1>3, <1>4, <2>1
  <2>3. QED
    BY <2>2 DEF s
<1>7. QED
  BY <1>5, <1>6 DEF q, r, u

LEMMA UnreadType ==
  ASSUME Typed, PlaceInv
  PROVE  Unread \in Seq(0..LAST) /\ Len(Unread) = Left
<1>1. cb.buffer \in [0..(Size - 1) -> 0..LAST]
  <2>1. cb \in Ring(Size, 0..LAST)
    BY DEF Typed, TypeOK, Size
  <2>2. QED
    BY <2>1, RingFields
<1>2. QED
  BY <1>1, Places, QueueType DEF Unread

LEMMA RangeAppend ==
  ASSUME NEW s \in Seq(0..LAST), NEW x \in 0..LAST
  PROVE  Range(Append(s, x)) = Range(s) \cup {x}
<1> DEFINE u == Append(s, x)
<1>1. /\ DOMAIN s = 1..Len(s) /\ DOMAIN u = 1..(Len(s) + 1) /\ Len(s) \in Nat
      /\ \A i \in 1..Len(s) : u[i] = s[i]
      /\ u[Len(s) + 1] = x
  OBVIOUS
<1> HIDE DEF u
<1>2. 1..(Len(s) + 1) = (1..Len(s)) \cup {Len(s) + 1}
  BY <1>1
<1>3. Range(u) = {u[i] : i \in 1..Len(s)} \cup {x}
  BY <1>1, <1>2 DEF Range
<1>4. {u[i] : i \in 1..Len(s)} = {s[i] : i \in 1..Len(s)}
  BY <1>1
<1>5. QED
  BY <1>1, <1>3, <1>4 DEF Range, u

LEMMA RangeTail ==
  ASSUME NEW s \in Seq(0..LAST), Len(s) > 0
  PROVE  Range(s) = {s[1]} \cup Range(Tail(s))
<1> DEFINE u == Tail(s)
<1>1. /\ DOMAIN s = 1..Len(s) /\ DOMAIN u = 1..(Len(s) - 1) /\ Len(s) \in Nat \ {0}
      /\ \A i \in 1..(Len(s) - 1) : u[i] = s[i + 1]
  OBVIOUS
<1> HIDE DEF u
<1>2. ASSUME NEW i \in 1..Len(s) PROVE s[i] \in {s[1]} \cup Range(u)
  <2>1. CASE i = 1
    BY <2>1
  <2>2. CASE i # 1
    <3>1. i - 1 \in 1..(Len(s) - 1) /\ (i - 1) + 1 = i
      BY <1>1, <2>2
    <3>2. u[i - 1] = s[i]
      BY <1>1, <3>1
    <3>3. QED
      BY <1>1, <3>1, <3>2 DEF Range
  <2>3. QED
    BY <2>1, <2>2
<1>3. ASSUME NEW i \in 1..(Len(s) - 1) PROVE u[i] \in Range(s)
  <2>1. i + 1 \in 1..Len(s) /\ u[i] = s[i + 1]
    BY <1>1
  <2>2. QED
    BY <1>1, <2>1 DEF Range
<1>4. s[1] \in Range(s)
  BY <1>1 DEF Range
<1>5. Range(s) \subseteq {s[1]} \cup Range(u)
  BY <1>1, <1>2 DEF Range
<1>6. Range(u) \subseteq Range(s)
  BY <1>1, <1>3 DEF Range
<1>7. QED
  BY <1>4, <1>5, <1>6 DEF u

-----------------------------------------------------------------------------
(* What can happen to the queue of bytes                                   *)

LEMMA SameNumbers ==
  ASSUME Ordered, UNCHANGED <<got, rdr, arrived, flushed>>, Unread' = Unread
  PROVE  NumbersInv'
BY DEF Ordered, NumbersInv, Rising, Below

LEMMA SameCover ==
  ASSUME Ordered, UNCHANGED <<got, rdr, arrived, dropped>>, Unread' = Unread,
         ~Resetting' => ~Resetting
  PROVE  CoverInv'
BY DEF Ordered, CoverInv

LEMMA Counted == Typed => arrived \in Nat /\ rdr \in Nat /\ flushed \in Nat
<1>1. Typed => arrived \in 0..LAST /\ rdr \in 0..LAST /\ flushed \in 0..LAST
  BY DEF Typed, TypeOK
<1>2. QED
  BY <1>1

(* A byte arrives: it is later than all others.                            *)
LEMMA ArriveNumbers ==
  ASSUME Typed, Ordered, Arrive, Unread' = Unread, Resetting' = Resetting
  PROVE  NumbersInv' /\ CoverInv'
<1>1. /\ arrived' = arrived + 1 /\ got' = got /\ flushed' = flushed
      /\ arrived \in Nat /\ rdr \in Nat /\ flushed \in Nat
  BY Counted DEF Arrive
<1>2. \/ rdr = 0 /\ rdr' = arrived + 1 /\ dropped' = dropped
      \/ rdr # 0 /\ rdr' = rdr /\ dropped' = dropped \cup {arrived + 1}
  BY DEF Arrive
<1>3. /\ \A i \in 1..Len(got) : got[i] \in Nat
      /\ \A i \in 1..Len(Unread) : Unread[i] \in Nat
  <2>1. got \in Seq(0..LAST) /\ Unread \in Seq(0..LAST)
    BY UnreadType DEF Typed, TypeOK, Ordered
  <2> DEFINE u == Unread
  <2>2. u \in Seq(0..LAST)
    BY <2>1
  <2> HIDE DEF u
  <2>3. /\ \A i \in 1..Len(got) : got[i] \in Nat
        /\ \A i \in 1..Len(u) : u[i] \in Nat
    BY <2>1, <2>2
  <2>4. QED
    BY <2>3 DEF u
<1>4. Below(got)' /\ Below(Unread)'
  <2>1. Below(got) /\ Below(Unread)
    BY DEF Ordered, NumbersInv
  <2>2. QED
    BY <1>1, <1>2, <1>3, <2>1 DEF Below
<1>5. rdr' <= arrived' /\ flushed' <= arrived' /\ (rdr' # 0 => flushed' < rdr')
  BY <1>1, <1>2 DEF Ordered, NumbersInv
<1>6. NumbersInv'
  BY <1>1, <1>4, <1>5 DEF Ordered, NumbersInv, Rising
<1>7. CoverInv'
  <2> SUFFICES ASSUME ~Resetting, NEW k \in 1..(arrived + 1)
               PROVE  k \in Range(got) \cup Range(Unread) \cup dropped' \cup {rdr'}
    BY <1>1 DEF CoverInv
  <2>1. CASE k = arrived + 1
    BY <1>2, <2>1
  <2>2. CASE k # arrived + 1
    <3>1. k \in 1..arrived
      BY <1>1, <2>2
    <3>2. k \in Range(got) \cup Range(Unread) \cup dropped \cup {rdr} /\ k # 0
      BY <3>1 DEF Ordered, CoverInv
    <3>3. QED
      BY <1>2, <3>2
  <2>3. QED
    BY <2>1, <2>2
<1>8. QED
  BY <1>6, <1>7

(* The byte in the data register is put behind the others.                 *)
LEMMA PutNumbers ==
  ASSUME Typed, Ordered, rdr \in 1..LAST, rdr' = 0, Unread' = Append(Unread, rdr),
         UNCHANGED <<got, arrived, flushed, dropped>>, Resetting' = Resetting
  PROVE  NumbersInv' /\ CoverInv'
<1> DEFINE u == Unread
           v == Unread'
<1>1. /\ u \in Seq(0..LAST) /\ v = Append(u, rdr) /\ got \in Seq(0..LAST)
      /\ arrived \in Nat /\ flushed \in Nat
  BY Counted, UnreadType DEF Typed, TypeOK, Ordered
<1>2. /\ Rising(got) /\ Below(got) /\ Rising(u) /\ Below(u)
      /\ Len(got) > 0 /\ Len(u) > 0 => got[Len(got)] < u[1]
      /\ \A i \in 1..Len(u) : u[i] > flushed
      /\ rdr <= arrived /\ flushed <= arrived /\ flushed < rdr
  BY DEF Ordered, NumbersInv
<1>3. ~Resetting => 1..arrived \subseteq Range(got) \cup Range(u) \cup dropped \cup {rdr}
  BY DEF Ordered, CoverInv
<1> HIDE DEF u, v
<1>4. /\ v \in Seq(0..LAST) /\ Len(v) = Len(u) + 1 /\ Len(u) \in Nat
      /\ \A i \in 1..Len(u) : v[i] = u[i] /\ u[i] \in Nat
      /\ v[Len(u) + 1] = rdr
  BY <1>1
<1>5. Rising(v)
  <2>1. \A i \in 1..Len(u) : u[i] < rdr
    BY <1>2 DEF Below
  <2>2. \A i \in 2..(Len(u) + 1) : v[i - 1] < v[i]
    <3> TAKE i \in 2..(Len(u) + 1)
    <3>1. i - 1 \in 1..Len(u) /\ (i = Len(u) + 1 \/ i \in 2..Len(u))
      BY <1>4
    <3>2. CASE i = Len(u) + 1
      BY <1>4, <2>1, <3>1, <3>2
    <3>3. CASE i \in 2..Len(u)
      <4>1. i \in 1..Len(u)
        BY <1>4, <3>3
      <4>2. QED
        BY <1>2, <1>4, <3>1, <3>3, <4>1 DEF Rising
    <3>4. QED
      BY <3>1, <3>2, <3>3
  <2>3. QED
    BY <1>4, <2>2 DEF Rising
<1>6. \A i \in 1..Len(v) : v[i] <= arrived /\ v[i] > flushed
  <2>1. \A i \in 1..Len(u) : u[i] <= arrived /\ u[i] > flushed
    BY <1>2 DEF Below
  <2>2. \A i \in 1..Len(v) : i \in 1..Len(u) \/ i = Len(u) + 1
    BY <1>4
  <2>3. QED
    BY <1>2, <1>4, <2>1, <2>2
<1>7. Len(got) > 0 /\ Len(v) > 0 => got[Len(got)] < v[1]
  <2>1. Len(got) > 0 => got[Len(got)] < rdr
    <3>1. Len(got) > 0 => Len(got) \in 1..Len(got)
      BY <1>1
    <3>2. QED
      BY <1>2, <3>1 DEF Below
  <2>2. Len(u) > 0 \/ Len(u) = 0
    BY <1>4
  <2>3. (Len(u) > 0 => v[1] = u[1]) /\ (Len(u) = 0 => v[1] = rdr)
    BY <1>4
  <2>4. QED
    BY <1>2, <2>1, <2>2, <2>3
<1>8. NumbersInv'
  <2>1. \A i \in 1..Len(got) : got[i] <= arrived
    BY <1>2 DEF Below
  <2>2. Below(got)' /\ Below(Unread)' /\ Rising(Unread)' /\ Rising(got)'
    <3>1. Unread' = v
      BY DEF v
    <3>2. Rising(Unread)'
      BY <1>5, <3>1 DEF Rising
    <3>3. Rising(got)' /\ Below(got)'
      BY <1>2, <2>1 DEF Rising, Below
    <3>4. Below(Unread)'
      BY <1>6, <3>1 DEF Below
    <3>5. QED
      BY <3>2, <3>3, <3>4
  <2>3. QED
    BY <1>1, <1>2, <1>6, <1>7, <2>2 DEF NumbersInv, v
<1>9. CoverInv'
  <2>1. Range(v) = Range(u) \cup {rdr}
    BY <1>1, RangeAppend
  <2>2. QED
    BY <1>3, <2>1 DEF CoverInv, v
<1>10. QED
  BY <1>8, <1>9

(* A reset, by either side.                                                *)
LEMMA ResetNumbers ==
  ASSUME Typed, Ordered, Unread' = <<>>, UNCHANGED <<got, arrived>>, rdr' \in {0, rdr},
         flushed' <= arrived, rdr' # 0 => flushed' < rdr'
  PROVE  NumbersInv'
<1>1. Len(Unread') = 0
  BY DEF Unread
<1>2. rdr' <= arrived'
  BY Counted DEF Ordered, NumbersInv
<1>3. Rising(got)' /\ Below(got)'
  BY DEF Ordered, NumbersInv, Rising, Below
<1>4. Rising(Unread)' /\ Below(Unread)' /\ \A i \in 1..Len(Unread') : Unread'[i] > flushed'
  BY <1>1 DEF Rising, Below
<1>5. QED
  BY <1>1, <1>2, <1>3, <1>4 DEF NumbersInv

(* The main loop takes the first byte.                                     *)
LEMMA TakeNumbers ==
  ASSUME Typed, Ordered, Len(Unread) > 0,
         got' = Append(got, Unread[1]), Unread' = Tail(Unread),
         UNCHANGED <<rdr, arrived, flushed, dropped>>, ~Resetting
  PROVE  NumbersInv' /\ CoverInv'
<1> DEFINE u == Unread
           v == Unread'
           g == got'
<1>1. /\ u \in Seq(0..LAST) /\ v = Tail(u) /\ got \in Seq(0..LAST) /\ Len(u) > 0
      /\ g = Append(got, u[1])
  BY Counted, UnreadType DEF Typed, TypeOK, Ordered
<1>2. /\ Rising(got) /\ Below(got) /\ Rising(u) /\ Below(u)
      /\ Len(got) > 0 /\ Len(u) > 0 => got[Len(got)] < u[1]
      /\ \A i \in 1..Len(u) : u[i] > flushed
      /\ rdr <= arrived /\ flushed <= arrived /\ (rdr # 0 => flushed < rdr)
  BY DEF Ordered, NumbersInv
<1>3. 1..arrived \subseteq Range(got) \cup Range(u) \cup dropped \cup {rdr}
  BY DEF Ordered, CoverInv
<1> HIDE DEF u, v, g
<1>4. /\ v \in Seq(0..LAST) /\ Len(v) = Len(u) - 1 /\ Len(u) \in Nat \ {0}
      /\ \A i \in 1..(Len(u) - 1) : v[i] = u[i + 1]
      /\ 1 \in 1..Len(u)
  BY <1>1
<1>5. /\ Len(g) = Len(got) + 1 /\ Len(got) \in Nat
      /\ \A i \in 1..Len(got) : g[i] = got[i]
      /\ g[Len(got) + 1] = u[1]
  <2>1. u[1] \in 0..LAST
    BY <1>1, <1>4
  <2>2. QED
    BY <1>1, <2>1
<1>6. Rising(g)
  <2> SUFFICES ASSUME NEW i \in 2..(Len(got) + 1) PROVE g[i - 1] < g[i]
    BY <1>5 DEF Rising
  <2>1. i - 1 \in 1..Len(got) /\ (i = Len(got) + 1 \/ i \in 2..Len(got))
    BY <1>5
  <2>2. CASE i = Len(got) + 1
    <3>1. i - 1 = Len(got) /\ Len(got) > 0 /\ g[i - 1] = got[Len(got)]
      BY <1>5, <2>1, <2>2
    <3>2. QED
      BY <1>2, <1>4, <1>5, <2>2, <3>1
  <2>3. CASE i \in 2..Len(got)
    <3>1. i \in 1..Len(got)
      BY <1>5, <2>3
    <3>2. QED
      BY <1>2, <1>5, <2>1, <2>3, <3>1 DEF Rising
  <2>4. QED
    BY <2>1, <2>2, <2>3
<1>7. \A i \in 1..Len(g) : g[i] <= arrived /\ (rdr # 0 => g[i] < rdr)
  <2> SUFFICES ASSUME NEW i \in 1..(Len(got) + 1)
               PROVE  g[i] <= arrived /\ (rdr # 0 => g[i] < rdr)
    BY <1>5
  <2>1. i \in 1..Len(got) \/ i = Len(got) + 1
    BY <1>5
  <2>2. QED
    BY <1>2, <1>4, <1>5, <2>1 DEF Below
<1>8. Rising(v)
  <2> SUFFICES ASSUME NEW i \in 2..(Len(u) - 1) PROVE v[i - 1] < v[i]
    BY <1>4 DEF Rising
  <2>1. /\ i - 1 \in 1..(Len(u) - 1) /\ i \in 1..(Len(u) - 1) /\ i + 1 \in 2..Len(u)
        /\ (i - 1) + 1 = i /\ (i + 1) - 1 = i
    BY <1>4
  <2>2. v[i - 1] = u[i] /\ v[i] = u[i + 1]
    BY <1>4, <2>1
  <2>3. u[(i + 1) - 1] < u[i + 1]
    BY <1>2, <2>1 DEF Rising
  <2>4. QED
    BY <2>1, <2>2, <2>3
<1>9. \A i \in 1..Len(v) : v[i] <= arrived /\ (rdr # 0 => v[i] < rdr) /\ v[i] > flushed
  <2> SUFFICES ASSUME NEW i \in 1..(Len(u) - 1)
               PROVE  v[i] <= arrived /\ (rdr # 0 => v[i] < rdr) /\ v[i] > flushed
    BY <1>4
  <2>1. i + 1 \in 1..Len(u)
    BY <1>4
  <2>2. QED
    BY <1>2, <1>4, <2>1 DEF Below
<1>10. Len(g) > 0 /\ Len(v) > 0 => g[Len(g)] < v[1]
  <2> SUFFICES ASSUME Len(v) > 0 PROVE u[1] < v[1]
    BY <1>5
  <2>1. 1 \in 1..(Len(u) - 1) /\ 2 \in 2..Len(u) /\ 1 + 1 = 2 /\ 2 - 1 = 1
    BY <1>4
  <2>2. v[1] = u[2]
    BY <1>4, <2>1
  <2>3. u[2 - 1] < u[2]
    BY <1>2, <2>1 DEF Rising
  <2>4. QED
    BY <2>1, <2>2, <2>3
<1>11. NumbersInv'
  <2>1. Unread' = v /\ got' = g
    BY DEF v, g
  <2>2. Rising(got)' /\ Rising(Unread)'
    BY <1>6, <1>8, <2>1 DEF Rising
  <2>3. Below(got)' /\ Below(Unread)'
    BY <1>7, <1>9, <2>1 DEF Below
  <2>4. QED
    BY <1>2, <1>9, <1>10, <2>1, <2>2, <2>3 DEF NumbersInv
<1>12. CoverInv'
  <2>1. Range(u) = {u[1]} \cup Range(v)
    BY <1>1, RangeTail
  <2>2. Range(g) = Range(got) \cup {u[1]}
    <3>1. u[1] \in 0..LAST
      BY <1>1, <1>4
    <3>2. QED
      BY <1>1, <3>1, RangeAppend
  <2>3. 1..arrived \subseteq Range(g) \cup Range(v) \cup dropped \cup {rdr}
    BY <1>3, <2>1, <2>2
  <2>4. QED
    BY <2>3 DEF CoverInv, v, g
<1>13. QED
  BY <1>11, <1>12

-----------------------------------------------------------------------------
(* uart_get_rx_data_len in a uint8_t: whatever the comparison was when the *)
(* lengths are subtracted, the result promises no byte that is not there.  *)

LEMMA Multiples ==
  ASSUME NEW w \in Nat \ {0}, NEW p \in Int, NEW q \in Int, p < q
  PROVE  w * p + w <= w * q
<1>1. w * (q - p) >= w
  OBVIOUS
<1>2. w * (q - p) = w * q - w * p
  OBVIOUS
<1>3. w * q \in Int /\ w * p \in Int
  OBVIOUS
<1>4. QED
  BY <1>1, <1>2, <1>3

LEMMA SameRemainder ==
  ASSUME NEW w \in Nat \ {0}, NEW p \in Int, NEW q \in Int,
         NEW r \in 0..(w - 1), NEW s \in 0..(w - 1), w * p + r = w * q + s
  PROVE  r = s
<1>1. CASE p < q
  <2>1. w * p + w <= w * q /\ w * q \in Int /\ w * p \in Int
    BY <1>1, Multiples
  <2>2. QED
    BY <2>1
<1>2. CASE q < p
  <2>1. w * q + w <= w * p /\ w * q \in Int /\ w * p \in Int
    BY <1>2, Multiples
  <2>2. QED
    BY <2>1
<1>3. CASE p = q
  <2>1. w * q \in Int
    OBVIOUS
  <2>2. QED
    BY <1>3, <2>1
<1>4. QED
  BY <1>1, <1>2, <1>3

LEMMA Division ==
  ASSUME NEW n \in Int, NEW w \in Nat \ {0}
  PROVE  \E p \in Int : n = w * p + (n % w) /\ n % w \in 0..(w - 1)
<1>1. n = w * (n \div w) + (n % w) /\ n % w \in 0..(w - 1) /\ n \div w \in Int
  OBVIOUS
<1>2. QED
  BY <1>1

(* Once round a ring whose size is a multiple of w makes no difference.    *)
LEMMA RoundRemainder ==
  ASSUME NEW w \in Nat \ {0}, NEW size \in Nat, size % w = 0, NEW n \in Int
  PROVE  (n - size) % w = n % w
<1> DEFINE x == n - size
<1>1. PICK p \in Int : x = w * p + (x % w) /\ x % w \in 0..(w - 1)
  <2>1. x \in Int
    OBVIOUS
  <2> HIDE DEF x
  <2>2. QED
    BY <2>1, Division
<1>2. PICK q \in Int : size = w * q
  <2>1. size \in Int
    OBVIOUS
  <2>2. \E q \in Int : size = w * q + (size % w)
    BY <2>1, Division
  <2>3. \A q \in Int : w * q + 0 = w * q
    OBVIOUS
  <2>4. QED
    BY <2>2, <2>3
<1>3. PICK m \in Int : n = w * m + (n % w) /\ n % w \in 0..(w - 1)
  BY Division
<1> DEFINE r == x % w
           s == n % w
<1>4. /\ r \in 0..(w - 1) /\ s \in 0..(w - 1) /\ x \in Int
      /\ x = w * p + r /\ n = w * m + s /\ x = n - size
  BY <1>1, <1>3
<1> HIDE DEF x, r, s
<1>5. p + q \in Int /\ w * (p + q) + r = w * m + s
  <2>1. w * (p + q) = w * p + w * q
    OBVIOUS
  <2>2. w * p \in Int /\ w * q \in Int /\ w * m \in Int
    OBVIOUS
  <2>3. w * (p + q) + r = x + size
    BY <1>2, <1>4, <2>1, <2>2
  <2>4. x + size = n
    BY <1>4
  <2>5. QED
    BY <1>4, <2>3, <2>4
<1>6. r = s
  BY <1>4, <1>5, SameRemainder
<1>7. QED
  BY <1>6 DEF r, s, x

LEMMA Promised ==
  ASSUME NEW c \in Ring(Size, 0..LAST)
  PROVE  /\ (c.head - c.tail) % LEN_WRAP <= DataLen(c)
         /\ (c.length + c.head - c.tail) % LEN_WRAP <= DataLen(c)
         /\ (c.head - c.tail) % LEN_WRAP \in Int
         /\ (c.length + c.head - c.tail) % LEN_WRAP \in Int
         /\ DataLen(c) \in Nat
<1> DEFINE h == c.head
           t == c.tail
           near == h - t
           far == c.length + h - t
           w == LEN_WRAP
<1>1. /\ h \in 0..(Size - 1) /\ t \in 0..(Size - 1) /\ c.length = Size /\ Size \in Nat
  BY RingFields
<1>2. w \in Nat \ {0} /\ Size % w = 0
  BY SizesAssumption DEF Size
<1>3. near \in Int /\ far \in Int /\ near = far - Size
  BY <1>1
<1>4. near % w = far % w
  <2> HIDE DEF near, far, w
  <2>1. (far - Size) % w = far % w
    BY <1>1, <1>2, <1>3, RoundRemainder
  <2>2. QED
    BY <1>3, <2>1
<1>5. \A n \in Nat : n % w <= n /\ n % w \in Nat
  <2> HIDE DEF w
  <2>1. QED
    BY <1>2
<1>6. DataLen(c) \in Nat /\ ((DataLen(c) >= near /\ near \in Nat) \/ (DataLen(c) >= far /\ far \in Nat))
  BY <1>1 DEF DataLen
<1> HIDE DEF near, far, w
<1>7. near % w <= DataLen(c) /\ far % w <= DataLen(c) /\ near % w \in Int /\ far % w \in Int
  <2>1. CASE DataLen(c) >= near /\ near \in Nat
    BY <1>4, <1>5, <1>6, <2>1
  <2>2. CASE DataLen(c) >= far /\ far \in Nat
    BY <1>4, <1>5, <1>6, <2>2
  <2>3. QED
    BY <1>6, <2>1, <2>2
<1>8. QED
  BY <1>6, <1>7 DEF near, far, w, h, t

-----------------------------------------------------------------------------

(* A step that leaves ring and main loop alone.                            *)
LEMMA SamePlaces ==
  ASSUME PlaceInv, UNCHANGED <<cb, main>>
  PROVE  PlaceInv' /\ Unread' = Unread /\ Resetting' = Resetting
<1>1. UNCHANGED <<pc, len, reg>> /\ cb' = cb
  BY DEF main
<1>2. flag' = flag
  BY DEF main
<1>3. Resetting' = Resetting /\ Between' = Between
  BY <1>1 DEF Resetting, Between
<1>4. First' = First /\ Left' = Left
  BY <1>1, <1>3 DEF First, Left
<1>5. PlaceInv'
  BY <1>1, <1>2, <1>3, <1>4 DEF PlaceInv
<1>6. QED
  BY <1>1, <1>3, <1>4, <1>5 DEF Unread

LEMMA HardwareOrder ==
  ASSUME Typed, Ordered, Arrive \/ ReadStatus \/ EndRxTransfer \/ UNCHANGED vars
  PROVE  Ordered'
<1>1. UNCHANGED <<cb, main>>
  BY DEF Arrive, ReadStatus, EndRxTransfer, vars
<1>2. PlaceInv' /\ Unread' = Unread /\ Resetting' = Resetting
  BY <1>1, SamePlaces DEF Ordered
<1>3. CASE Arrive
  BY <1>2, <1>3, ArriveNumbers DEF Ordered
<1>4. CASE ~Arrive
  <2>1. UNCHANGED <<got, rdr, arrived, flushed, dropped>>
    BY <1>4 DEF ReadStatus, EndRxTransfer, vars, hardware, history
  <2>2. QED
    BY <1>2, <2>1, SameNumbers, SameCover DEF Ordered
<1>5. QED
  BY <1>3, <1>4

(* The main loop looks at the ring and finds what is right enough.         *)
LEMMA LoopOrder ==
  ASSUME Typed, Ordered,
         Lock \/ Unlock \/ Poll \/ LenCompare \/ LenSubtract \/ GetFull \/ Meet
  PROVE  Ordered'
<1>1. cb \in Ring(Size, 0..LAST)
  BY DEF Typed, TypeOK, Size
<1>2. cb' = cb /\ UNCHANGED <<got, rdr, arrived, flushed, dropped>>
  BY DEF Lock, Unlock, Poll, LenCompare, LenSubtract, GetFull, Meet, hardware, history
<1>3. ~Resetting /\ ~Between /\ ~Resetting' /\ ~Between'
  BY DEF Lock, Unlock, Poll, LenCompare, LenSubtract, GetFull, Meet, At, Resetting, Between
<1>4. First' = First /\ Left' = Left /\ Left = DataLen(cb)
  BY <1>2, <1>3 DEF First, Left
<1>5. Unread' = Unread
  BY <1>2, <1>4 DEF Unread
<1>6. (cb.full => cb.head = cb.tail) /\ (pc \in {"get", "meet", "take"} => Left >= len)
  BY <1>3 DEF Ordered, PlaceInv
<1>7. /\ pc' = "meet" /\ ~flag' => ~cb.full
      /\ pc' \in {"get", "meet", "take"} => Left >= len'
  <2>1. CASE LenSubtract
    <3> DEFINE near == (cb.head - cb.tail) % LEN_WRAP
               far == (cb.length + cb.head - cb.tail) % LEN_WRAP
    <3>1. len' = len /\ pc' \in {"get", "idle"} /\ (pc' = "get" => near >= len \/ far >= len)
      BY <2>1 DEF LenSubtract
    <3>2. near <= Left /\ far <= Left /\ near \in Int /\ far \in Int /\ Left \in Nat
      BY <1>1, <1>4, Promised
    <3>3. len \in Nat
      BY DEF Typed, TypeOK
    <3> HIDE DEF near, far
    <3>4. QED
      BY <3>1, <3>2, <3>3
  <2>2. CASE GetFull
    <3>1. pc = "get" /\ pc' = "meet" /\ len' = len /\ flag' = cb.full
      BY <2>2 DEF GetFull, At
    <3>2. QED
      BY <1>6, <3>1
  <2>3. CASE Meet
    BY <1>6, <2>3 DEF Meet
  <2>4. CASE Lock \/ Unlock \/ Poll \/ LenCompare
    BY <2>4 DEF Lock, Unlock, Poll, LenCompare, At
  <2>5. QED
    BY <2>1, <2>2, <2>3, <2>4
<1>8. PlaceInv'
  <2>1. pc' \notin {"full", "load tail", "tail", "reset tail", "reset full"}
    BY <1>3 DEF Resetting, Between
  <2>2. QED
    BY <1>2, <1>3, <1>4, <1>6, <1>7, <2>1 DEF PlaceInv
<1>9. QED
  BY <1>2, <1>3, <1>5, <1>8, SameNumbers, SameCover DEF Ordered

(* A get of a byte that is promised finds one.                             *)
LEMMA MeetFinds ==
  ASSUME Typed, Ordered, Meet
  PROVE  mishaps' = mishaps
<1>1. pc = "meet" /\ ~Between /\ ~Resetting
  BY DEF Meet, Between, Resetting
<1>2. cb \in Ring(Size, 0..LAST) /\ len >= 1 /\ len \in Nat
  BY <1>1 DEF Typed, TypeOK, CallInv, Size, Pcs
<1>3. DataLen(cb) >= len /\ (~flag => ~cb.full)
  BY <1>1 DEF Ordered, PlaceInv, Left
<1>4. ~(~flag /\ cb.head = cb.tail)
  <2> SUFFICES ASSUME ~cb.full, cb.head = cb.tail PROVE FALSE
    BY <1>3
  <2>1. DataLen(cb) = 0
    BY <1>2, RingFields DEF DataLen
  <2>2. QED
    BY <1>2, <1>3, <2>1
<1>5. QED
  BY <1>4 DEF Meet

LEMMA TakeOrder ==
  ASSUME Typed, Ordered, Take
  PROVE  Ordered'
<1>1. /\ pc = "take" /\ pc' = "full" /\ cb' = cb /\ got' = Append(got, cb.buffer[cb.tail])
      /\ UNCHANGED <<len, rdr, arrived, flushed, dropped>>
  BY DEF Take, At, Oldest, hardware
<1>2. ~Resetting /\ ~Between /\ ~Resetting' /\ Between'
  BY <1>1 DEF Resetting, Between
<1>3. cb \in Ring(Size, 0..LAST) /\ len \in Nat /\ len >= 1
  BY <1>1 DEF Typed, TypeOK, CallInv, Size, Pcs
<1>4. /\ First = cb.tail /\ First' = Round(cb.tail + 1)
      /\ Left = DataLen(cb) /\ Left' = Gap(cb) - 1
  BY <1>1, <1>2 DEF First, Left
<1>5. Left >= len /\ Left \in 0..Size /\ Left > 0 /\ (cb.full => cb.head = cb.tail)
  BY <1>1, <1>2, <1>3, Places DEF Ordered, PlaceInv
<1>6. Left' = Left - 1 /\ (cb.head = cb.tail => cb.full)
  BY <1>3, <1>4, <1>5, RingFields, SMTT(30) DEF DataLen, Gap
<1>7. PlaceInv'
  <2>1. Left' + 1 >= len'
    BY <1>1, <1>3, <1>5, <1>6
  <2>2. QED
    BY <1>1, <1>5, <1>6, <2>1 DEF PlaceInv
<1>8. Unread' = Tail(Unread) /\ cb.buffer[cb.tail] = Unread[1]
  <2>1. cb.buffer \in [0..(Size - 1) -> 0..LAST] /\ cb.tail \in 0..(Size - 1)
    BY <1>3, RingFields
  <2>2. /\ Queue(cb.buffer, Round(cb.tail + 1), Left - 1) = Tail(Queue(cb.buffer, cb.tail, Left))
        /\ Queue(cb.buffer, cb.tail, Left)[1] = cb.buffer[cb.tail]
    BY <1>5, <2>1, QueueShrinks
  <2>3. QED
    BY <1>1, <1>4, <1>6, <2>2 DEF Unread
<1>9. Len(Unread) > 0
  BY <1>5, UnreadType DEF Ordered
<1>10. QED
  BY <1>1, <1>2, <1>7, <1>8, <1>9, TakeNumbers DEF Ordered

(* The rest of a get: full is cleared, tail is moved.                      *)
LEMMA MoveTailOrder ==
  ASSUME Typed, Ordered, StoreFull \/ LoadTail \/ StoreTail
  PROVE  Ordered'
<1>1. cb \in Ring(Size, 0..LAST) /\ ~Resetting /\ Between /\ ~Resetting'
  BY DEF StoreFull, LoadTail, StoreTail, At, Typed, TypeOK, Resetting, Between, Size
<1>2. First = Round(cb.tail + 1) /\ Left = Gap(cb) - 1
  BY <1>1 DEF First, Left
<1>3. Left + 1 >= len /\ Left \in 0..(Size - 1) /\ len \in Nat
  BY <1>1, Places DEF Ordered, PlaceInv, Typed, TypeOK
<1>4. UNCHANGED <<got, rdr, arrived, flushed, dropped>>
  BY DEF StoreFull, LoadTail, StoreTail, hardware, history
<1>5. CASE StoreFull \/ LoadTail
  <2>1. /\ pc' \in {"load tail", "tail"} /\ len' = len
        /\ cb'.head = cb.head /\ cb'.tail = cb.tail /\ cb'.buffer = cb.buffer
    BY <1>1, <1>5 DEF StoreFull, LoadTail, At, Ring
  <2>2. ~cb'.full
    <3>1. CASE StoreFull
      BY <1>1, <3>1 DEF StoreFull, Ring
    <3>2. CASE LoadTail
      BY <3>2 DEF LoadTail, At, Ordered, PlaceInv
    <3>3. QED
      BY <1>5, <3>1, <3>2
  <2>3. Between' /\ First' = First /\ Left' = Left
    BY <1>1, <1>2, <2>1 DEF Between, First, Left, Gap
  <2>4. pc' = "tail" => reg' = Round(cb.tail + 1)
    <3>1. pc' = "tail" => reg' = After(cb, cb.tail)
      BY <1>5 DEF StoreFull, LoadTail, At
    <3>2. QED
      BY <1>1, <3>1, AfterIsRound, RingFields
  <2>5. PlaceInv'
    BY <1>3, <2>1, <2>2, <2>3, <2>4 DEF PlaceInv
  <2>6. Unread' = Unread
    BY <2>1, <2>3 DEF Unread
  <2>7. QED
    BY <1>1, <1>4, <2>5, <2>6, SameNumbers, SameCover DEF Ordered
<1>6. CASE StoreTail
  <2>1. /\ pc = "tail" /\ cb' = [cb EXCEPT !.tail = reg] /\ len' = len - 1
        /\ pc' = IF len = 1 THEN "idle" ELSE "get"
    BY <1>6 DEF StoreTail
  <2>2. reg = Round(cb.tail + 1) /\ ~cb.full /\ len >= 1
    BY <2>1 DEF Ordered, PlaceInv, Typed, CallInv, Pcs
  <2>3. /\ cb'.head = cb.head /\ cb'.tail = Round(cb.tail + 1) /\ cb'.buffer = cb.buffer
        /\ ~cb'.full /\ cb'.length = Size
    BY <1>1, <2>1, <2>2 DEF Ring, Size
  <2>4. ~Between' /\ First' = First /\ Left' = DataLen(cb')
    BY <1>1, <1>2, <2>1, <2>3 DEF Between, First, Left
  <2>5. DataLen(cb') = Gap(cb) - 1
    <3> DEFINE h == cb.head
               t == cb.tail
    <3>1. h \in 0..(Size - 1) /\ t \in 0..(Size - 1) /\ Size \in Nat
      BY <1>1, RingFields
    <3>2. DataLen(cb') = IF h >= Round(t + 1) THEN h - Round(t + 1) ELSE Size + h - Round(t + 1)
      BY <2>3 DEF DataLen
    <3>3. Gap(cb) = IF h > t THEN h - t ELSE Size + h - t
      BY DEF Gap
    <3> HIDE DEF h, t
    <3>4. (IF h >= Round(t + 1) THEN h - Round(t + 1) ELSE Size + h - Round(t + 1))
            = (IF h > t THEN h - t ELSE Size + h - t) - 1
      BY <3>1 DEF Round
    <3>5. QED
      BY <3>2, <3>3, <3>4
  <2>6. Left' = Left
    BY <1>2, <2>4, <2>5
  <2>7. PlaceInv'
    <3>1. pc' = "get" => Left' >= len'
      BY <1>3, <2>1, <2>6
    <3>2. pc' \in {"idle", "get"}
      BY <2>1
    <3>3. QED
      BY <2>3, <2>4, <3>1, <3>2 DEF PlaceInv
  <2>8. Unread' = Unread
    BY <2>3, <2>4, <2>6 DEF Unread
  <2>9. QED
    BY <1>1, <1>4, <2>7, <2>8, SameNumbers, SameCover DEF Ordered
<1>7. QED
  BY <1>5, <1>6

LEMMA ContentsAreUnread ==
  ASSUME Typed, PlaceInv, pc = "idle"
  PROVE  Contents(cb) = Unread
<1>1. cb \in Ring(Size, 0..LAST) /\ ~Resetting /\ ~Between
  BY DEF Typed, TypeOK, Size, Resetting, Between
<1>2. First = cb.tail /\ Left = DataLen(cb) /\ Left \in 0..Size
  BY <1>1, Places DEF First, Left
<1>3. cb.tail \in 0..(Size - 1) /\ cb.length = Size /\ Size \in Nat
  BY <1>1, RingFields
<1>4. ASSUME NEW i \in 1..Left
      PROVE  (cb.tail + i - 1) % cb.length = Round(cb.tail + (i - 1))
  <2>1. i - 1 \in 0..Size /\ cb.tail + i - 1 = cb.tail + (i - 1)
    BY <1>2, <1>3
  <2>2. (cb.tail + (i - 1)) % Size = Round(cb.tail + (i - 1))
    BY <1>3, <2>1, RoundInRing
  <2>3. QED
    BY <1>3, <2>1, <2>2
<1>5. Contents(cb) = [i \in 1..Left |-> cb.buffer[(cb.tail + i - 1) % cb.length]]
  BY <1>2 DEF Contents, FromTail
<1>6. QED
  BY <1>2, <1>4, <1>5 DEF Unread, Queue

(* uart_clear_rx_data: the new queue is what arrives after its first store.*)
LEMMA ClearOrder ==
  ASSUME Typed, Typed', Ordered, ResetHead \/ ResetTail \/ ResetFull
  PROVE  Ordered'
<1>1. cb \in Ring(Size, 0..LAST) /\ ~Between /\ ~Between'
  BY DEF ResetHead, ResetTail, ResetFull, At, Typed, TypeOK, Between, Size
<1>2. UNCHANGED <<got, rdr, arrived>>
  BY DEF ResetHead, ResetTail, ResetFull, hardware, history
<1>3. CASE ResetHead
  <2>1. pc' = "reset tail" /\ cb' = [cb EXCEPT !.head = 0]
        /\ flushed' = IF rdr = 0 THEN arrived ELSE rdr - 1
    BY <1>3 DEF ResetHead, At
  <2>2. Resetting' /\ Left' = 0
    BY <1>1, <2>1 DEF Resetting, Left, Ring
  <2>3. Unread' = <<>>
    BY <2>2 DEF Unread, Queue
  <2>4. flushed' <= arrived /\ (rdr' # 0 => flushed' < rdr')
    <3>1. rdr \in Nat /\ arrived \in Nat /\ rdr <= arrived
      BY Counted DEF Ordered, NumbersInv
    <3>2. QED
      <4>1. CASE rdr = 0
        <5>1. flushed' = arrived /\ rdr' = 0
          BY <1>2, <2>1, <4>1
        <5>2. QED
          BY <3>1, <5>1
      <4>2. CASE rdr # 0
        <5>1. flushed' = rdr - 1
          BY <2>1, <4>2
        <5>2. QED
          BY <1>2, <3>1, <4>2, <5>1
      <4>3. QED
        BY <4>1, <4>2
  <2>5. NumbersInv'
    BY <1>2, <2>3, <2>4, ResetNumbers
  <2>6. PlaceInv' /\ CoverInv'
    BY <1>1, <2>1, <2>2 DEF PlaceInv, CoverInv
  <2>7. QED
    BY <2>5, <2>6 DEF Ordered
<1>4. CASE ResetTail
  <2>1. pc = "reset tail" /\ pc' = "reset full" /\ cb' = [cb EXCEPT !.tail = 0]
        /\ UNCHANGED <<flushed, dropped>>
    BY <1>4 DEF ResetTail, At, history
  <2>2. cb'.head = cb.head /\ cb'.tail = 0 /\ cb'.buffer = cb.buffer
    BY <1>1, <2>1 DEF Ring
  <2>3. Resetting /\ Resetting'
    BY <2>1 DEF Resetting
  <2>4. First' = First /\ Left' = Left
    BY <2>2, <2>3 DEF First, Left
  <2>5. Unread' = Unread
    BY <2>2, <2>4 DEF Unread
  <2>6. PlaceInv'
    BY <1>1, <2>1, <2>2, <2>3 DEF PlaceInv
  <2>7. QED
    BY <1>2, <2>1, <2>3, <2>5, <2>6, SameNumbers, SameCover DEF Ordered
<1>5. CASE ResetFull
  <2>1. /\ pc = "reset full" /\ pc' = "idle" /\ cb' = [cb EXCEPT !.full = FALSE]
        /\ flushed' = flushed
        /\ dropped' = dropped \cup (1..arrived \ (Range(got) \cup Range(Contents(cb')) \cup {rdr}))
    BY <1>5 DEF ResetFull, At
  <2>2. cb.tail = 0 /\ Resetting /\ ~Resetting'
    BY <2>1 DEF Ordered, PlaceInv, Resetting
  <2>3. cb'.head = cb.head /\ cb'.tail = 0 /\ cb'.buffer = cb.buffer /\ ~cb'.full
    BY <1>1, <2>1, <2>2 DEF Ring
  <2>4. First' = First /\ Left' = Left
    <3>1. DataLen(cb') = cb.head
      BY <1>1, <2>3, RingFields DEF DataLen
    <3>2. QED
      BY <1>1, <2>2, <2>3, <3>1 DEF First, Left
  <2>5. Unread' = Unread
    BY <2>3, <2>4 DEF Unread
  <2>6. PlaceInv'
    BY <1>1, <2>1, <2>3 DEF PlaceInv
  <2>7. Contents(cb') = Unread'
    <3>1. (Typed /\ PlaceInv /\ pc = "idle" => Contents(cb) = Unread)'
      BY ContentsAreUnread, PTL
    <3>2. QED
      BY <2>1, <2>6, <3>1
  <2>8. CoverInv'
    BY <1>2, <2>1, <2>7 DEF CoverInv
  <2>9. QED
    BY <1>2, <2>1, <2>5, <2>6, <2>8, SameNumbers DEF Ordered
<1>6. QED
  BY <1>3, <1>4, <1>5

(* Where a byte that arrives does not tear a get apart.                    *)
LEMMA NotTorn ==
  ASSUME Typed, Receive, ~Torn'
  PROVE  /\ cb.full => pc \notin {"get", "meet", "take", "full", "load tail", "tail"}
         /\ ~cb.full /\ cb'.full => pc \notin {"load tail", "tail"} /\ ~(pc = "meet" /\ ~flag)
         /\ pc \in {"load tail", "tail"} => ~Empty(cb)
<1> DEFINE c == IF Accepts(cb, <<rdr>>) THEN Written(cb, <<rdr>>) ELSE Reset(cb)
<1>1. cb' = c /\ Tears(c) \subseteq mishaps'
  BY DEF Receive, RxCplt
<1>2. "reset" \notin Tears(cb') /\ "filled" \notin Tears(cb')
  BY <1>1 DEF Torn
<1>3. Accepts(cb, <<rdr>>) <=> ~cb.full
  BY AcceptsByte DEF Typed, TypeOK, Size
<1>4. cb.full => pc \notin {"get", "meet", "take", "full", "load tail", "tail"}
  BY <1>2, <1>3 DEF Tears
<1>5. ~(\/ Accepts(cb, <<rdr>>) /\ cb'.full /\ pc \in {"load tail", "tail"}
        \/ Accepts(cb, <<rdr>>) /\ cb'.full /\ pc = "meet" /\ ~flag
        \/ Empty(cb) /\ pc \in {"load tail", "tail"})
  BY <1>2 DEF Tears
<1>6. QED
  BY <1>3, <1>4, <1>5

(* A byte taken into a ring with room for it.                              *)
LEMMA AcceptOrder ==
  ASSUME Typed, Ordered, Receive, ~Torn', ~cb.full
  PROVE  Ordered'
<1>1. /\ rdr \in 1..LAST /\ rdr' = 0 /\ UNCHANGED <<pc, len, reg, arrived, got>>
      /\ cb'.buffer = [cb.buffer EXCEPT ![cb.head] = rdr]
      /\ cb'.head = Round(cb.head + 1) /\ cb'.tail = cb.tail
      /\ UNCHANGED <<flushed, dropped>>
  BY ReceiveRing
<1>2. cb'.full <=> cb'.head = cb.tail
  BY ReceiveRing
<1>3. flag' = flag
  BY DEF Receive, main
<1>4. /\ First \in 0..(Size - 1) /\ Left \in 0..Size /\ cb.head = Round(First + Left)
      /\ Between => Left \in 0..(Size - 1)
      /\ ~Resetting /\ ~Between => Left # Size
  BY Places DEF Ordered
<1>5. cb \in Ring(Size, 0..LAST) /\ cb.buffer \in [0..(Size - 1) -> 0..LAST] /\ cb.length = Size
      /\ cb.head \in 0..(Size - 1) /\ cb.tail \in 0..(Size - 1) /\ Size \in Nat \ {0}
  BY RingFields DEF Typed, TypeOK, Size
<1>6. cb'.length = Size
  BY ReceiveRing, RingFields
<1>7. Resetting' = Resetting /\ Between' = Between /\ First' = First
  BY <1>1 DEF Resetting, Between, First
<1>8. (Left' = Left + 1 /\ Left < Size) \/ (Resetting /\ Left' = 0)
  <2> DEFINE h == cb.head
             t == cb.tail
             next == cb'.head
  <2>1. next = Round(h + 1) /\ h \in 0..(Size - 1) /\ t \in 0..(Size - 1) /\ Size \in Nat \ {0}
    BY <1>1, <1>5
  <2>2. CASE Resetting
    <3>1. Left = h /\ Left' = next
      BY <1>7, <2>2 DEF Left
    <3> HIDE DEF h, t, next
    <3>2. QED
      BY <2>1, <2>2, <3>1 DEF Round
  <2>3. CASE Between
    <3>1. Left = (IF h > t THEN h - t ELSE Size + h - t) - 1
          /\ Left' = (IF next > t THEN next - t ELSE Size + next - t) - 1
      BY <1>1, <1>7, <2>3 DEF Left, Gap, Between, Resetting
    <3>2. h # t
      BY <2>3, NotTorn DEF Ordered, PlaceInv, Between, Empty
    <3> DEFINE left == Left
               more == Left'
    <3>3. left = (IF h > t THEN h - t ELSE Size + h - t) - 1
          /\ more = (IF next > t THEN next - t ELSE Size + next - t) - 1
      BY <3>1
    <3> HIDE DEF h, t, next, left, more
    <3>4. more = left + 1 /\ left < Size
      BY <2>1, <3>2, <3>3 DEF Round
    <3>5. QED
      BY <3>4 DEF left, more
  <2>4. CASE ~Resetting /\ ~Between
    <3>1. Left = IF h >= t THEN h - t ELSE Size + h - t
      BY <1>5, <2>4 DEF Left, DataLen
    <3>2. Left' = IF next = t THEN Size ELSE IF next >= t THEN next - t ELSE Size + next - t
      BY <1>1, <1>2, <1>6, <1>7, <2>4 DEF Left, DataLen
    <3> DEFINE left == Left
               more == Left'
    <3>3. /\ left = IF h >= t THEN h - t ELSE Size + h - t
          /\ more = IF next = t THEN Size ELSE IF next >= t THEN next - t ELSE Size + next - t
      BY <3>1, <3>2
    <3> HIDE DEF h, t, next, left, more
    <3>4. more = left + 1 /\ left < Size
      BY <2>1, <3>3 DEF Round
    <3>5. QED
      BY <3>4 DEF left, more
  <2>5. QED
    BY <2>2, <2>3, <2>4
<1>9. PlaceInv'
  <2>1. cb'.full => pc \notin {"load tail", "tail"} /\ ~(pc = "meet" /\ ~flag)
    BY NotTorn
  <2>2. Left \in Int /\ len \in Nat
    <3>1. Left \in Int
      BY <1>4, <1>5
    <3>2. QED
      BY <3>1 DEF Typed, TypeOK
  <2>3. pc \in {"get", "meet", "take"} => Left' >= len'
    <3> SUFFICES ASSUME pc \in {"get", "meet", "take"} PROVE Left' >= len
      BY <1>1
    <3>1. Left >= len /\ Left' = Left + 1 /\ Left \in Int /\ len \in Nat
      <4>1. Left >= len
        BY DEF Ordered, PlaceInv
      <4>2. Left' = Left + 1
        BY <1>8 DEF Resetting
      <4>3. QED
        BY <2>2, <4>1, <4>2
    <3>2. QED
      BY <3>1
  <2>4. Between => Left' + 1 >= len'
    <3> SUFFICES ASSUME Between PROVE Left' + 1 >= len
      BY <1>1
    <3>1. Left + 1 >= len /\ Left' = Left + 1 /\ Left \in Int /\ len \in Nat
      <4>1. Left + 1 >= len
        BY DEF Ordered, PlaceInv
      <4>2. Left' = Left + 1
        BY <1>8 DEF Resetting, Between
      <4>3. QED
        BY <2>2, <4>1, <4>2
    <3>2. QED
      BY <3>1
  <2>5. pc = "tail" => reg = Round(cb.tail + 1)
    BY DEF Ordered, PlaceInv
  <2>6. pc = "reset full" => cb.tail = 0
    BY DEF Ordered, PlaceInv
  <2>7. QED
    BY <1>1, <1>2, <1>3, <1>7, <2>1, <2>3, <2>4, <2>5, <2>6 DEF PlaceInv
<1>10. CASE Left' = Left + 1 /\ Left < Size
  <2>1. Unread' = Append(Unread, rdr)
    <3>1. rdr \in 0..LAST
      BY <1>1
    <3>2. Queue([cb.buffer EXCEPT ![Round(First + Left)] = rdr], First, Left + 1)
            = Append(Queue(cb.buffer, First, Left), rdr)
      <4> DEFINE b == cb.buffer
                 t == First
                 n == Left
      <4>1. /\ b \in [0..(Size - 1) -> 0..LAST] /\ t \in 0..(Size - 1) /\ n \in 0..Size
            /\ n < Size
        BY <1>4, <1>5, <1>10
      <4> HIDE DEF b, t, n
      <4>2. Queue([b EXCEPT ![Round(t + n)] = rdr], t, n + 1) = Append(Queue(b, t, n), rdr)
        BY <3>1, <4>1, QueueGrows
      <4>3. QED
        BY <4>2 DEF b, t, n
    <3>3. QED
      BY <1>1, <1>4, <1>7, <1>10, <3>2 DEF Unread
  <2>2. QED
    BY <1>1, <1>7, <1>9, <2>1, PutNumbers DEF Ordered
<1>11. CASE Resetting /\ Left' = 0
  <2>1. Unread' = <<>>
    BY <1>11 DEF Unread, Queue
  <2>2. NumbersInv'
    <3>1. flushed' <= arrived
      BY <1>1 DEF Ordered, NumbersInv
    <3>2. QED
      BY <1>1, <2>1, <3>1, ResetNumbers
  <2>3. QED
    BY <1>7, <1>9, <1>11, <2>2 DEF Ordered, CoverInv
<1>12. QED
  BY <1>8, <1>10, <1>11

(* A byte that finds the ring full: the ring is reset.                     *)
LEMMA RefuseOrder ==
  ASSUME Typed, Ordered, Receive, ~Torn', cb.full
  PROVE  Ordered'
<1>1. /\ rdr \in 1..LAST /\ rdr' = 0 /\ UNCHANGED <<pc, len, reg, arrived, got>>
      /\ cb'.head = 0 /\ cb'.tail = 0 /\ ~cb'.full /\ flushed' = rdr
      /\ dropped' = dropped \cup (1..rdr \ Range(got))
  BY ReceiveRing
<1>2. pc \notin {"get", "meet", "take", "full", "load tail", "tail"}
  BY NotTorn
<1>3. ~Between' /\ Resetting' = Resetting
  BY <1>1, <1>2 DEF Between, Resetting
<1>4. Left' = 0
  BY <1>1, <1>3, RingFields DEF Left, DataLen
<1>5. Unread' = <<>>
  BY <1>4 DEF Unread, Queue
<1>6. NumbersInv'
  <2>1. flushed' <= arrived
    BY <1>1 DEF Ordered, NumbersInv
  <2>2. QED
    BY <1>1, <1>5, <2>1, ResetNumbers
<1>7. CoverInv'
  <2> SUFFICES ASSUME ~Resetting, NEW k \in 1..arrived PROVE k \in Range(got) \cup dropped'
    BY <1>1, <1>3 DEF CoverInv
  <2>1. CASE k \in 1..rdr
    BY <1>1, <2>1
  <2>2. CASE k \notin 1..rdr
    <3>1. k > rdr /\ k \in Nat
      BY <1>1, <2>2
    <3>2. \A i \in 1..Len(Unread) : Unread[i] # k
      <4>1. \A i \in 1..Len(Unread) : Unread[i] < rdr
        BY <1>1 DEF Ordered, NumbersInv, Below
      <4>2. QED
        BY <1>1, <3>1, <4>1
    <3>3. k \notin Range(Unread)
      <4>1. Unread \in Seq(0..LAST)
        BY UnreadType DEF Ordered
      <4>2. DOMAIN Unread = 1..Len(Unread)
        BY <4>1
      <4>3. QED
        BY <3>2, <4>2 DEF Range
    <3>4. k \in Range(got) \cup Range(Unread) \cup dropped \cup {rdr}
      BY DEF Ordered, CoverInv
    <3>5. QED
      BY <1>1, <3>1, <3>3, <3>4
  <2>3. QED
    BY <2>1, <2>2
<1>8. PlaceInv'
  BY <1>1, <1>2, <1>3 DEF PlaceInv
<1>9. QED
  BY <1>6, <1>7, <1>8 DEF Ordered

-----------------------------------------------------------------------------

LEMMA InitOrder == Init => OrderInv
<1> SUFFICES ASSUME Init PROVE Ordered
  BY DEF OrderInv
<1>1. /\ cb.head = 0 /\ cb.tail = 0 /\ ~cb.full /\ pc = "idle" /\ rdr = 0 /\ arrived = 0
      /\ Len(got) = 0 /\ flushed = 0
  BY DEF Init, circular_buff_init
<1>2. Left = 0
  BY <1>1 DEF Left, Resetting, Between, DataLen
<1>3. Len(Unread) = 0
  BY <1>2 DEF Unread, Queue
<1>4. PlaceInv
  BY <1>1 DEF PlaceInv, Between
<1>5. NumbersInv
  BY <1>1, <1>3 DEF NumbersInv, Rising, Below
<1>6. CoverInv
  BY <1>1 DEF CoverInv
<1>7. QED
  BY <1>4, <1>5, <1>6 DEF Ordered

LEMMA MishapsStay ==
  ASSUME Typed, [Next]_vars
  PROVE  mishaps \subseteq mishaps' /\ (~Meet /\ "short" \in mishaps' => "short" \in mishaps)
<1>1. CASE UNCHANGED vars
  BY <1>1 DEF vars, history
<1>2. CASE Receive
  BY <1>2 DEF Receive, RxCplt, Tears
<1>3. CASE Arrive
  BY <1>3 DEF Arrive
<1>4. CASE ReadStatus \/ EndRxTransfer
  BY <1>4 DEF ReadStatus, EndRxTransfer, history
<1>5. CASE Meet
  BY <1>5 DEF Meet
<1>6. CASE Main /\ ~Meet
  BY <1>6 DEF Main, Lock, Unlock, Poll, LenCompare, LenSubtract, GetFull, Take, StoreFull,
              LoadTail, StoreTail, ResetHead, ResetTail, ResetFull, history
<1>7. QED
  BY <1>1, <1>2, <1>3, <1>4, <1>5, <1>6 DEF Next

LEMMA StepOrder == Typed /\ OrderInv /\ [Next]_vars => OrderInv'
<1> SUFFICES ASSUME Typed, OrderInv, [Next]_vars, ~Torn' PROVE Ordered'
  BY DEF OrderInv
<1>1. Ordered /\ Typed'
  BY MishapsStay, StepTyped DEF OrderInv, Torn
<1>2. CASE Arrive \/ ReadStatus \/ EndRxTransfer \/ UNCHANGED vars
  BY <1>1, <1>2, HardwareOrder
<1>3. CASE Lock \/ Unlock \/ Poll \/ LenCompare \/ LenSubtract \/ GetFull \/ Meet
  BY <1>1, <1>3, LoopOrder
<1>4. CASE Take
  BY <1>1, <1>4, TakeOrder
<1>5. CASE StoreFull \/ LoadTail \/ StoreTail
  BY <1>1, <1>5, MoveTailOrder
<1>6. CASE ResetHead \/ ResetTail \/ ResetFull
  BY <1>1, <1>6, ClearOrder
<1>7. CASE Receive
  BY <1>1, <1>7, AcceptOrder, RefuseOrder
<1>8. QED
  BY <1>2, <1>3, <1>4, <1>5, <1>6, <1>7 DEF Next, Main

LEMMA OrderInvariance == Spec => [](Typed /\ OrderInv)
BY InitTyped, InitOrder, StepTyped, StepOrder, PTL DEF Spec

-----------------------------------------------------------------------------

(* README, Peripheral Data Processing, and uart_driver.c: between two      *)
(* calls the main loop has read the bytes in the order of their arrival,   *)
(* and every byte is read, in the ring, in the data register, or was       *)
(* thrown away by an overrun or a reset - unless the ring reached its      *)
(* limit in the middle of a get.                                           *)
THEOREM BytesInOrder == Spec => []ReadInOrder
<1>1. Typed /\ OrderInv => ReadInOrder
  <2> SUFFICES ASSUME Typed, Ordered, pc = "idle"
               PROVE  /\ \A i \in 2..Len(got \o Contents(cb)) :
                           (got \o Contents(cb))[i - 1] < (got \o Contents(cb))[i]
                      /\ 1..arrived \subseteq Range(got \o Contents(cb)) \cup dropped \cup {rdr}
    BY DEF OrderInv, ReadInOrder, Quiet
  <2> DEFINE c == Contents(cb)
             all == got \o c
  <2>1. c = Unread
    BY ContentsAreUnread DEF Ordered
  <2>2. c \in Seq(0..LAST) /\ got \in Seq(0..LAST)
    BY <2>1, UnreadType DEF Typed, TypeOK, Ordered
  <2>3. /\ Rising(got) /\ Rising(c) /\ (Len(got) > 0 /\ Len(c) > 0 => got[Len(got)] < c[1])
        /\ 1..arrived \subseteq Range(got) \cup Range(c) \cup dropped \cup {rdr}
    BY <2>1 DEF Ordered, NumbersInv, CoverInv, Resetting
  <2> HIDE DEF c
  <2>4. /\ Len(all) = Len(got) + Len(c) /\ Len(got) \in Nat /\ Len(c) \in Nat
        /\ \A i \in 1..(Len(got) + Len(c)) :
             all[i] = IF i <= Len(got) THEN got[i] ELSE c[i - Len(got)]
        /\ all \in Seq(0..LAST)
    BY <2>2, ConcatProperties
  <2> HIDE DEF all
  <2>5. \A i \in 2..Len(all) : all[i - 1] < all[i]
    <3> SUFFICES ASSUME NEW i \in 2..(Len(got) + Len(c)) PROVE all[i - 1] < all[i]
      BY <2>4
    <3>1. i - 1 \in 1..(Len(got) + Len(c)) /\ i \in 1..(Len(got) + Len(c))
      BY <2>4
    <3>2. CASE i <= Len(got)
      <4>1. all[i - 1] = got[i - 1] /\ all[i] = got[i] /\ i \in 2..Len(got)
        BY <2>4, <3>1, <3>2, SMTT(30)
      <4>2. QED
        BY <2>3, <4>1 DEF Rising
    <3>3. CASE i = Len(got) + 1
      <4>1. all[i - 1] = got[Len(got)] /\ all[i] = c[1] /\ Len(got) > 0 /\ Len(c) > 0
        BY <2>4, <3>1, <3>3, SMTT(30)
      <4>2. QED
        BY <2>3, <4>1
    <3>4. CASE i > Len(got) + 1
      <4> DEFINE j == i - Len(got)
      <4>1. all[i - 1] = c[j - 1] /\ all[i] = c[j] /\ j \in 2..Len(c)
        <5>1. j \in 2..Len(c) /\ (i - 1) - Len(got) = j - 1
              /\ ~(i <= Len(got)) /\ ~(i - 1 <= Len(got))
          BY <2>4, <3>1, <3>4
        <5>2. all[i - 1] = c[(i - 1) - Len(got)] /\ all[i] = c[i - Len(got)]
          BY <2>4, <3>1, <5>1
        <5>3. QED
          BY <5>1, <5>2
      <4> HIDE DEF j
      <4>2. QED
        BY <2>3, <4>1 DEF Rising
    <3>5. QED
      BY <2>4, <3>2, <3>3, <3>4
  <2>6. Range(got) \cup Range(c) \subseteq Range(all)
    <3>1. DOMAIN got = 1..Len(got) /\ DOMAIN c = 1..Len(c) /\ DOMAIN all = 1..(Len(got) + Len(c))
      BY <2>2, <2>4
    <3>2. ASSUME NEW i \in 1..Len(got) PROVE got[i] \in Range(all)
      <4>1. i \in 1..(Len(got) + Len(c)) /\ all[i] = got[i]
        BY <2>4
      <4>2. QED
        BY <3>1, <4>1 DEF Range
    <3>3. ASSUME NEW i \in 1..Len(c) PROVE c[i] \in Range(all)
      <4>1. i + Len(got) \in 1..(Len(got) + Len(c)) /\ ~(i + Len(got) <= Len(got))
            /\ (i + Len(got)) - Len(got) = i
        BY <2>4
      <4>2. all[i + Len(got)] = c[i]
        BY <2>4, <4>1
      <4>3. QED
        BY <3>1, <4>1, <4>2 DEF Range
    <3>4. QED
      BY <3>1, <3>2, <3>3 DEF Range
  <2>7. QED
    BY <2>3, <2>5, <2>6 DEF all, c
<1>2. QED
  BY <1>1, OrderInvariance, PTL

(* uart_driver.c, "Reinit ring buffer": between two calls the ring holds   *)
(* no byte from before the last reset, whichever side reset it.            *)
THEOREM FreshAfterReset == Spec => []ReinitIsFresh
<1>1. Typed /\ OrderInv => ReinitIsFresh
  <2> SUFFICES ASSUME Typed, Ordered, pc = "idle", NEW byte \in Range(Contents(cb))
               PROVE  byte > flushed
    BY DEF OrderInv, ReinitIsFresh, Quiet
  <2>1. byte \in Range(Unread)
    BY ContentsAreUnread DEF Ordered
  <2>2. Unread \in Seq(0..LAST)
    BY UnreadType DEF Ordered
  <2>3. PICK i \in 1..Len(Unread) : byte = Unread[i]
    BY <2>1, <2>2 DEF Range
  <2>4. QED
    BY <2>3 DEF Ordered, NumbersInv
<1>2. QED
  BY <1>1, OrderInvariance, PTL

(* uart_driver.c: a read of no more bytes than the length in a uint8_t has *)
(* promised comes out whole, whatever arrives between the test, with its   *)
(* two loads of the length, and the read.                                  *)
THEOREM PromiseKept == Spec => []TestedReadIsWhole
<1>1. Init => TestedReadIsWhole
  BY DEF Init, TestedReadIsWhole
<1>2. TestedReadIsWhole /\ Typed /\ OrderInv /\ [Next]_vars => TestedReadIsWhole'
  <2> SUFFICES ASSUME TestedReadIsWhole, Typed, OrderInv, [Next]_vars,
                      "short" \in mishaps', ~Torn'
               PROVE  FALSE
    BY DEF TestedReadIsWhole
  <2>1. "short" \notin mishaps /\ ~Torn
    BY MishapsStay DEF TestedReadIsWhole, Torn
  <2>2. Meet
    BY <2>1, MishapsStay
  <2>3. QED
    BY <2>1, <2>2, MeetFinds DEF OrderInv
<1>3. QED
  BY <1>1, <1>2, OrderInvariance, PTL DEF Spec

=============================================================================
