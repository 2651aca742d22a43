---------------------------- MODULE UartTx_proof ----------------------------
(***************************************************************************)
(* Proofs about UartTx, for every size of the ring and of a chunk, every   *)
(* block and every number of bytes: however the main loop and the          *)
(* interrupt interleave, no byte is left behind, and the bytes leave once  *)
(* and in order.                                                           *)
(***************************************************************************)
EXTENDS UartTx, SequenceTheorems, TLAPS

Pcs == {"idle", "compare", "subtract", "store", "tail", "head", "meet", "full", "kick"}

(* There are numbers left for the bytes still to be put.                   *)
PutInv ==
  /\ pc \in {"compare", "subtract", "store", "tail", "head"} =>
       len >= 1 /\ written + len <= LAST
  /\ pc \in {"meet", "full"} => len >= 1 /\ written + len <= LAST + 1
  /\ pc = "tail" => reg \in 0..(TX_DATA_BUFF_SIZE - 1)

(* The interrupt is on while bytes are being sent, and then there are some.*)
SendInv ==
  /\ gState = "ready" <=> it = "none"
  /\ it = "txe" => pending # <<>>

(* Until a byte is put, a machine that sends nothing has nothing to send.  *)
StrandInv ==
  pc \in {"idle", "compare", "subtract"} /\ gState = "ready" => Empty(cb)

Inv == TypeOK /\ PutInv /\ SendInv /\ StrandInv

USE SizesAssumption

-----------------------------------------------------------------------------
(* Lemmas about the ring, whatever its full flag says *)

LEMMA RingFields ==
  ASSUME NEW c \in Ring(TX_DATA_BUFF_SIZE, 0..LAST)
  PROVE  /\ c.length = TX_DATA_BUFF_SIZE
         /\ c.head \in 0..(TX_DATA_BUFF_SIZE - 1) /\ c.tail \in 0..(TX_DATA_BUFF_SIZE - 1)
         /\ c.buffer \in [0..(TX_DATA_BUFF_SIZE - 1) -> 0..LAST]
         /\ c.full \in BOOLEAN
BY DEF Ring

LEMMA AfterInRing ==
  ASSUME NEW c \in Ring(TX_DATA_BUFF_SIZE, 0..LAST), NEW i \in Nat
  PROVE  i % c.length \in 0..(TX_DATA_BUFF_SIZE - 1)
BY RingFields

LEMMA DataLenType ==
  ASSUME NEW c \in Ring(TX_DATA_BUFF_SIZE, 0..LAST)
  PROVE  DataLen(c) \in Nat /\ (DataLen(c) = 0 => Empty(c))
BY RingFields DEF DataLen, Empty

LEMMA AvailableType ==
  ASSUME NEW c \in Ring(TX_DATA_BUFF_SIZE, 0..LAST)
  PROVE  Available(c) \in Nat
<1>1. [c EXCEPT !.full = FALSE] \in Ring(TX_DATA_BUFF_SIZE, 0..LAST)
  BY DEF Ring
<1>2. QED
  BY <1>1, DataLenType DEF Available

LEMMA AfterReadType ==
  ASSUME NEW c \in Ring(TX_DATA_BUFF_SIZE, 0..LAST), NEW n \in Nat
  PROVE  AfterRead(c, n) \in Ring(TX_DATA_BUFF_SIZE, 0..LAST)
<1> DEFINE tail == (c.tail + Least(n, Available(c))) % c.length
<1>1. Least(n, Available(c)) \in Nat
  BY AvailableType DEF Least
<1>2. tail \in 0..(TX_DATA_BUFF_SIZE - 1)
  <2>1. c.tail + Least(n, Available(c)) \in Nat
    BY <1>1, RingFields
  <2>2. QED
    BY <2>1, AfterInRing
<1>3. AfterRead(c, n) = c \/ AfterRead(c, n) = [c EXCEPT !.full = FALSE, !.tail = tail]
  BY DEF AfterRead
<1> HIDE DEF tail
<1>4. QED
  BY <1>2, <1>3 DEF Ring

LEMMA BytesReadType ==
  ASSUME NEW c \in Ring(TX_DATA_BUFF_SIZE, 0..LAST), NEW n \in Nat,
         NEW i \in 1..Len(BytesRead(c, n))
  PROVE  BytesRead(c, n)[i] \in 0..LAST
<1> DEFINE m == Least(n, Available(c))
<1>1. m \in Nat
  BY AvailableType DEF Least
<1> HIDE DEF m
<1>2. BytesRead(c, n) = [j \in 1..m |-> c.buffer[(c.tail + j - 1) % c.length]]
  BY DEF BytesRead, FromTail, m
<1>3. ASSUME NEW j \in 1..m PROVE c.buffer[(c.tail + j - 1) % c.length] \in 0..LAST
  <2>1. c.tail + j - 1 \in Nat
    BY <1>1, RingFields
  <2>2. (c.tail + j - 1) % c.length \in 0..(TX_DATA_BUFF_SIZE - 1)
    BY <2>1, AfterInRing
  <2>3. QED
    BY <2>2, RingFields
<1>4. Len(BytesRead(c, n)) = m
  BY <1>1, <1>2
<1>5. QED
  BY <1>2, <1>3, <1>4

(* A chunk has at least a byte, because its size is at least two.          *)
LEMMA ChunkType ==
  ASSUME cb \in Ring(TX_DATA_BUFF_SIZE, 0..LAST), DataLen(cb) > 0
  PROVE  ChunkLen \in Nat /\ Chunk \in Seq(0..LAST) /\ Chunk # <<>>
<1>1. ChunkLen \in Nat \ {0}
  BY DataLenType DEF ChunkLen
<1>2. ASSUME NEW i \in 1..ChunkLen
      PROVE  (IF i <= Len(BytesRead(cb, ChunkLen)) THEN BytesRead(cb, ChunkLen)[i] ELSE 0)
               \in 0..LAST
  <2>1. CASE i <= Len(BytesRead(cb, ChunkLen))
    <3>1. i \in Nat /\ i >= 1
      BY <1>1
    <3>2. Len(BytesRead(cb, ChunkLen)) \in Nat
      <4>1. Least(ChunkLen, Available(cb)) \in Nat
        BY <1>1, AvailableType DEF Least
      <4>2. QED
        BY <4>1 DEF BytesRead, FromTail
    <3>3. i \in 1..Len(BytesRead(cb, ChunkLen))
      BY <2>1, <3>1, <3>2
    <3>4. QED
      BY <1>1, <2>1, <3>3, BytesReadType
  <2>2. CASE ~(i <= Len(BytesRead(cb, ChunkLen)))
    BY <2>2
  <2>3. QED
    BY <2>1, <2>2
<1>3. Chunk \in [1..ChunkLen -> 0..LAST]
  BY <1>2 DEF Chunk
<1>4. QED
  BY <1>1, <1>3

-----------------------------------------------------------------------------

LEMMA InitInv == Init => Inv
<1> SUFFICES ASSUME Init PROVE Inv
  OBVIOUS
<1>1. cb \in Ring(TX_DATA_BUFF_SIZE, 0..LAST) /\ Empty(cb)
  BY DEF Init, circular_buff_init, Ring, Empty
<1>2. TypeOK
  <2>1. flag \in BOOLEAN
    BY DEF Init
  <2>2. pending \in Seq(0..LAST) /\ line \in Seq(0..LAST) /\ written \in 0..LAST
    BY DEF Init
  <2>3. QED
    BY <1>1, <2>1, <2>2 DEF Init, TypeOK
<1>3. QED
  BY <1>1, <1>2 DEF Init, Inv, PutInv, SendInv, StrandInv

(* The main loop's steps before a byte is put.                             *)
LEMMA TestInv == Inv /\ (Call \/ LenCompare \/ LenSubtract) => Inv'
<1> SUFFICES ASSUME Inv, Call \/ LenCompare \/ LenSubtract PROVE Inv'
  OBVIOUS
<1>1. /\ UNCHANGED <<cb, reg, huart2, line, written, mishaps>>
      /\ pc \in {"idle", "compare", "subtract"}
  BY DEF Call, LenCompare, LenSubtract, At
<1>2. StrandInv' /\ SendInv'
  BY <1>1 DEF Inv, StrandInv, SendInv, huart2, Empty
<1>3. CASE Call
  <2>1. PICK n \in Lens : written + n <= LAST /\ len' = n
    BY <1>3 DEF Call
  <2>2. pc' \in {"idle", "compare"} /\ flag' = flag
    BY <1>3 DEF Call
  <2>3. TypeOK'
    BY <1>1, <2>1, <2>2 DEF Inv, TypeOK, huart2
  <2>4. PutInv'
    BY <1>1, <2>1, <2>2 DEF PutInv
  <2>5. QED
    BY <1>2, <2>3, <2>4 DEF Inv
<1>4. CASE LenCompare
  <2>1. /\ pc = "compare" /\ pc' = "subtract" /\ len' = len
        /\ flag' = (cb.head >= cb.tail)
    BY <1>4 DEF LenCompare, At
  <2>2. flag' \in BOOLEAN
    BY <2>1
  <2>3. TypeOK'
    BY <1>1, <2>1, <2>2 DEF Inv, TypeOK, huart2
  <2>4. PutInv'
    BY <1>1, <2>1 DEF Inv, PutInv
  <2>5. QED
    BY <1>2, <2>3, <2>4 DEF Inv
<1>5. CASE LenSubtract
  <2>1. pc = "subtract" /\ pc' \in {"store", "idle"} /\ len' = len /\ flag' = flag
    BY <1>5 DEF LenSubtract
  <2>2. TypeOK'
    BY <1>1, <2>1 DEF Inv, TypeOK, huart2
  <2>3. PutInv'
    BY <1>1, <2>1 DEF Inv, PutInv
  <2>4. QED
    BY <1>2, <2>2, <2>3 DEF Inv
<1>6. QED
  BY <1>3, <1>4, <1>5

(* A step of the main loop that changes the ring, and puts.                *)
LEMMA PutStepInv ==
  ASSUME Inv,
         UNCHANGED <<huart2, line, mishaps>>,
         pc' \in {"store", "tail", "head", "meet", "full", "kick"},
         cb' \in Ring(TX_DATA_BUFF_SIZE, 0..LAST),
         len' \in Nat, reg' \in Nat, flag' \in BOOLEAN, written' \in 0..LAST,
         PutInv'
  PROVE  Inv'
<1>1. TypeOK'
  BY DEF Inv, TypeOK, huart2
<1>2. SendInv' /\ StrandInv'
  BY DEF Inv, SendInv, StrandInv, huart2
<1>3. QED
  BY <1>1, <1>2 DEF Inv

LEMMA PutBytesInv ==
  Inv /\ (StoreByte \/ StoreTail \/ StoreHead \/ Meet \/ StoreFull) => Inv'
<1> SUFFICES ASSUME Inv, StoreByte \/ StoreTail \/ StoreHead \/ Meet \/ StoreFull
             PROVE  Inv'
  OBVIOUS
<1>0. /\ cb \in Ring(TX_DATA_BUFF_SIZE, 0..LAST) /\ len \in Nat /\ reg \in Nat
      /\ written \in 0..LAST
  BY DEF Inv, TypeOK
<1>1. flag \in BOOLEAN
  BY DEF Inv, TypeOK
<1>2. CASE StoreByte
  <2>1. /\ cb' = [cb EXCEPT !.buffer[cb.head] = written + 1]
        /\ reg' = After(cb, cb.tail) /\ pc = "store" /\ pc' \in {"tail", "head"}
        /\ UNCHANGED <<len, huart2, line, written, mishaps>> /\ flag' = flag
    BY <1>2 DEF StoreByte
  <2>2. len >= 1 /\ written + len <= LAST
    BY <2>1 DEF Inv, PutInv
  <2>3. cb' \in Ring(TX_DATA_BUFF_SIZE, 0..LAST)
    <3>1. written + 1 \in 0..LAST
      BY <1>0, <2>2
    <3>2. [cb.buffer EXCEPT ![cb.head] = written + 1]
            \in [0..(TX_DATA_BUFF_SIZE - 1) -> 0..LAST]
      BY <1>0, <3>1, RingFields
    <3>3. cb' = [cb EXCEPT !.buffer = [cb.buffer EXCEPT ![cb.head] = written + 1]]
      BY <2>1
    <3>4. QED
      BY <1>0, <3>2, <3>3 DEF Ring
  <2>4. reg' \in 0..(TX_DATA_BUFF_SIZE - 1)
    <3>1. cb.tail + 1 \in Nat
      BY <1>0, RingFields
    <3>2. QED
      BY <1>0, <2>1, <3>1, AfterInRing DEF After
  <2>5. PutInv'
    BY <2>1, <2>2, <2>4 DEF PutInv
  <2>6. QED
    BY <1>0, <1>1, <2>1, <2>3, <2>4, <2>5, PutStepInv
<1>3. CASE StoreTail
  <2>1. /\ cb' = [cb EXCEPT !.tail = reg] /\ pc = "tail" /\ pc' = "head"
        /\ UNCHANGED <<len, reg, huart2, line, written, mishaps>> /\ flag' = flag
    BY <1>3 DEF StoreTail, At
  <2>2. /\ reg \in 0..(TX_DATA_BUFF_SIZE - 1)
        /\ len >= 1 /\ written + len <= LAST
    BY <2>1 DEF Inv, PutInv
  <2>3. cb' \in Ring(TX_DATA_BUFF_SIZE, 0..LAST)
    BY <1>0, <2>1, <2>2 DEF Ring
  <2>4. PutInv'
    BY <2>1, <2>2 DEF PutInv
  <2>5. QED
    BY <1>0, <1>1, <2>1, <2>3, <2>4, PutStepInv
<1>4. CASE StoreHead
  <2>1. /\ cb' = [cb EXCEPT !.head = After(cb, cb.head)] /\ pc = "head" /\ pc' = "meet"
        /\ written' = written + 1
        /\ UNCHANGED <<len, reg, huart2, line, mishaps>> /\ flag' = flag
    BY <1>4 DEF StoreHead, At
  <2>2. len >= 1 /\ written + len <= LAST
    BY <2>1 DEF Inv, PutInv
  <2>3. cb' \in Ring(TX_DATA_BUFF_SIZE, 0..LAST)
    <3>1. cb.head + 1 \in Nat
      BY <1>0, RingFields
    <3>2. After(cb, cb.head) \in 0..(TX_DATA_BUFF_SIZE - 1)
      BY <1>0, <3>1, AfterInRing DEF After
    <3>3. QED
      BY <1>0, <2>1, <3>2 DEF Ring
  <2>4. PutInv' /\ written' \in 0..LAST
    BY <1>0, <2>1, <2>2 DEF PutInv
  <2>5. QED
    BY <1>0, <1>1, <2>1, <2>3, <2>4, PutStepInv
<1>5. CASE Meet
  <2>1. /\ flag' = (cb.head = cb.tail) /\ pc = "meet" /\ pc' = "full"
        /\ UNCHANGED <<cb, len, reg, huart2, line, written, mishaps>>
    BY <1>5 DEF Meet, At
  <2>2. flag' \in BOOLEAN
    BY <2>1
  <2>3. PutInv'
    BY <2>1 DEF Inv, PutInv
  <2>4. QED
    BY <1>0, <2>1, <2>2, <2>3, PutStepInv
<1>6. CASE StoreFull
  <2>1. /\ cb' = [cb EXCEPT !.full = flag] /\ pc = "full" /\ len' = len - 1
        /\ pc' = IF len = 1 THEN "kick" ELSE "store"
        /\ UNCHANGED <<reg, huart2, line, written, mishaps>>
    BY <1>6 DEF StoreFull
  <2>2. flag' = flag
    BY <1>6 DEF StoreFull
  <2>3. len >= 1 /\ written + len <= LAST + 1
    BY <2>1 DEF Inv, PutInv
  <2>4. cb' \in Ring(TX_DATA_BUFF_SIZE, 0..LAST)
    BY <1>0, <1>1, <2>1 DEF Ring
  <2>5. PutInv' /\ len' \in Nat
    BY <1>0, <2>1, <2>3 DEF PutInv
  <2>6. pc' \in {"store", "kick"}
    BY <2>1
  <2>7. QED
    BY <1>0, <1>1, <2>1, <2>2, <2>4, <2>5, <2>6, PutStepInv
<1>7. QED
  BY <1>2, <1>3, <1>4, <1>5, <1>6

(* A step that leaves the machine sending.                                 *)
LEMMA SendingInv ==
  ASSUME Inv,
         UNCHANGED <<len, reg, written>>, flag' = flag,
         pc' \in Pcs, pc' = pc \/ pc' = "idle",
         cb' \in Ring(TX_DATA_BUFF_SIZE, 0..LAST),
         gState' = "busy", it' \in {"txe", "tc"},
         pending' \in Seq(0..LAST), it' = "txe" => pending' # <<>>,
         line' \in Seq(0..LAST), mishaps' \subseteq {"emptied", "wrapped", "late"}
  PROVE  Inv'
<1>1. TypeOK'
  BY DEF Inv, TypeOK, Pcs
<1>2. PutInv'
  BY DEF Inv, PutInv
<1>3. SendInv' /\ StrandInv'
  BY DEF SendInv, StrandInv
<1>4. QED
  BY <1>1, <1>2, <1>3 DEF Inv

(* The kick always leaves the machine sending.                             *)
LEMMA KickInv == Inv /\ Kick => Inv'
<1> SUFFICES ASSUME Inv, Kick PROVE Inv'
  OBVIOUS
<1>1. /\ UNCHANGED <<len, reg, written, line>> /\ pc' = "idle"
      /\ cb \in Ring(TX_DATA_BUFF_SIZE, 0..LAST) /\ line' \in Seq(0..LAST)
      /\ mishaps \subseteq {"emptied", "wrapped", "late"}
  BY DEF Kick, At, Inv, TypeOK
<1>2. flag' = flag
  BY DEF Kick
<1>3. CASE gState = "ready" /\ ~Empty(cb)
  <2>1. /\ cb' = TailRetreated(cb) /\ HAL_UART_Transmit_IT(<<Oldest(cb)>>)
        /\ mishaps' = mishaps
    BY <1>3 DEF Kick
  <2>2. cb' \in Ring(TX_DATA_BUFF_SIZE, 0..LAST)
    <3>1. cb.tail + 1 \in Nat
      BY <1>1, RingFields
    <3>2. After(cb, cb.tail) \in 0..(TX_DATA_BUFF_SIZE - 1)
      BY <1>1, <3>1, AfterInRing DEF After
    <3>3. QED
      BY <1>1, <2>1, <3>2 DEF TailRetreated, Ring
  <2>3. Oldest(cb) \in 0..LAST
    BY <1>1, RingFields DEF Oldest
  <2>4. QED
    BY <1>1, <1>2, <2>1, <2>2, <2>3, SendingInv DEF HAL_UART_Transmit_IT, Pcs
<1>4. CASE gState = "ready" /\ Empty(cb)
  <2>1. /\ cb' = cb /\ HAL_UART_Transmit_IT(<<0>>) /\ mishaps' = mishaps \cup {"late"}
    BY <1>4 DEF Kick
  <2>2. QED
    BY <1>1, <1>2, <2>1, SendingInv DEF HAL_UART_Transmit_IT, Pcs
<1>5. CASE gState = "busy"
  <2>1. cb' = cb /\ UNCHANGED huart2 /\ mishaps' = mishaps
    BY <1>5 DEF Kick
  <2>2. it \in {"txe", "tc"} /\ pending \in Seq(0..LAST) /\ (it = "txe" => pending # <<>>)
    BY <1>5 DEF Inv, TypeOK, SendInv
  <2>3. QED
    BY <1>1, <1>2, <1>5, <2>1, <2>2, SendingInv DEF huart2, Pcs
<1>6. QED
  BY <1>3, <1>4, <1>5 DEF Inv, TypeOK

LEMMA SendByteInv == Inv /\ SendByte => Inv'
<1> SUFFICES ASSUME Inv, SendByte PROVE Inv'
  OBVIOUS
<1>1. /\ it = "txe" /\ line' = Append(line, Head(pending)) /\ pending' = Tail(pending)
      /\ it' = IF pending' = <<>> THEN "tc" ELSE "txe"
      /\ UNCHANGED <<cb, pc, len, reg, gState, written, mishaps>>
  BY DEF SendByte, main
<1>2. flag' = flag
  BY DEF SendByte, main
<1>3. /\ cb \in Ring(TX_DATA_BUFF_SIZE, 0..LAST) /\ gState = "busy" /\ pc \in Pcs
      /\ pending \in Seq(0..LAST) /\ pending # <<>> /\ line \in Seq(0..LAST)
      /\ mishaps \subseteq {"emptied", "wrapped", "late"}
  BY <1>1 DEF Inv, TypeOK, SendInv, Pcs
<1>4. line' \in Seq(0..LAST) /\ pending' \in Seq(0..LAST)
  BY <1>1, <1>3
<1>5. QED
  BY <1>1, <1>2, <1>3, <1>4, SendingInv

LEMMA TxCpltInv == Inv /\ HAL_UART_TxCpltCallback => Inv'
<1> SUFFICES ASSUME Inv, HAL_UART_TxCpltCallback PROVE Inv'
  OBVIOUS
<1>1. /\ it = "tc" /\ UNCHANGED <<pc, len, reg, line, written>>
      /\ mishaps' \subseteq mishaps \cup {"emptied", "wrapped"}
  BY DEF HAL_UART_TxCpltCallback, main
<1>2. flag' = flag
  BY DEF HAL_UART_TxCpltCallback, main
<1>3. /\ cb \in Ring(TX_DATA_BUFF_SIZE, 0..LAST) /\ pc \in Pcs /\ line \in Seq(0..LAST)
      /\ mishaps' \subseteq {"emptied", "wrapped", "late"}
  BY <1>1 DEF Inv, TypeOK, Pcs
<1>4. CASE DataLen(cb) > 0
  <2>1. cb' = AfterRead(cb, ChunkLen) /\ HAL_UART_Transmit_IT(Chunk)
    BY <1>4 DEF HAL_UART_TxCpltCallback
  <2>2. ChunkLen \in Nat /\ Chunk \in Seq(0..LAST) /\ Chunk # <<>>
    BY <1>3, <1>4, ChunkType
  <2>3. cb' \in Ring(TX_DATA_BUFF_SIZE, 0..LAST)
    BY <1>3, <2>1, <2>2, AfterReadType
  <2>4. QED
    BY <1>1, <1>2, <1>3, <2>1, <2>2, <2>3, SendingInv DEF HAL_UART_Transmit_IT
<1>5. CASE ~(DataLen(cb) > 0)
  <2>1. cb' = cb /\ gState' = "ready" /\ it' = "none" /\ pending' = pending
    BY <1>5 DEF HAL_UART_TxCpltCallback, EndTransmit
  <2>2. Empty(cb)
    BY <1>3, <1>5, DataLenType
  <2>3. TypeOK'
    BY <1>1, <1>2, <1>3, <2>1 DEF Inv, TypeOK
  <2>4. PutInv'
    BY <1>1 DEF Inv, PutInv
  <2>5. SendInv' /\ StrandInv'
    BY <2>1, <2>2 DEF SendInv, StrandInv, Empty
  <2>6. QED
    BY <2>3, <2>4, <2>5 DEF Inv
<1>6. QED
  BY <1>4, <1>5

LEMMA StepInv == Inv /\ [Next]_vars => Inv'
<1>1. Inv /\ UNCHANGED vars => Inv'
  <2> SUFFICES ASSUME Inv, UNCHANGED vars PROVE Inv'
    OBVIOUS
  <2>1. TypeOK'
    BY DEF vars, main, huart2, Inv, TypeOK
  <2>2. PutInv' /\ SendInv' /\ StrandInv'
    BY DEF vars, main, huart2, Inv, PutInv, SendInv, StrandInv, Empty
  <2>3. QED
    BY <2>1, <2>2 DEF Inv
<1>2. QED
  BY <1>1, TestInv, PutBytesInv, KickInv, SendByteInv, TxCpltInv DEF Next, Main

LEMMA Invariance == Spec => []Inv
BY InitInv, StepInv, PTL DEF Spec

-----------------------------------------------------------------------------
(* What is in the ring while no mishap has occurred, between any two       *)
(* stores.  A full ring looks empty to the interrupt for a moment: when    *)
(* head has met tail and full is not yet stored.                           *)

Size == TX_DATA_BUFF_SIZE

(* An index not further than once round the ring.                          *)
Round(k) == IF k < Size THEN k ELSE k - Size

(* From tail to head there are n bytes, numbered from first on.            *)
Holds(c, n, first) ==
  /\ n \in 0..Size
  /\ c.head = Round(c.tail + n)
  /\ \A i \in 0..(n - 1) : c.buffer[Round(c.tail + i)] = first + i

Taken == Len(line) + Len(pending)
Held == written - Taken

(* The bytes outside the ring: sent, and with the hardware.                *)
OutInv ==
  /\ it # "txe" => pending = <<>>
  /\ \A i \in 1..Len(line) : line[i] = i
  /\ \A i \in 1..Len(pending) : pending[i] = Len(line) + i

(* What the main loop has found out, or is about to store, is still right. *)
CallInv ==
  /\ cb.full <=> Held = Size /\ pc \notin {"meet", "full"}
  /\ pc \in {"compare", "subtract"} => Held < Size
  /\ pc = "subtract" => (flag <=> cb.head >= cb.tail)
  /\ pc # "tail"
  /\ pc \in {"store", "head"} => Held + len <= Size
  /\ pc = "head" => cb.buffer[cb.head] = written + 1
  /\ pc \in {"meet", "full"} => Held + len <= Size + 1
  /\ pc = "meet" => Held > 0
  /\ pc = "full" => (flag <=> Held = Size)

Ordered == OutInv /\ Holds(cb, Held, Taken + 1) /\ CallInv

OrderInv == mishaps = {} => Ordered

LEMMA OutNumbers ==
  Inv => Len(line) \in Nat /\ Len(pending) \in Nat /\ Taken \in Nat /\ written \in Nat
         /\ Held \in Int /\ written = Taken + Held
BY DEF Inv, TypeOK, Taken, Held

LEMMA RoundInRing ==
  ASSUME NEW i \in 0..(Size - 1), NEW j \in 0..Size
  PROVE  (i + j) % Size = Round(i + j) /\ Round(i + j) \in 0..(Size - 1)
BY DEF Round, Size

LEMMA RoundTwice ==
  ASSUME NEW t \in 0..(Size - 1), NEW a \in Nat, NEW b \in Nat, a + b <= Size
  PROVE  Round(Round(t + a) + b) = Round(t + (a + b))
BY DEF Round, Size

LEMMA RoundApart ==
  ASSUME NEW t \in 0..(Size - 1), NEW a \in Nat, NEW b \in Nat, a < b, b < Size
  PROVE  Round(t + a) # Round(t + b)
BY DEF Round, Size

LEMMA AfterIsRound ==
  ASSUME NEW c \in Ring(Size, 0..LAST), NEW i \in 0..(Size - 1)
  PROVE  After(c, i) = Round(i + 1) /\ Round(i + 1) \in 0..(Size - 1)
<1>1. 1 \in 0..Size /\ c.length = Size
  BY RingFields DEF Size
<1>2. QED
  BY <1>1, RoundInRing DEF After

(* The length as either side computes it.                                  *)
LEMMA DataLenIsHeld ==
  ASSUME NEW c \in Ring(Size, 0..LAST), NEW n, NEW first, Holds(c, n, first)
  PROVE  /\ ~c.full => DataLen(c) = IF n = Size THEN 0 ELSE n
         /\ c.full /\ n = Size => DataLen(c) = n
         /\ n < Size => n = IF c.head >= c.tail THEN c.head - c.tail
                                                ELSE c.length + c.head - c.tail
BY RingFields, SMTT(30) DEF DataLen, Holds, Round, Size

(* Taking k bytes at the tail.                                             *)
LEMMA TakenHolds ==
  ASSUME NEW c \in Ring(Size, 0..LAST), NEW n, NEW first \in Nat, Holds(c, n, first),
         NEW k \in 0..n, NEW d,
         d.head = c.head, d.buffer = c.buffer, d.tail = Round(c.tail + k)
  PROVE  Holds(d, n - k, first + k)
<1>1. /\ n \in 0..Size /\ c.tail \in 0..(Size - 1) /\ c.head = Round(c.tail + n)
      /\ Size \in Nat \ {0}
  BY RingFields DEF Holds, Size
<1>2. n - k \in 0..Size /\ d.head = Round(d.tail + (n - k))
  <2> DEFINE z == Size
             t == c.tail
             m == n - k
  <2>1. /\ z \in Nat \ {0} /\ t \in 0..(z - 1) /\ n \in 0..z /\ k \in 0..n
        /\ m \in 0..z /\ m + k = n
    BY <1>1
  <2> HIDE DEF z, t, m
  <2>2. CASE t + k < z
    <3>1. Round(t + k) = t + k /\ (t + k) + m = t + n
      BY <2>1, <2>2 DEF Round, z
    <3>2. QED
      BY <1>1, <2>1, <3>1 DEF z, t, m
  <2>3. CASE ~(t + k < z)
    <3>1. Round(t + k) = t + k - z /\ (t + k - z) + m = t + n - z
      BY <2>1, <2>3 DEF Round, z
    <3>2. Round(t + n) = t + n - z /\ Round(t + n - z) = t + n - z
      BY <2>1, <2>3 DEF Round, z
    <3>3. QED
      BY <1>1, <2>1, <3>1, <3>2 DEF z, t, m
  <2>4. QED
    BY <2>2, <2>3
<1>3. ASSUME NEW i \in 0..(n - k - 1)
      PROVE  d.buffer[Round(d.tail + i)] = first + k + i
  <2>1. k + i \in 0..(n - 1) /\ k \in Nat /\ i \in Nat /\ k + i <= Size
    BY <1>1
  <2>2. Round(d.tail + i) = Round(c.tail + (k + i))
    BY <1>1, <2>1, RoundTwice, SMTT(30)
  <2>3. c.buffer[Round(c.tail + (k + i))] = first + (k + i)
    BY <2>1 DEF Holds
  <2>4. first + (k + i) = first + k + i
    BY <2>1
  <2>5. QED
    BY <2>2, <2>3, <2>4
<1>4. QED
  BY <1>2, <1>3 DEF Holds

(* Moving head past a byte that is already stored.                         *)
LEMMA PutHolds ==
  ASSUME NEW c \in Ring(Size, 0..LAST), NEW n, NEW first \in Nat, Holds(c, n, first),
         n < Size, c.buffer[c.head] = first + n, NEW d,
         d.head = Round(c.head + 1), d.buffer = c.buffer, d.tail = c.tail
  PROVE  Holds(d, n + 1, first)
<1>1. /\ n \in 0..Size /\ c.tail \in 0..(Size - 1) /\ c.head = Round(c.tail + n)
      /\ Size \in Nat \ {0}
  BY RingFields DEF Holds, Size
<1>2. n + 1 \in 0..Size /\ d.head = Round(d.tail + (n + 1))
  <2>1. n \in Nat /\ 1 \in Nat /\ n + 1 <= Size
    BY <1>1
  <2>2. Round(Round(c.tail + n) + 1) = Round(c.tail + (n + 1))
    BY <1>1, <2>1, RoundTwice
  <2>3. n + 1 \in 0..Size
    BY <1>1, <2>1
  <2>4. QED
    BY <1>1, <2>2, <2>3
<1>3. ASSUME NEW i \in 0..n PROVE d.buffer[Round(d.tail + i)] = first + i
  <2>1. CASE i = n
    BY <1>1, <2>1
  <2>2. CASE i # n
    <3>1. i \in 0..(n - 1)
      BY <1>1, <2>2
    <3>2. QED
      BY <3>1 DEF Holds
  <2>3. QED
    BY <2>1, <2>2
<1>4. (n + 1) - 1 = n
  BY <1>1
<1>5. QED
  BY <1>2, <1>3, <1>4 DEF Holds

(* Storing a byte where there is room touches none of the others.          *)
LEMMA StoreHolds ==
  ASSUME NEW c \in Ring(Size, 0..LAST), NEW n, NEW first \in Nat, Holds(c, n, first),
         n < Size, NEW byte
  PROVE  /\ Holds([c EXCEPT !.buffer[c.head] = byte], n, first)
         /\ [c EXCEPT !.buffer[c.head] = byte].buffer[c.head] = byte
<1> DEFINE d == [c EXCEPT !.buffer[c.head] = byte]
<1>1. /\ n \in 0..Size /\ c.tail \in 0..(Size - 1) /\ c.head = Round(c.tail + n)
      /\ c.head \in 0..(Size - 1) /\ Size \in Nat \ {0}
      /\ c.buffer \in [0..(Size - 1) -> 0..LAST]
  BY RingFields DEF Holds, Size
<1>2. /\ d.buffer = [c.buffer EXCEPT ![c.head] = byte]
      /\ d.head = c.head /\ d.tail = c.tail
  BY DEF Ring
<1>3. ASSUME NEW i \in 0..(n - 1) PROVE d.buffer[Round(d.tail + i)] = first + i
  <2>1. Round(c.tail + i) \in 0..(Size - 1) /\ Round(c.tail + i) # c.head
    <3>1. i \in Nat /\ n \in Nat /\ i < n /\ i \in 0..Size
      BY <1>1
    <3>2. Round(c.tail + i) # Round(c.tail + n)
      BY <1>1, <3>1, RoundApart
    <3>3. Round(c.tail + i) \in 0..(Size - 1)
      BY <1>1, <3>1, RoundInRing
    <3>4. QED
      BY <1>1, <3>2, <3>3
  <2>2. c.buffer[Round(c.tail + i)] = first + i
    BY DEF Holds
  <2>3. QED
    BY <1>1, <1>2, <2>1, <2>2
<1>4. QED
  BY <1>1, <1>2, <1>3 DEF Holds

(* The bytes read from the tail.                                           *)
LEMMA FromTailNumbers ==
  ASSUME NEW c \in Ring(Size, 0..LAST), NEW n, NEW first \in Nat, Holds(c, n, first),
         NEW k \in 0..n
  PROVE  /\ FromTail(c, k) \in Seq(0..LAST) /\ Len(FromTail(c, k)) = k
         /\ \A i \in 1..k : FromTail(c, k)[i] = first + i - 1
<1>1. /\ n \in 0..Size /\ c.tail \in 0..(Size - 1) /\ c.length = Size
      /\ c.buffer \in [0..(Size - 1) -> 0..LAST]
  BY RingFields DEF Holds, Size
<1>2. ASSUME NEW i \in 1..k
      PROVE  /\ c.buffer[(c.tail + i - 1) % c.length] = first + i - 1
             /\ c.buffer[(c.tail + i - 1) % c.length] \in 0..LAST
  <2>0. c.tail \in Int /\ Size \in Int /\ n \in 0..Size /\ i \in 1..n
    BY <1>1 DEF Size
  <2>1. i - 1 \in 0..(n - 1) /\ i - 1 \in 0..Size /\ c.tail + i - 1 = c.tail + (i - 1)
    BY <2>0
  <2>2. /\ (c.tail + i - 1) % c.length = Round(c.tail + (i - 1))
        /\ Round(c.tail + (i - 1)) \in 0..(Size - 1)
    BY <1>1, <2>1, RoundInRing
  <2>3. c.buffer[Round(c.tail + (i - 1))] = first + (i - 1)
    BY <2>1 DEF Holds
  <2>4. QED
    BY <1>1, <2>1, <2>2, <2>3
<1>3. FromTail(c, k) = [i \in 1..k |-> c.buffer[(c.tail + i - 1) % c.length]]
  BY DEF FromTail
<1>4. k \in Nat
  BY <1>1
<1>5. QED
  BY <1>2, <1>3, <1>4, SMTT(30)

-----------------------------------------------------------------------------

LEMMA InitOrder == Init => OrderInv
<1> SUFFICES ASSUME Init PROVE Ordered
  BY DEF OrderInv
<1>0. Len(line) = 0 /\ Len(pending) = 0 /\ written = 0
  BY DEF Init
<1>1. Len(line) = 0 /\ Len(pending) = 0 /\ Taken = 0 /\ Held = 0
  BY <1>0 DEF Taken, Held
<1>2. cb.head = 0 /\ cb.tail = 0 /\ cb.full = FALSE
  BY DEF Init, circular_buff_init
<1>3. OutInv
  BY <1>1 DEF OutInv, Init
<1>4. Holds(cb, Held, Taken + 1)
  BY <1>1, <1>2 DEF Holds, Round, Size
<1>5. CallInv
  BY <1>1, <1>2 DEF CallInv, Init, Size
<1>6. QED
  BY <1>3, <1>4, <1>5 DEF Ordered

(* A step of the main loop that moves no byte.                             *)
LEMMA SameBytes ==
  ASSUME Ordered, UNCHANGED <<huart2, line, written>>,
         cb'.head = cb.head, cb'.tail = cb.tail, cb'.buffer = cb.buffer
  PROVE  OutInv' /\ Holds(cb', Held', Taken' + 1) /\ Held' = Held
<1>1. Held' = Held /\ Taken' = Taken /\ OutInv'
  BY DEF Ordered, Held, Taken, OutInv, huart2
<1>2. QED
  BY <1>1 DEF Ordered, Holds

LEMMA TestOrder == Inv /\ Ordered /\ (Call \/ LenCompare \/ LenSubtract) => Ordered'
<1> SUFFICES ASSUME Inv, Ordered, Call \/ LenCompare \/ LenSubtract PROVE Ordered'
  OBVIOUS
<1>1. UNCHANGED <<cb, reg, huart2, line, written, mishaps>>
  BY DEF Call, LenCompare, LenSubtract
<1>2. OutInv' /\ Holds(cb', Held', Taken' + 1) /\ Held' = Held
  BY <1>1, SameBytes
<1>3. Held \in 0..Size /\ cb \in Ring(Size, 0..LAST) /\ len \in Nat
  BY DEF Ordered, Holds, Inv, TypeOK, Size
<1>4. CASE Call
  <2>1. pc = "idle" /\ pc' = IF cb.full THEN "idle" ELSE "compare"
    BY <1>4 DEF Call
  <2>2. cb.full <=> Held = Size
    BY <2>1 DEF Ordered, CallInv
  <2>3. CallInv'
    BY <1>1, <1>2, <1>3, <2>1, <2>2 DEF CallInv, Size
  <2>4. QED
    BY <1>2, <2>3 DEF Ordered
<1>5. CASE LenCompare
  <2>1. pc = "compare" /\ pc' = "subtract" /\ (flag' <=> cb.head >= cb.tail)
    BY <1>5 DEF LenCompare, At
  <2>2. CallInv'
    BY <1>1, <1>2, <2>1 DEF Ordered, CallInv
  <2>3. QED
    BY <1>2, <2>2 DEF Ordered
<1>6. CASE LenSubtract
  <2> DEFINE data_len == IF flag THEN cb.head - cb.tail ELSE cb.length + cb.head - cb.tail
  <2>1. /\ pc = "subtract" /\ len' = len
        /\ pc' = IF data_len > cb.length \/ cb.length - data_len >= len THEN "store" ELSE "idle"
    BY <1>6 DEF LenSubtract
  <2>2. Held < Size /\ (flag <=> cb.head >= cb.tail) /\ ~cb.full
    BY <1>3, <2>1 DEF Ordered, CallInv, Size
  <2>3. data_len = Held
    BY <1>3, <2>2, DataLenIsHeld DEF Ordered
  <2>4. pc' = "store" => Held + len <= Size
    <3>1. cb.length = Size
      BY <1>3, RingFields DEF Size
    <3> HIDE DEF data_len
    <3>2. QED
      BY <1>3, <2>1, <2>2, <2>3, <3>1 DEF Size
  <2>5. pc' \in {"store", "idle"}
    BY <2>1
  <2> HIDE DEF data_len
  <2>6. CallInv'
    BY <1>1, <1>2, <1>3, <2>1, <2>2, <2>4, <2>5 DEF CallInv, Size
  <2>7. QED
    BY <1>2, <2>6 DEF Ordered
<1>7. QED
  BY <1>4, <1>5, <1>6

(* The byte is stored outside the bytes of the ring.                       *)
LEMMA StoreByteOrder == Inv /\ Ordered /\ StoreByte => Ordered'
<1> SUFFICES ASSUME Inv, Ordered, StoreByte PROVE Ordered'
  OBVIOUS
<1>1. /\ pc = "store" /\ cb' = [cb EXCEPT !.buffer[cb.head] = written + 1]
      /\ pc' = (IF cb.full THEN "tail" ELSE "head")
      /\ UNCHANGED <<len, huart2, line, written, mishaps>>
  BY DEF StoreByte
<1>2. cb \in Ring(Size, 0..LAST) /\ len \in Nat /\ len >= 1 /\ Taken \in Nat /\ written \in Nat
      /\ Held \in 0..Size /\ written = Taken + Held
  BY <1>1, OutNumbers DEF Ordered, Holds, Inv, TypeOK, PutInv, Size
<1>3. Held + len <= Size /\ Held < Size /\ ~cb.full
  <2>1. Held + len <= Size /\ (cb.full => Held = Size)
    BY <1>1 DEF Ordered, CallInv
  <2>2. QED
    BY <1>2, <2>1 DEF Size
<1>4. Held' = Held /\ Taken' = Taken /\ OutInv'
  BY <1>1 DEF Ordered, Held, Taken, OutInv, huart2
<1>5. Holds(cb', Held, Taken + 1) /\ cb'.buffer[cb.head] = written + 1
  <2>1. Taken + 1 \in Nat /\ Holds(cb, Held, Taken + 1)
    BY <1>2 DEF Ordered
  <2>2. QED
    BY <1>1, <1>2, <1>3, <2>1, StoreHolds
<1>6. cb'.head = cb.head /\ cb'.full = cb.full
  BY <1>1, <1>2 DEF Ring
<1>7. CallInv'
  BY <1>1, <1>2, <1>3, <1>4, <1>5, <1>6 DEF CallInv, Size
<1>8. QED
  BY <1>4, <1>5, <1>7 DEF Ordered

(* The stored byte joins the others.                                       *)
LEMMA StoreHeadOrder == Inv /\ Ordered /\ StoreHead => Ordered'
<1> SUFFICES ASSUME Inv, Ordered, StoreHead PROVE Ordered'
  OBVIOUS
<1>1. /\ pc = "head" /\ pc' = "meet" /\ cb' = [cb EXCEPT !.head = After(cb, cb.head)]
      /\ written' = written + 1 /\ UNCHANGED <<len, huart2, line, mishaps>>
  BY DEF StoreHead, At
<1>2. cb \in Ring(Size, 0..LAST) /\ len \in Nat /\ len >= 1 /\ Taken \in Nat /\ written \in Nat
      /\ Held \in 0..Size /\ written = Taken + Held
  BY <1>1, OutNumbers DEF Ordered, Holds, Inv, TypeOK, PutInv, Size
<1>3. Held + len <= Size /\ Held < Size /\ ~cb.full /\ cb.buffer[cb.head] = Taken + 1 + Held
  <2>1. Held + len <= Size /\ (cb.full => Held = Size) /\ cb.buffer[cb.head] = written + 1
    BY <1>1 DEF Ordered, CallInv
  <2>2. QED
    BY <1>2, <2>1 DEF Size
<1>4. Held' = Held + 1 /\ Taken' = Taken /\ OutInv'
  BY <1>1, <1>2 DEF Ordered, Held, Taken, OutInv, huart2
<1>5. /\ cb'.head = Round(cb.head + 1) /\ cb'.buffer = cb.buffer /\ cb'.tail = cb.tail
      /\ cb'.full = cb.full
  <2>1. After(cb, cb.head) = Round(cb.head + 1)
    BY <1>2, AfterIsRound, RingFields DEF Size
  <2>2. QED
    BY <1>1, <1>2, <2>1 DEF Ring
<1>6. Holds(cb', Held + 1, Taken + 1)
  BY <1>2, <1>3, <1>5, PutHolds DEF Ordered
<1>7. CallInv'
  BY <1>1, <1>2, <1>3, <1>4, <1>5 DEF CallInv, Size
<1>8. QED
  BY <1>4, <1>6, <1>7 DEF Ordered

(* Head has just moved: it has met tail if and only if the ring is full.   *)
LEMMA MeetOrder == Inv /\ Ordered /\ Meet => Ordered'
<1> SUFFICES ASSUME Inv, Ordered, Meet PROVE Ordered'
  OBVIOUS
<1>1. /\ pc = "meet" /\ pc' = "full" /\ (flag' <=> cb.head = cb.tail)
      /\ UNCHANGED <<cb, len, huart2, line, written, mishaps>>
  BY DEF Meet, At
<1>2. OutInv' /\ Holds(cb', Held', Taken' + 1) /\ Held' = Held
  BY <1>1, SameBytes
<1>3. Held > 0 /\ ~cb.full /\ Held + len <= Size + 1
  BY <1>1 DEF Ordered, CallInv
<1>4. cb.head = cb.tail <=> Held = Size
  <2>1. cb \in Ring(Size, 0..LAST)
    BY DEF Inv, TypeOK, Size
  <2>2. cb.tail \in 0..(Size - 1) /\ cb.head = Round(cb.tail + Held) /\ Held \in 0..Size
    BY <2>1, RingFields DEF Ordered, Holds, Size
  <2>3. QED
    BY <1>3, <2>2 DEF Round, Size
<1>5. CallInv'
  BY <1>1, <1>2, <1>3, <1>4 DEF CallInv
<1>6. QED
  BY <1>2, <1>5 DEF Ordered

(* Full is right again.                                                    *)
LEMMA StoreFullOrder == Inv /\ Ordered /\ StoreFull => Ordered'
<1> SUFFICES ASSUME Inv, Ordered, StoreFull PROVE Ordered'
  OBVIOUS
<1>1. /\ pc = "full" /\ cb' = [cb EXCEPT !.full = flag] /\ len' = len - 1
      /\ pc' = (IF len = 1 THEN "kick" ELSE "store")
      /\ UNCHANGED <<huart2, line, written, mishaps>>
  BY DEF StoreFull
<1>2. cb \in Ring(Size, 0..LAST) /\ flag \in BOOLEAN
  BY DEF Inv, TypeOK, Size
<1>3. cb'.head = cb.head /\ cb'.tail = cb.tail /\ cb'.buffer = cb.buffer /\ cb'.full = flag
  BY <1>1, <1>2 DEF Ring
<1>4. OutInv' /\ Holds(cb', Held', Taken' + 1) /\ Held' = Held
  BY <1>1, <1>3, SameBytes
<1>5. (flag <=> Held = Size) /\ Held + len <= Size + 1 /\ len \in Nat /\ Held \in 0..Size
  BY <1>1 DEF Ordered, CallInv, Holds, Inv, TypeOK, Size
<1>6. Held' + len' <= Size
  BY <1>1, <1>4, <1>5 DEF Size
<1>7. CallInv'
  BY <1>1, <1>3, <1>4, <1>5, <1>6 DEF CallInv
<1>8. QED
  BY <1>4, <1>7 DEF Ordered

(* k bytes go from the ring to the hardware, which had none.               *)
LEMMA HandOver ==
  ASSUME Inv, Ordered, it # "txe", NEW k \in 0..Held,
         cb'.head = cb.head, cb'.buffer = cb.buffer, cb'.tail = Round(cb.tail + k),
         pending' = FromTail(cb, k), it' = "txe", UNCHANGED <<line, written>>
  PROVE  OutInv' /\ Holds(cb', Held', Taken' + 1) /\ Held' = Held - k
<1>1. /\ cb \in Ring(Size, 0..LAST) /\ Len(line) \in Nat /\ Held \in 0..Size /\ Taken \in Nat
      /\ Len(pending) = 0 /\ Taken = Len(line) /\ written = Taken + Held
  <2>1. Held \in 0..Size /\ pending = <<>>
    BY DEF Ordered, OutInv, Holds
  <2>2. QED
    BY <2>1, OutNumbers DEF Inv, TypeOK, Taken, Size
<1>2. /\ Len(pending') = k
      /\ \A i \in 1..k : pending'[i] = Taken + 1 + i - 1
  <2>1. Taken + 1 \in Nat /\ Holds(cb, Held, Taken + 1)
    BY <1>1 DEF Ordered
  <2>2. QED
    BY <1>1, <2>1, FromTailNumbers
<1>3. Taken' = Taken + k /\ Held' = Held - k /\ k \in Nat
  BY <1>1, <1>2 DEF Taken, Held
<1>4. OutInv'
  BY <1>1, <1>2, <1>3 DEF Ordered, OutInv
<1>5. Holds(cb', Held - k, Taken + 1 + k)
  BY <1>1, TakenHolds DEF Ordered
<1>6. Taken + 1 + k = Taken' + 1
  BY <1>1, <1>3
<1>7. QED
  BY <1>3, <1>4, <1>5, <1>6

LEMMA KickOrder == Inv /\ Ordered /\ mishaps = {} /\ Kick => OrderInv'
<1> SUFFICES ASSUME Inv, Ordered, mishaps = {}, Kick, mishaps' = {} PROVE Ordered'
  BY DEF OrderInv
<1>1. pc = "kick" /\ pc' = "idle" /\ UNCHANGED <<line, written>>
  BY DEF Kick, At
<1>2. /\ cb \in Ring(Size, 0..LAST) /\ Held \in 0..Size /\ (cb.full <=> Held = Size)
      /\ cb.head = Round(cb.tail + Held) /\ cb.tail \in 0..(Size - 1)
      /\ (gState = "ready" => it = "none") /\ gState \in {"ready", "busy"}
  BY <1>1, RingFields DEF Ordered, Holds, CallInv, Inv, TypeOK, SendInv, Size
<1>3. CASE gState = "ready" /\ ~Empty(cb)
  <2>1. cb' = TailRetreated(cb) /\ pending' = <<Oldest(cb)>> /\ it' = "txe"
    BY <1>3 DEF Kick, HAL_UART_Transmit_IT
  <2>2. Held # 0
    BY <1>2, <1>3 DEF Empty, Round, Size
  <2>3. 1 \in 0..Held /\ Held - 1 \in 0..Size /\ Held - 1 # Size
    BY <1>2, <2>2 DEF Size
  <2>4. /\ cb'.head = cb.head /\ cb'.buffer = cb.buffer /\ cb'.tail = Round(cb.tail + 1)
        /\ cb'.full = FALSE
    <3>1. After(cb, cb.tail) = Round(cb.tail + 1)
      BY <1>2, AfterIsRound
    <3>2. QED
      BY <1>2, <2>1, <3>1 DEF TailRetreated, Ring
  <2>5. pending' = FromTail(cb, 1)
    <3>1. (cb.tail + 1 - 1) % cb.length = cb.tail
      <4>1. cb.length = Size /\ 0 \in 0..Size /\ cb.tail + 1 - 1 = cb.tail + 0
        BY <1>2, RingFields DEF Size
      <4>2. Round(cb.tail + 0) = cb.tail
        BY <1>2 DEF Round, Size
      <4>3. (cb.tail + 0) % Size = Round(cb.tail + 0)
        BY <1>2, <4>1, RoundInRing
      <4>4. QED
        BY <4>1, <4>2, <4>3
    <3>2. FromTail(cb, 1) = <<cb.buffer[cb.tail]>>
      BY <3>1 DEF FromTail
    <3>3. QED
      BY <2>1, <3>2 DEF Oldest
  <2>6. OutInv' /\ Holds(cb', Held', Taken' + 1) /\ Held' = Held - 1
    BY <1>1, <1>2, <1>3, <2>1, <2>3, <2>4, <2>5, HandOver
  <2>7. CallInv'
    BY <1>1, <2>3, <2>4, <2>6 DEF CallInv
  <2>8. QED
    BY <2>6, <2>7 DEF Ordered
<1>4. CASE gState = "ready" /\ Empty(cb)
  BY <1>4 DEF Kick
<1>5. CASE gState = "busy"
  <2>1. cb' = cb /\ UNCHANGED huart2
    BY <1>5 DEF Kick
  <2>2. OutInv' /\ Holds(cb', Held', Taken' + 1) /\ Held' = Held
    BY <1>1, <2>1, SameBytes
  <2>3. CallInv'
    BY <1>1, <1>2, <2>1, <2>2 DEF CallInv
  <2>4. QED
    BY <2>2, <2>3 DEF Ordered
<1>6. QED
  BY <1>2, <1>3, <1>4, <1>5

LEMMA SendByteOrder == Inv /\ Ordered /\ SendByte => Ordered'
<1> SUFFICES ASSUME Inv, Ordered, SendByte PROVE Ordered'
  OBVIOUS
<1>1. /\ it = "txe" /\ line' = Append(line, Head(pending)) /\ pending' = Tail(pending)
      /\ it' = (IF pending' = <<>> THEN "tc" ELSE "txe")
      /\ UNCHANGED <<cb, pc, len, written, mishaps>>
  BY DEF SendByte, main
<1>2. flag' = flag
  BY DEF SendByte, main
<1>3. pending \in Seq(0..LAST) /\ pending # <<>> /\ line \in Seq(0..LAST)
  BY <1>1 DEF Inv, TypeOK, SendInv
<1>4. /\ Len(line') = Len(line) + 1 /\ Len(pending') = Len(pending) - 1
      /\ Len(line) \in Nat /\ Len(pending) \in Nat \ {0}
      /\ \A i \in 1..(Len(pending) - 1) : pending'[i] = pending[i + 1]
      /\ \A i \in 1..(Len(line) + 1) : line'[i] = IF i = Len(line) + 1 THEN pending[1] ELSE line[i]
  BY <1>1, <1>3, SMTT(30)
<1>5. Taken' = Taken /\ Held' = Held
  BY <1>1, <1>4 DEF Taken, Held
<1>6. OutInv'
  <2>1. \A i \in 1..Len(line) : line[i] = i
    BY DEF Ordered, OutInv
  <2>2. \A i \in 1..Len(pending) : pending[i] = Len(line) + i
    BY DEF Ordered, OutInv
  <2>3. pending[1] = Len(line) + 1
    BY <1>4, <2>2
  <2>4. \A i \in 1..Len(line') : line'[i] = i
    BY <1>4, <2>1, <2>3
  <2>5. \A i \in 1..Len(pending') : pending'[i] = Len(line') + i
    BY <1>4, <2>2
  <2>6. it' # "txe" => pending' = <<>>
    BY <1>1
  <2>7. QED
    BY <2>4, <2>5, <2>6 DEF OutInv
<1>7. CallInv'
  BY <1>1, <1>2, <1>5 DEF Ordered, CallInv
<1>8. QED
  BY <1>1, <1>5, <1>6, <1>7 DEF Ordered

(* A drain moves tail towards head.  It disturbs what the main loop has    *)
(* found out in the two ways that mishaps records, and in no other.        *)
LEMMA TxCpltOrder == Inv /\ Ordered /\ mishaps = {} /\ HAL_UART_TxCpltCallback => OrderInv'
<1> SUFFICES ASSUME Inv, Ordered, mishaps = {}, HAL_UART_TxCpltCallback, mishaps' = {}
             PROVE  Ordered'
  BY DEF OrderInv
<1>1. it = "tc" /\ UNCHANGED <<pc, len, line, written>>
  BY DEF HAL_UART_TxCpltCallback, main
<1>2. flag' = flag
  BY DEF HAL_UART_TxCpltCallback, main
<1>3. /\ cb \in Ring(Size, 0..LAST) /\ Held \in 0..Size /\ len \in Nat
      /\ cb.head = Round(cb.tail + Held) /\ cb.tail \in 0..(Size - 1) /\ cb.full \in BOOLEAN
  BY RingFields DEF Ordered, Holds, Inv, TypeOK, Size
<1>4. CASE DataLen(cb) > 0
  <2> DEFINE k == ChunkLen
  <2>1. cb' = AfterRead(cb, k) /\ pending' = Chunk /\ it' = "txe"
    BY <1>4 DEF HAL_UART_TxCpltCallback, HAL_UART_Transmit_IT
  <2>2. DataLen(cb) = Held /\ (cb.full => Held = Size /\ pc \notin {"meet", "full"})
    <3>1. CASE cb.full
      <4>1. Held = Size /\ pc \notin {"meet", "full"}
        BY <3>1 DEF Ordered, CallInv
      <4>2. QED
        BY <1>3, <3>1, <4>1, DataLenIsHeld DEF Ordered
    <3>2. CASE ~cb.full
      <4>1. DataLen(cb) = IF Held = Size THEN 0 ELSE Held
        BY <1>3, <3>2, DataLenIsHeld DEF Ordered
      <4>2. QED
        BY <1>4, <3>2, <4>1
    <3>3. QED
      BY <3>1, <3>2
  <2>3. cb.full <=> Held = Size
    <3>1. ~cb.full => DataLen(cb) # 0 /\ Held # Size
      BY <1>3, <1>4, DataLenIsHeld DEF Ordered
    <3>2. QED
      BY <3>1 DEF Ordered, CallInv
  <2>4. k \in 1..Held
    BY <1>3, <1>4, <2>2, <2>3 DEF ChunkLen
  <2>5. Available(cb) = Held /\ ~Empty(cb)
    <3>1. cb.full => cb.head = cb.tail
      BY <1>3, <2>3 DEF Round, Size
    <3>2. Available(cb) = Held
      BY <2>2, <2>3, <3>1 DEF Available
    <3>3. ~Empty(cb)
      BY <1>3, <1>4, <2>2, <2>3 DEF Empty, Round, Size
    <3>4. QED
      BY <3>2, <3>3
  <2>6. Least(k, Available(cb)) = k /\ k # 0
    BY <1>3, <2>4, <2>5 DEF Least
  <2> HIDE DEF k
  <2>7. /\ cb'.head = cb.head /\ cb'.buffer = cb.buffer /\ cb'.tail = Round(cb.tail + k)
        /\ cb'.full = FALSE
    <3>1. (cb.tail + k) % cb.length = Round(cb.tail + k)
      <4>1. k \in 0..Size /\ cb.length = Size
        BY <1>3, <2>4, RingFields DEF Size
      <4>2. QED
        BY <1>3, <4>1, RoundInRing
    <3>2. cb' = [cb EXCEPT !.full = FALSE, !.tail = Round(cb.tail + k)]
      BY <2>1, <2>5, <2>6, <3>1 DEF AfterRead
    <3>3. QED
      BY <1>3, <3>2 DEF Ring
  <2>8. pending' = FromTail(cb, k)
    <3>1. BytesRead(cb, k) = FromTail(cb, k)
      BY <2>6 DEF BytesRead
    <3>2. Len(FromTail(cb, k)) = k /\ k \in Nat
      BY <1>3, <2>4 DEF FromTail
    <3>3. FromTail(cb, k) = [i \in 1..k |-> FromTail(cb, k)[i]]
      BY DEF FromTail
    <3>4. Chunk = [i \in 1..k |-> FromTail(cb, k)[i]]
      BY <3>1, <3>2 DEF Chunk, k
    <3>5. QED
      BY <2>1, <3>3, <3>4
  <2>9. OutInv' /\ Holds(cb', Held', Taken' + 1) /\ Held' = Held - k
    <3>1. k \in 0..Held /\ it # "txe"
      BY <1>1, <1>3, <2>4
    <3>2. QED
      BY <1>1, <2>1, <2>7, <2>8, <3>1, HandOver
  <2>10. Held' \in 0..(Size - 1) /\ Held' < Held /\ Held' \in Nat
    BY <1>3, <2>4, <2>9 DEF Size
  <2>11. cb' # cb /\ (cb'.tail = cb'.head <=> Held' = 0)
    <3>1. cb'.head = Round(cb'.tail + Held') /\ cb'.tail \in 0..(Size - 1)
      <4>1. k \in 0..Size
        BY <1>3, <2>4 DEF Size
      <4>2. QED
        BY <1>3, <2>7, <2>9, <4>1, RoundInRing DEF Holds
    <3>2. cb'.tail = cb'.head <=> Held' = 0
      BY <2>10, <3>1 DEF Round, Size
    <3>3. cb' # cb
      BY <1>3, <2>4, <2>7, <2>3 DEF Round, Size
    <3>4. QED
      BY <3>2, <3>3
  <2>12. pc = "meet" => Held' > 0
    <3>1. pc = "meet" => ~(cb' # cb /\ cb'.tail = cb'.head)
      BY DEF HAL_UART_TxCpltCallback
    <3>2. QED
      BY <2>10, <2>11, <3>1
  <2>13. pc = "subtract" => (flag <=> cb'.head >= cb'.tail)
    <3> SUFFICES ASSUME pc = "subtract" PROVE flag <=> cb'.head >= cb'.tail
      OBVIOUS
    <3>1. (flag <=> cb.head >= cb.tail) /\ Held < Size
      BY DEF Ordered, CallInv
    <3>2. ~flag => ~(cb'.tail <= cb'.head)
      BY DEF HAL_UART_TxCpltCallback
    <3>3. cb.head >= cb.tail => cb'.head >= cb'.tail
      BY <1>3, <2>4, <2>7, <3>1 DEF Round, Size
    <3>4. cb'.head \in Int /\ cb'.tail \in Int
      BY <1>3, <2>4, <2>7 DEF Round, Size
    <3>5. ~flag => ~(cb'.head >= cb'.tail)
      BY <3>2, <3>4
    <3>6. QED
      BY <3>1, <3>3, <3>5
  <2>14. CallInv'
    <3>1. /\ pc # "tail" /\ (pc \in {"store", "head"} => Held + len <= Size)
          /\ (pc \in {"meet", "full"} => Held + len <= Size + 1)
      BY DEF Ordered, CallInv
    <3>2. /\ (pc \in {"store", "head"} => Held' + len <= Size)
          /\ (pc \in {"meet", "full"} => Held' + len <= Size + 1)
      <4> DEFINE m == Held'
                 n == Held
      <4>1. m \in Nat /\ n \in Nat /\ m < n /\ len \in Nat /\ Size \in Nat
        BY <1>3, <2>10 DEF Size
      <4>2. /\ (pc \in {"store", "head"} => n + len <= Size)
            /\ (pc \in {"meet", "full"} => n + len <= Size + 1)
        BY <3>1
      <4> HIDE DEF m, n
      <4>3. m + len <= n + len
        BY <4>1
      <4>4. /\ (pc \in {"store", "head"} => m + len <= Size)
            /\ (pc \in {"meet", "full"} => m + len <= Size + 1)
        BY <4>1, <4>2, <4>3
      <4>5. QED
        BY <4>4 DEF m
    <3>3. pc = "head" => cb'.buffer[cb'.head] = written + 1
      BY <2>7 DEF Ordered, CallInv
    <3>4. pc = "full" => ~flag
      BY <2>2, <2>3, <1>3, <1>4 DEF Ordered, CallInv
    <3>5. Held' < Size /\ Held' # Size
      BY <2>10 DEF Size
    <3>6. QED
      BY <1>1, <1>2, <2>7, <2>12, <2>13, <3>1, <3>2, <3>3, <3>4, <3>5 DEF CallInv
  <2>15. QED
    BY <2>9, <2>14 DEF Ordered
<1>5. CASE ~(DataLen(cb) > 0)
  <2>1. cb' = cb /\ it' = "none" /\ pending' = pending
    BY <1>5 DEF HAL_UART_TxCpltCallback, EndTransmit
  <2>2. Taken' = Taken /\ Held' = Held
    BY <1>1, <2>1 DEF Taken, Held
  <2>3. OutInv'
    BY <1>1, <2>1 DEF Ordered, OutInv
  <2>4. CallInv'
    BY <1>1, <1>2, <2>1, <2>2 DEF Ordered, CallInv
  <2>5. QED
    BY <2>1, <2>2, <2>3, <2>4 DEF Ordered
<1>6. QED
  BY <1>4, <1>5

LEMMA StepOrder == Inv /\ OrderInv /\ [Next]_vars => OrderInv'
<1> SUFFICES ASSUME Inv, OrderInv, [Next]_vars, mishaps' = {} PROVE Ordered'
  BY DEF OrderInv
<1>1. mishaps \subseteq mishaps'
  <2>1. CASE UNCHANGED vars
    BY <2>1 DEF vars
  <2>2. CASE Next
    <3>1. CASE Kick
      <4>1. gState \in {"ready", "busy"}
        BY DEF Inv, TypeOK
      <4>2. mishaps' = mishaps \/ mishaps' = mishaps \cup {"late"}
        BY <3>1, <4>1 DEF Kick
      <4>3. QED
        BY <4>2
    <3>2. CASE HAL_UART_TxCpltCallback
      BY <3>2 DEF HAL_UART_TxCpltCallback
    <3>3. CASE Call \/ LenCompare \/ LenSubtract
      BY <3>3 DEF Call, LenCompare, LenSubtract
    <3>4. CASE StoreByte \/ StoreTail \/ StoreHead \/ Meet \/ StoreFull \/ SendByte
      BY <3>4 DEF StoreByte, StoreTail, StoreHead, Meet, StoreFull, SendByte
    <3>5. QED
      BY <2>2, <3>1, <3>2, <3>3, <3>4 DEF Next, Main
  <2>3. QED
    BY <2>1, <2>2
<1>2. mishaps = {} /\ Ordered
  BY <1>1 DEF OrderInv
<1>3. CASE UNCHANGED vars
  <2>1. OutInv' /\ Holds(cb', Held', Taken' + 1) /\ Held' = Held
    BY <1>2, <1>3, SameBytes DEF vars
  <2>2. CallInv'
    BY <1>2, <1>3, <2>1 DEF vars, main, Ordered, CallInv
  <2>3. QED
    BY <2>1, <2>2 DEF Ordered
<1>4. CASE StoreTail
  BY <1>2, <1>4 DEF StoreTail, At, Ordered, CallInv
<1>5. CASE Call \/ LenCompare \/ LenSubtract
  BY <1>2, <1>5, TestOrder
<1>6. CASE StoreByte \/ StoreHead \/ Meet \/ StoreFull
  BY <1>2, <1>6, StoreByteOrder, StoreHeadOrder, MeetOrder, StoreFullOrder
<1>7. CASE Kick \/ SendByte \/ HAL_UART_TxCpltCallback
  BY <1>2, <1>7, KickOrder, SendByteOrder, TxCpltOrder DEF OrderInv
<1>8. QED
  BY <1>3, <1>4, <1>5, <1>6, <1>7 DEF Next, Main

-----------------------------------------------------------------------------

(* circular_buffer.c, uart_driver.c: head and tail stay in the ring and no *)
(* transmission starts without a byte, also where the interrupt has made   *)
(* the full flag or the length wrong.                                      *)
THEOREM TypeCorrect == Spec => []TypeOK
<1>1. Inv => TypeOK
  BY DEF Inv
<1>2. QED
  BY <1>1, Invariance, PTL

(* uart_driver.c: the main loop's kick and the interrupt between them      *)
(* leave no byte behind, whatever the sizes.                               *)
THEOREM NoneStranded == Spec => []NothingStranded
<1>1. Inv => NothingStranded
  BY DEF Inv, StrandInv, NothingStranded
<1>2. QED
  BY <1>1, Invariance, PTL

(* README, Peripheral Data Processing: however the main loop's stores and  *)
(* the interrupt interleave, every byte leaves once and in order - except  *)
(* after one of the three interleavings that mishaps names.                *)
THEOREM BytesInOrder == Spec => []SentInOrder
<1>1. Inv /\ OrderInv => SentInOrder
  <2> SUFFICES ASSUME Inv, Ordered, pc = "idle"
               PROVE  line \o pending \o Contents(cb) = [i \in 1..written |-> i]
    BY DEF OrderInv, SentInOrder
  <2>1. /\ line \in Seq(0..LAST) /\ pending \in Seq(0..LAST) /\ cb \in Ring(Size, 0..LAST)
        /\ Held \in 0..Size /\ (cb.full <=> Held = Size) /\ Held \in 0..Held
        /\ Taken \in Nat /\ Taken + 1 \in Nat /\ written = Taken + Held
        /\ Holds(cb, Held, Taken + 1)
    BY OutNumbers DEF Inv, TypeOK, Ordered, Holds, CallInv, Size
  <2>2. DataLen(cb) = Held
    BY <2>1, DataLenIsHeld
  <2> DEFINE c == Contents(cb)
  <2>3. /\ c \in Seq(0..LAST) /\ Len(c) = Held
        /\ \A i \in 1..Held : c[i] = Taken + 1 + i - 1
    BY <2>1, <2>2, FromTailNumbers DEF Contents
  <2>4. /\ \A i \in 1..Len(line) : line[i] = i
        /\ \A i \in 1..Len(pending) : pending[i] = Len(line) + i
    BY DEF Ordered, OutInv
  <2> HIDE DEF c
  <2> DEFINE out == line \o pending
  <2>5. /\ out \in Seq(0..LAST) /\ Len(out) = Taken
        /\ \A i \in 1..Taken : out[i] = i
    <3>1. /\ out \in Seq(0..LAST) /\ Len(out) = Len(line) + Len(pending)
          /\ \A i \in 1..(Len(line) + Len(pending)) :
               out[i] = IF i <= Len(line) THEN line[i] ELSE pending[i - Len(line)]
      BY <2>1, ConcatProperties
    <3>2. QED
      BY <2>1, <2>4, <3>1 DEF Taken
  <2> HIDE DEF out
  <2> DEFINE all == out \o c
  <2>6. /\ all \in Seq(0..LAST) /\ Len(all) = written
        /\ \A i \in 1..written : all[i] = i
    <3>1. /\ all \in Seq(0..LAST) /\ Len(all) = Len(out) + Len(c)
          /\ \A i \in 1..(Len(out) + Len(c)) :
               all[i] = IF i <= Len(out) THEN out[i] ELSE c[i - Len(out)]
      BY <2>3, <2>5, ConcatProperties
    <3>2. QED
      BY <2>1, <2>3, <2>5, <3>1
  <2> HIDE DEF all
  <2>7. all = [i \in 1..written |-> i]
    BY <2>6
  <2>8. QED
    BY <2>7 DEF all, out, c
<1>2. QED
  BY <1>1, InitInv, StepInv, InitOrder, StepOrder, PTL DEF Spec

=============================================================================
