--------------------------- MODULE TxQueue_proof ---------------------------
(***************************************************************************)
(* The bytes of the request queue implement a queue of requests.  What the *)
(* calls of circular_buffer.c do to the bytes in a ring is proved in       *)
(* RingCalls_proof.                                                        *)
(***************************************************************************)
EXTENDS TxQueue, SequenceTheorems, TLAPS

(* What the ring can hold: nothing yet, the bytes for src and ack_expected *)
(* and those of packets.                                                   *)
Cell ==
  {<<>>} \cup {<<"src", s>> : s \in Source} \cup {<<"ack_expected", 0>>, <<"ack_expected", 1>>}
    \cup {<<p, k>> : p \in Packet \cup {NoPacket}, k \in Nat}

RC == INSTANCE RingCalls_proof WITH
  Byte <- Cell, NoByte <- <<>>, LENGTH <- TX_QUEUE_BUFF_SIZE,
  Blocks <- {}, Lengths <- {}, out <- <<>>

Sound(c) == RC!Sound(c)

LEMMA RingAssumptions ==
  /\ RC!ByteAssumption /\ RC!LengthAssumption
  /\ RC!BlocksAssumption /\ RC!LengthsAssumption
  BY SizesAssumption
     DEF RC!ByteAssumption, RC!LengthAssumption, RC!BlocksAssumption, RC!LengthsAssumption, Cell

(* RC and the modules extended here define the same.                       *)
LEMMA SameRing ==
  ASSUME NEW c, NEW byte, NEW data, NEW n
  PROVE  /\ RC!Put(c, byte) = Put(c, byte)
         /\ RC!Written(c, data) = Written(c, data)
         /\ RC!Accepts(c, data) <=> Accepts(c, data)
         /\ RC!AfterRead(c, n) = AfterRead(c, n)
         /\ RC!BytesRead(c, n) = BytesRead(c, n)
         /\ RC!Contents(c) = Contents(c)
         /\ RC!DataLen(c) = DataLen(c)
         /\ RC!circular_buff_init(n, byte) = circular_buff_init(n, byte)
<1>1. RC!Put(c, byte) = Put(c, byte)
  BY DEF RC!Put, Put, RC!HeadAdvanced, HeadAdvanced, RC!After, After
<1>2. RC!DataLen(c) = DataLen(c) /\ (RC!Accepts(c, data) <=> Accepts(c, data))
  BY DEF RC!Accepts, Accepts, RC!FreeSpace, FreeSpace, RC!DataLen, DataLen
<1>3. RC!Written(c, data) = Written(c, data)
  BY DEF RC!Written, Written
<1>4. RC!AfterRead(c, n) = AfterRead(c, n) /\ RC!BytesRead(c, n) = BytesRead(c, n)
  <2>1. RC!Available(c) = Available(c)
    BY DEF RC!Available, Available, RC!DataLen, DataLen
  <2>2. RC!Least(n, Available(c)) = Least(n, Available(c))
    BY DEF RC!Least, Least
  <2>3. RC!AfterRead(c, n) = AfterRead(c, n)
    BY <2>1, <2>2 DEF RC!AfterRead, AfterRead, RC!Empty, Empty
  <2>4. RC!BytesRead(c, n) = BytesRead(c, n)
    BY <2>1, <2>2 DEF RC!BytesRead, BytesRead, RC!FromTail, FromTail
  <2>5. QED
    BY <2>3, <2>4
<1>5. RC!Contents(c) = Contents(c)
  BY DEF RC!Contents, Contents, RC!FromTail, FromTail, RC!DataLen, DataLen
<1>6. RC!circular_buff_init(n, byte) = circular_buff_init(n, byte)
  BY DEF RC!circular_buff_init, circular_buff_init
<1>7. QED
  BY <1>1, <1>2, <1>3, <1>4, <1>5, <1>6

LEMMA ContentsType ==
  ASSUME NEW c, Sound(c)
  PROVE  /\ Contents(c) \in Seq(Cell) /\ Len(Contents(c)) = DataLen(c)
         /\ DataLen(c) \in 0..TX_QUEUE_BUFF_SIZE
         /\ c.full <=> DataLen(c) = TX_QUEUE_BUFF_SIZE
         /\ FreeSpace(c) = TX_QUEUE_BUFF_SIZE - DataLen(c)
<1>1. /\ RC!Contents(c) \in Seq(Cell) /\ Len(RC!Contents(c)) = RC!DataLen(c)
      /\ RC!DataLen(c) \in 0..TX_QUEUE_BUFF_SIZE
      /\ RC!DataLen(c) = TX_QUEUE_BUFF_SIZE <=> c.full
  BY RC!ContentsIsSeq, RC!DataLenBounds, RingAssumptions DEF Sound
<1>2. c.length = TX_QUEUE_BUFF_SIZE
  BY DEF Sound, RC!Sound
<1>3. QED
  BY <1>1, <1>2, SameRing DEF FreeSpace

LEMMA PutCell ==
  ASSUME NEW c, Sound(c), ~c.full, NEW byte \in Cell
  PROVE  Sound(Put(c, byte)) /\ Contents(Put(c, byte)) = Append(Contents(c), byte)
<1>1. RC!Sound(RC!Put(c, byte)) /\ RC!Contents(RC!Put(c, byte)) = Append(RC!Contents(c), byte)
  BY RC!PutSound, RC!PutAppends, RingAssumptions DEF Sound
<1>2. QED
  BY <1>1, SameRing DEF Sound

LEMMA WriteCells ==
  ASSUME NEW c, Sound(c), NEW data \in Seq(Cell)
  PROVE  /\ Sound(WithPacket(c, data))
         /\ Contents(WithPacket(c, data)) =
              IF Len(Contents(c)) + Len(data) <= TX_QUEUE_BUFF_SIZE
              THEN Contents(c) \o data ELSE Contents(c)
<1> DEFINE w == IF RC!Accepts(c, data) THEN RC!Written(c, data) ELSE c
<1>1. /\ RC!Sound(w)
      /\ RC!Contents(w) = IF Len(RC!Contents(c)) + Len(data) <= TX_QUEUE_BUFF_SIZE
                          THEN RC!Contents(c) \o data ELSE RC!Contents(c)
  BY RC!WriteContents, RingAssumptions DEF Sound
<1>2. w = WithPacket(c, data)
  BY SameRing DEF WithPacket
<1>3. RC!Contents(c) = Contents(c) /\ RC!Contents(WithPacket(c, data)) = Contents(WithPacket(c, data))
  BY SameRing
<1>4. QED
  BY <1>1, <1>2, <1>3 DEF Sound

LEMMA ReadCells ==
  ASSUME NEW c, Sound(c), NEW n \in Nat
  PROVE  LET taken == IF n < Len(Contents(c)) THEN n ELSE Len(Contents(c))
         IN  /\ Sound(AfterRead(c, n))
             /\ BytesRead(c, n) = SubSeq(Contents(c), 1, taken)
             /\ Contents(AfterRead(c, n)) = SubSeq(Contents(c), taken + 1, Len(Contents(c)))
<1> DEFINE taken == IF n < Len(RC!Contents(c)) THEN n ELSE Len(RC!Contents(c))
<1>1. /\ RC!Sound(RC!AfterRead(c, n))
      /\ RC!BytesRead(c, n) = SubSeq(RC!Contents(c), 1, taken)
      /\ RC!Contents(RC!AfterRead(c, n))
           = SubSeq(RC!Contents(c), taken + 1, Len(RC!Contents(c)))
  BY RC!ReadContents, RingAssumptions DEF Sound
<1>2. QED
  BY <1>1, SameRing DEF Sound

-----------------------------------------------------------------------------
(* Types                                                                   *)

TypeInv ==
  /\ Sound(cb) /\ wrapped \in BOOLEAN
  /\ accepted \in Seq(Submitted) /\ packet_cnt = Len(accepted)
  /\ tx_request \in [src : Cell, ack_expected : Cell, header : Seq(Cell), payload : Seq(Cell)]
  /\ Len(tx_request.header) = HEADER_SIZE_BYTES
  /\ Len(tx_request.payload) = MAX_PAYLOAD_SIZE

LEMMA RequestType ==
  ASSUME NEW req \in Submitted
  PROVE  /\ req.packet \in Packet /\ req.src \in Source
         /\ PayloadLen[req.packet] \in 0..MAX_PAYLOAD_SIZE
         /\ PacketLen(req) = HEADER_SIZE_BYTES + PayloadLen[req.packet]
         /\ PacketLen(req) \in Nat \ {0} /\ PacketDataLen(req) \in Nat
<1>1. req \in [src : Source, ack_expected : BOOLEAN, packet : Packet]
  BY SizesAssumption
<1>2. req.packet \in Packet /\ req.src \in Source
  BY <1>1
<1>3. PayloadLen[req.packet] \in 0..MAX_PAYLOAD_SIZE
  BY <1>2, PacketAssumption
<1>4. PacketLen(req) \in Nat \ {0}
  BY <1>3, SizesAssumption DEF PacketLen
<1>5. PacketLen(req) % LEN_WRAP \in Nat
  BY <1>4, SizesAssumption
<1>6. QED
  BY <1>2, <1>3, <1>4, <1>5 DEF PacketDataLen, PacketLen

LEMMA BytesType ==
  ASSUME NEW p \in Packet \cup {NoPacket}, NEW n \in Nat
  PROVE  /\ Bytes(p, n) \in Seq(Cell) /\ Len(Bytes(p, n)) = n
         /\ \A k \in 1..n : Bytes(p, n)[k] = <<p, k>>
<1>1. \A k \in 1..n : <<p, k>> \in Cell
  BY DEF Cell
<1>2. QED
  BY <1>1 DEF Bytes

LEMMA FlagsType ==
  ASSUME NEW req \in Submitted
  PROVE  SrcByte(req) \in Cell /\ AckByte(req) \in Cell
  BY RequestType DEF SrcByte, AckByte, Cell

(* What reads leave behind and what they bring.                            *)
LEMMA Dropped ==
  ASSUME NEW s \in Seq(Cell), NEW n \in 0..Len(s)
  PROVE  LET d == SubSeq(s, n + 1, Len(s))
         IN  /\ d \in Seq(Cell) /\ Len(d) = Len(s) - n
             /\ \A i \in 1..(Len(s) - n) : d[i] = s[n + i]
  OBVIOUS

LEMMA Taken ==
  ASSUME NEW s \in Seq(Cell), NEW n \in 0..Len(s)
  PROVE  LET t == SubSeq(s, 1, n)
         IN  t \in Seq(Cell) /\ Len(t) = n /\ \A i \in 1..n : t[i] = s[i]
  OBVIOUS

LEMMA ReadType ==
  ASSUME NEW c, Sound(c), NEW n \in Nat
  PROVE  /\ Sound(AfterRead(c, n))
         /\ BytesRead(c, n) \in Seq(Cell) /\ Len(BytesRead(c, n)) <= n
<1> DEFINE s == Contents(c)
           taken == IF n < Len(s) THEN n ELSE Len(s)
<1>1. s \in Seq(Cell)
  BY ContentsType
<1>2. Sound(AfterRead(c, n)) /\ BytesRead(c, n) = SubSeq(s, 1, taken)
  BY ReadCells
<1>3. taken \in 0..Len(s) /\ taken <= n
  BY <1>1
<1>4. SubSeq(s, 1, taken) \in Seq(Cell) /\ Len(SubSeq(s, 1, taken)) = taken
  BY <1>1, <1>3, Taken
<1>5. QED
  BY <1>2, <1>3, <1>4

LEMMA OverType ==
  ASSUME NEW bytes \in Seq(Cell), NEW old \in Seq(Cell), Len(bytes) <= Len(old)
  PROVE  Over(bytes, old) \in Seq(Cell) /\ Len(Over(bytes, old)) = Len(old)
<1> DEFINE rest == SubSeq(old, Len(bytes) + 1, Len(old))
<1>1. rest \in Seq(Cell) /\ Len(rest) = Len(old) - Len(bytes)
  BY Dropped
<1>2. bytes \o rest \in Seq(Cell) /\ Len(bytes \o rest) = Len(bytes) + Len(rest)
  BY <1>1
<1>3. QED
  BY <1>1, <1>2 DEF Over

LEMMA ByteOverType ==
  ASSUME NEW bytes \in Seq(Cell), NEW old \in Cell
  PROVE  ByteOver(bytes, old) \in Cell
  BY DEF ByteOver

LEMMA LenInType == ASSUME NEW header PROVE LenIn(header) \subseteq 0..MAX_PAYLOAD_SIZE
  BY PacketAssumption DEF LenIn

LEMMA InitType == Init => TypeInv
<1> SUFFICES ASSUME Init PROVE TypeInv
  OBVIOUS
<1>1. Sound(cb)
  BY RC!InitContents, RingAssumptions, SameRing DEF Init, Sound
<1>2. /\ Bytes(NoPacket, HEADER_SIZE_BYTES) \in Seq(Cell)
      /\ Len(Bytes(NoPacket, HEADER_SIZE_BYTES)) = HEADER_SIZE_BYTES
  BY BytesType, SizesAssumption
<1>3. <<>> \in Cell
  BY DEF Cell
<1>4. /\ [k \in 1..MAX_PAYLOAD_SIZE |-> <<>>] \in Seq(Cell)
      /\ Len([k \in 1..MAX_PAYLOAD_SIZE |-> <<>>]) = MAX_PAYLOAD_SIZE
  BY <1>3, SizesAssumption
<1>5. /\ Nothing \in [src : Cell, ack_expected : Cell, header : Seq(Cell), payload : Seq(Cell)]
      /\ Len(Nothing.header) = HEADER_SIZE_BYTES /\ Len(Nothing.payload) = MAX_PAYLOAD_SIZE
  BY <1>2, <1>3, <1>4 DEF Nothing
<1>6. accepted \in Seq(Submitted) /\ packet_cnt = Len(accepted)
  BY DEF Init
<1>7. QED
  BY <1>1, <1>5, <1>6 DEF Init, TypeInv

(* Where there is room, both bytes of its own and the packet fit.          *)
LEMMA WriteRing ==
  ASSUME NEW c, Sound(c), NEW req \in Submitted,
         FreeSpace(c) > PacketDataLen(req) + 1
  PROVE  LET data == Bytes(req.packet, PacketDataLen(req))
             w == WithPacket(Put(Put(c, SrcByte(req)), AckByte(req)), data)
         IN  /\ Sound(w)
             /\ Contents(w) = Append(Append(Contents(c), SrcByte(req)), AckByte(req)) \o data
<1> DEFINE data == Bytes(req.packet, PacketDataLen(req))
           c1 == Put(c, SrcByte(req))
           c2 == Put(c1, AckByte(req))
<1>1. SrcByte(req) \in Cell /\ AckByte(req) \in Cell
  BY FlagsType
<1>2. data \in Seq(Cell) /\ Len(data) = PacketDataLen(req) /\ PacketDataLen(req) \in Nat
  BY BytesType, RequestType
<1>3. /\ Contents(c) \in Seq(Cell) /\ Len(Contents(c)) + 2 + PacketDataLen(req) <= TX_QUEUE_BUFF_SIZE
      /\ ~c.full
  BY <1>2, ContentsType, SizesAssumption
<1>4. Sound(c1) /\ Contents(c1) = Append(Contents(c), SrcByte(req))
  BY <1>1, <1>3, PutCell
<1>5. Contents(c1) \in Seq(Cell) /\ Len(Contents(c1)) = Len(Contents(c)) + 1
  BY <1>1, <1>3, <1>4
<1>6. ~c1.full
  BY <1>2, <1>3, <1>4, <1>5, ContentsType, SizesAssumption
<1>7. Sound(c2) /\ Contents(c2) = Append(Contents(c1), AckByte(req))
  BY <1>1, <1>4, <1>6, PutCell
<1>8. Len(Contents(c2)) = Len(Contents(c)) + 2
  BY <1>1, <1>3, <1>5, <1>7
<1>9. Len(Contents(c2)) + Len(data) <= TX_QUEUE_BUFF_SIZE
  BY <1>2, <1>3, <1>8
<1>10. Sound(WithPacket(c2, data)) /\ Contents(WithPacket(c2, data)) = Contents(c2) \o data
  BY <1>2, <1>7, <1>9, WriteCells
<1>11. QED
  BY <1>4, <1>7, <1>10

LEMMA WriteType ==
  ASSUME TypeInv, NEW req \in Submitted, host_comm_tx_queue_write_request(req)
  PROVE  TypeInv'
<1>1. Sound(cb')
  BY WriteRing DEF TypeInv, host_comm_tx_queue_write_request, HasRoom
<1>2. accepted' \in Seq(Submitted) /\ packet_cnt' = Len(accepted')
  BY DEF TypeInv, host_comm_tx_queue_write_request
<1>3. QED
  BY <1>1, <1>2 DEF TypeInv, host_comm_tx_queue_write_request

LEMMA ReadTypes ==
  ASSUME TypeInv, host_comm_tx_queue_read_request
  PROVE  TypeInv'
<1> DEFINE H == HEADER_SIZE_BYTES
           c1 == AfterRead(cb, 1)
           c2 == AfterRead(c1, 1)
           c3 == AfterRead(c2, H)
           header == Over(BytesRead(c2, H), tx_request.header)
           read(n) == [src          |-> ByteOver(BytesRead(cb, 1), tx_request.src),
                       ack_expected |-> ByteOver(BytesRead(c1, 1), tx_request.ack_expected),
                       header       |-> header,
                       payload      |-> Over(BytesRead(c3, n), tx_request.payload)]
<1>1. PICK n \in LenIn(header) : tx_request' = read(n) /\ cb' = AfterRead(c3, n)
  BY DEF host_comm_tx_queue_read_request
<1>2. n \in 0..MAX_PAYLOAD_SIZE
  BY LenInType
<1>3. /\ tx_request.src \in Cell /\ tx_request.ack_expected \in Cell
      /\ tx_request.header \in Seq(Cell) /\ tx_request.payload \in Seq(Cell)
      /\ Len(tx_request.header) = H /\ Len(tx_request.payload) = MAX_PAYLOAD_SIZE
      /\ Sound(cb)
  BY DEF TypeInv
<1>4. H \in Nat /\ MAX_PAYLOAD_SIZE \in Nat /\ n \in Nat
  BY <1>2, SizesAssumption
<1>5. Sound(c1) /\ BytesRead(cb, 1) \in Seq(Cell)
  BY <1>3, ReadType
<1>6. Sound(c2) /\ BytesRead(c1, 1) \in Seq(Cell)
  BY <1>5, ReadType
<1>7. Sound(c3) /\ BytesRead(c2, H) \in Seq(Cell) /\ Len(BytesRead(c2, H)) <= H
  BY <1>4, <1>6, ReadType
<1>8. /\ Sound(AfterRead(c3, n))
      /\ BytesRead(c3, n) \in Seq(Cell) /\ Len(BytesRead(c3, n)) <= n
  BY <1>4, <1>7, ReadType
<1>9. header \in Seq(Cell) /\ Len(header) = H
  BY <1>3, <1>7, OverType
<1>10. Len(BytesRead(c3, n)) <= Len(tx_request.payload)
  BY <1>2, <1>3, <1>4, <1>8
<1>11. /\ Over(BytesRead(c3, n), tx_request.payload) \in Seq(Cell)
       /\ Len(Over(BytesRead(c3, n), tx_request.payload)) = MAX_PAYLOAD_SIZE
  BY <1>3, <1>8, <1>10, OverType
<1>12. /\ ByteOver(BytesRead(cb, 1), tx_request.src) \in Cell
       /\ ByteOver(BytesRead(c1, 1), tx_request.ack_expected) \in Cell
  BY <1>3, <1>5, <1>6, ByteOverType
<1>13. /\ tx_request' \in [src : Cell, ack_expected : Cell, header : Seq(Cell), payload : Seq(Cell)]
       /\ Len(tx_request'.header) = H /\ Len(tx_request'.payload) = MAX_PAYLOAD_SIZE
  BY <1>1, <1>9, <1>11, <1>12
<1>14. accepted' \in Seq(Submitted) /\ packet_cnt' = Len(accepted')
  BY DEF TypeInv, host_comm_tx_queue_read_request
<1>15. QED
  BY <1>1, <1>8, <1>13, <1>14 DEF TypeInv, host_comm_tx_queue_read_request

LEMMA NextType == TypeInv /\ [Next]_vars => TypeInv'
<1>1. ASSUME TypeInv, UNCHANGED vars PROVE TypeInv'
  BY <1>1 DEF TypeInv, vars
<1>2. QED
  BY <1>1, WriteType, ReadTypes DEF Next

LEMMA TypeInvIsType == TypeInv => TypeOK
  BY SizesAssumption DEF TypeInv, TypeOK, Sound, RC!Sound

(* host_comm_tx_queue.c: whatever requests are written, also one whose     *)
(* length wraps and whatever is then read for a header, the ring stays in  *)
(* order and a request read keeps the sizes of its parts.                  *)
THEOREM TypeCorrect == Spec => []TypeOK
BY InitType, NextType, TypeInvIsType, PTL DEF Spec

-----------------------------------------------------------------------------
(* The bytes of the requests                                               *)

Laid(req) == <<SrcByte(req), AckByte(req)>> \o Bytes(req.packet, PacketLen(req))

(* bytes are those of the requests q, one after the other: rest[k] is what *)
(* is left of them before the k-th.                                        *)
IsLaid(q, bytes) ==
  \E rest \in [1..(Len(q) + 1) -> Seq(Cell)] :
    /\ rest[1] = bytes /\ rest[Len(q) + 1] = <<>>
    /\ \A k \in 1..Len(q) : rest[k] = Laid(q[k]) \o rest[k + 1]
    /\ \A j, k \in 1..(Len(q) + 1) : j <= k => Len(rest[k]) <= Len(rest[j])

QueueInv == ~wrapped => IsLaid(accepted, Contents(cb))

LEMMA AfterTwo ==
  ASSUME NEW s \in Seq(Cell), Len(s) = 2, NEW t \in Seq(Cell)
  PROVE  /\ s \o t \in Seq(Cell) /\ Len(s \o t) = 2 + Len(t)
         /\ (s \o t)[1] = s[1] /\ (s \o t)[2] = s[2]
         /\ \A k \in 1..Len(t) : (s \o t)[2 + k] = t[k]
<1>1. /\ s \o t \in Seq(Cell) /\ Len(s \o t) = Len(s) + Len(t)
      /\ \A i \in 1..(Len(s) + Len(t)) :
           (s \o t)[i] = IF i <= Len(s) THEN s[i] ELSE t[i - Len(s)]
  BY ConcatProperties
<1>2. Len(t) \in Nat
  OBVIOUS
<1>3. ASSUME NEW k \in 1..Len(t) PROVE (s \o t)[2 + k] = t[k]
  <2>1. 2 + k \in 1..(2 + Len(t)) /\ ~(2 + k <= 2) /\ (2 + k) - 2 = k
    BY <1>2
  <2>2. QED
    BY <1>1, <2>1
<1>4. QED
  BY <1>1, <1>2, <1>3

LEMMA LaidType ==
  ASSUME NEW req \in Submitted
  PROVE  /\ Laid(req) \in Seq(Cell) /\ Len(Laid(req)) = 2 + PacketLen(req)
         /\ Laid(req)[1] = SrcByte(req) /\ Laid(req)[2] = AckByte(req)
         /\ \A k \in 1..PacketLen(req) : Laid(req)[2 + k] = <<req.packet, k>>
<1> DEFINE flags == <<SrcByte(req), AckByte(req)>>
           data  == Bytes(req.packet, PacketLen(req))
<1>1. /\ flags \in Seq(Cell) /\ Len(flags) = 2
      /\ flags[1] = SrcByte(req) /\ flags[2] = AckByte(req)
  BY FlagsType
<1>2. PacketLen(req) \in Nat
  BY RequestType
<1>3. /\ data \in Seq(Cell) /\ Len(data) = PacketLen(req)
      /\ \A k \in 1..PacketLen(req) : data[k] = <<req.packet, k>>
  BY <1>2, RequestType, BytesType
<1> HIDE DEF flags, data
<1>4. /\ flags \o data \in Seq(Cell) /\ Len(flags \o data) = 2 + Len(data)
      /\ (flags \o data)[1] = flags[1] /\ (flags \o data)[2] = flags[2]
      /\ \A k \in 1..Len(data) : (flags \o data)[2 + k] = data[k]
  BY <1>1, <1>3, AfterTwo
<1>5. QED
  BY <1>1, <1>3, <1>4 DEF Laid, flags, data

LEMMA Appended ==
  ASSUME NEW s \in Seq(Cell), NEW a \in Cell, NEW b \in Cell, NEW data \in Seq(Cell)
  PROVE  Append(Append(s, a), b) \o data = s \o (<<a, b>> \o data)
  OBVIOUS

LEMMA Regroup ==
  ASSUME NEW s \in Seq(Cell), NEW t \in Seq(Cell), NEW u \in Seq(Cell)
  PROVE  (s \o t) \o u = s \o (t \o u)
  OBVIOUS

LEMMA LaidNone == IsLaid(<<>>, <<>>)
<1> DEFINE rest == [k \in 1..1 |-> <<>>]
<1>1. /\ rest \in [1..(Len(<<>>) + 1) -> Seq(Cell)] /\ rest[1] = <<>>
      /\ \A j, k \in 1..(Len(<<>>) + 1) : j <= k => Len(rest[k]) <= Len(rest[j])
  OBVIOUS
<1>2. Len(<<>>) = 0 /\ 1..0 = {}
  OBVIOUS
<1> HIDE DEF rest
<1>3. QED
  BY <1>1, <1>2 DEF IsLaid

LEMMA LaidMore ==
  ASSUME NEW q \in Seq(Submitted), NEW bytes \in Seq(Cell), NEW req \in Submitted,
         IsLaid(q, bytes)
  PROVE  IsLaid(Append(q, req), bytes \o Laid(req))
<1> DEFINE n == Len(q)
           L == Laid(req)
           more == Append(q, req)
<1>1. PICK rest \in [1..(n + 1) -> Seq(Cell)] :
        /\ rest[1] = bytes /\ rest[n + 1] = <<>>
        /\ \A k \in 1..n : rest[k] = Laid(q[k]) \o rest[k + 1]
        /\ \A j, k \in 1..(n + 1) : j <= k => Len(rest[k]) <= Len(rest[j])
  BY DEF IsLaid
<1>2. n \in Nat /\ L \in Seq(Cell)
  BY LaidType
<1>3. /\ Len(more) = n + 1 /\ more[n + 1] = req
      /\ \A k \in 1..n : more[k] = q[k] /\ q[k] \in Submitted
  OBVIOUS
<1> DEFINE longer == [k \in 1..(n + 2) |-> IF k <= n + 1 THEN rest[k] \o L ELSE <<>>]
<1>4. longer \in [1..(n + 2) -> Seq(Cell)]
  <2>1. ASSUME NEW k \in 1..(n + 2) PROVE (IF k <= n + 1 THEN rest[k] \o L ELSE <<>>) \in Seq(Cell)
    <3>1. CASE k <= n + 1
      <4>1. rest[k] \in Seq(Cell)
        BY <1>1, <1>2, <3>1
      <4>2. QED
        BY <1>2, <3>1, <4>1
    <3>2. QED
      BY <3>1
  <2>2. QED
    BY <2>1
<1>5. longer[1] = bytes \o L /\ longer[n + 2] = <<>>
  <2>1. 1 \in 1..(n + 2) /\ 1 <= n + 1 /\ n + 2 \in 1..(n + 2) /\ ~(n + 2 <= n + 1)
    BY <1>2
  <2>2. longer[1] = rest[1] \o L /\ longer[n + 2] = <<>>
    BY <2>1
  <2>3. QED
    BY <1>1, <2>2
<1>6. ASSUME NEW k \in 1..(n + 1) PROVE longer[k] = Laid(more[k]) \o longer[k + 1]
  <2>1. longer[k] = rest[k] \o L
    BY <1>2
  <2>2. CASE k = n + 1
    <3>1. longer[k + 1] = <<>> /\ rest[k] = <<>>
      BY <1>1, <1>2, <2>2
    <3>2. Laid(more[k]) = L
      BY <1>3, <2>2
    <3>3. <<>> \o L = L \o <<>>
      BY <1>2
    <3>4. QED
      BY <2>1, <3>1, <3>2, <3>3
  <2>3. CASE k # n + 1
    <3>1. k \in 1..n /\ k + 1 \in 1..(n + 1)
      BY <1>2, <2>3
    <3>2. rest[k] = Laid(q[k]) \o rest[k + 1] /\ rest[k + 1] \in Seq(Cell)
      BY <1>1, <3>1
    <3>3. Laid(q[k]) \in Seq(Cell) /\ more[k] = q[k]
      BY <1>3, <3>1, LaidType
    <3>4. longer[k + 1] = rest[k + 1] \o L
      BY <1>2, <3>1
    <3>5. (Laid(q[k]) \o rest[k + 1]) \o L = Laid(q[k]) \o (rest[k + 1] \o L)
      BY <1>2, <3>2, <3>3, Regroup
    <3>6. QED
      BY <2>1, <3>2, <3>3, <3>4, <3>5
  <2>4. QED
    BY <2>2, <2>3
<1>11. ASSUME NEW j \in 1..(n + 2), NEW k \in 1..(n + 2), j <= k
       PROVE  Len(longer[k]) <= Len(longer[j])
  <2>1. Len(longer[j]) \in Nat
    BY <1>4
  <2>2. CASE k = n + 2
    BY <1>5, <2>1, <2>2
  <2>3. CASE k # n + 2
    <3>1. k \in 1..(n + 1) /\ j \in 1..(n + 1)
      BY <1>2, <1>11, <2>3, SMTT(30)
    <3>2. longer[k] = rest[k] \o L /\ longer[j] = rest[j] \o L
      BY <1>2, <3>1
    <3>3. rest[k] \in Seq(Cell) /\ rest[j] \in Seq(Cell) /\ Len(rest[k]) <= Len(rest[j])
      BY <1>1, <1>11, <3>1
    <3> HIDE DEF longer, L
    <3>4. Len(longer[k]) = Len(rest[k]) + Len(L) /\ Len(longer[j]) = Len(rest[j]) + Len(L)
      BY <1>2, <3>2, <3>3
    <3>5. Len(L) \in Nat /\ Len(rest[k]) \in Nat /\ Len(rest[j]) \in Nat
      BY <1>2, <3>3
    <3>6. QED
      BY <3>3, <3>4, <3>5
  <2>4. QED
    BY <2>2, <2>3
<1> HIDE DEF longer
<1>7. Len(more) + 1 = n + 2
  BY <1>2, <1>3
<1> HIDE DEF more, L
<1>8. /\ longer \in [1..(Len(more) + 1) -> Seq(Cell)]
      /\ longer[1] = bytes \o L /\ longer[Len(more) + 1] = <<>>
      /\ \A k \in 1..Len(more) : longer[k] = Laid(more[k]) \o longer[k + 1]
      /\ \A j, k \in 1..(Len(more) + 1) : j <= k => Len(longer[k]) <= Len(longer[j])
  BY <1>3, <1>4, <1>5, <1>6, <1>7, <1>11
<1>9. IsLaid(more, bytes \o L)
  BY <1>8 DEF IsLaid
<1>10. QED
  BY <1>9 DEF more, L

LEMMA LaidFirst ==
  ASSUME NEW q \in Seq(Submitted), q # <<>>, NEW bytes, IsLaid(q, bytes)
  PROVE  \E r \in Seq(Cell) : bytes = Laid(Head(q)) \o r /\ IsLaid(Tail(q), r)
<1> DEFINE n == Len(q)
<1>1. PICK rest \in [1..(n + 1) -> Seq(Cell)] :
        /\ rest[1] = bytes /\ rest[n + 1] = <<>>
        /\ \A k \in 1..n : rest[k] = Laid(q[k]) \o rest[k + 1]
        /\ \A j, k \in 1..(n + 1) : j <= k => Len(rest[k]) <= Len(rest[j])
  BY DEF IsLaid
<1>2. /\ n \in Nat /\ n >= 1 /\ Head(q) = q[1]
      /\ Len(Tail(q)) = n - 1 /\ \A k \in 1..(n - 1) : Tail(q)[k] = q[k + 1]
  OBVIOUS
<1> DEFINE later == [k \in 1..n |-> rest[k + 1]]
<1>3. later \in [1..n -> Seq(Cell)]
  BY <1>1, <1>2
<1>4. later[1] = rest[2] /\ later[n] = <<>>
  BY <1>1, <1>2
<1>5. ASSUME NEW k \in 1..(n - 1) PROVE later[k] = Laid(Tail(q)[k]) \o later[k + 1]
  <2>1. k \in 1..n /\ k + 1 \in 1..n
    BY <1>2
  <2>2. later[k] = rest[k + 1] /\ later[k + 1] = rest[(k + 1) + 1]
    BY <2>1
  <2>3. rest[k + 1] = Laid(q[k + 1]) \o rest[(k + 1) + 1]
    BY <1>1, <2>1
  <2>4. QED
    BY <1>2, <2>2, <2>3
<1>11. ASSUME NEW j \in 1..n, NEW k \in 1..n, j <= k
       PROVE  Len(later[k]) <= Len(later[j])
  <2>1. j + 1 \in 1..(n + 1) /\ k + 1 \in 1..(n + 1) /\ j + 1 <= k + 1
    BY <1>2, <1>11
  <2>2. Len(rest[k + 1]) <= Len(rest[j + 1])
    BY <1>1, <2>1
  <2>3. QED
    BY <2>2
<1>6. rest[2] \in Seq(Cell) /\ bytes = Laid(Head(q)) \o rest[2]
  <2>1. 1 \in 1..n /\ 2 \in 1..(n + 1) /\ 1 + 1 = 2
    BY <1>2
  <2>2. rest[1] = Laid(q[1]) \o rest[1 + 1]
    BY <1>1, <2>1
  <2>3. QED
    BY <1>1, <1>2, <2>1, <2>2
<1> HIDE DEF later
<1> DEFINE t == Tail(q)
<1>7. Len(t) + 1 = n /\ Len(t) = n - 1
  BY <1>2
<1> HIDE DEF t
<1>8. /\ later \in [1..(Len(t) + 1) -> Seq(Cell)]
      /\ later[1] = rest[2] /\ later[Len(t) + 1] = <<>>
      /\ \A k \in 1..Len(t) : later[k] = Laid(t[k]) \o later[k + 1]
      /\ \A j, k \in 1..(Len(t) + 1) : j <= k => Len(later[k]) <= Len(later[j])
  BY <1>3, <1>4, <1>5, <1>7, <1>11 DEF t
<1>9. IsLaid(t, rest[2])
  BY <1>8 DEF IsLaid
<1>10. QED
  BY <1>6, <1>9 DEF t

-----------------------------------------------------------------------------
(* Reading a request back                                                  *)

LEMMA SameSeq ==
  ASSUME NEW s \in Seq(Cell), NEW t \in Seq(Cell), Len(s) = Len(t),
         \A i \in 1..Len(s) : s[i] = t[i]
  PROVE  s = t
  OBVIOUS

LEMMA ReadPart ==
  ASSUME NEW c, Sound(c), NEW n \in Nat, n <= Len(Contents(c))
  PROVE  LET s == Contents(c)
             t == Contents(AfterRead(c, n))
             b == BytesRead(c, n)
         IN  /\ Sound(AfterRead(c, n))
             /\ b \in Seq(Cell) /\ Len(b) = n /\ \A i \in 1..n : b[i] = s[i]
             /\ t \in Seq(Cell) /\ Len(t) = Len(s) - n
             /\ \A i \in 1..(Len(s) - n) : t[i] = s[n + i]
<1> DEFINE s == Contents(c)
           taken == IF n < Len(s) THEN n ELSE Len(s)
<1>1. s \in Seq(Cell)
  BY ContentsType
<1>2. taken = n /\ n \in 0..Len(s)
  BY <1>1
<1>3. /\ Sound(AfterRead(c, n)) /\ BytesRead(c, n) = SubSeq(s, 1, n)
      /\ Contents(AfterRead(c, n)) = SubSeq(s, n + 1, Len(s))
  BY <1>2, ReadCells
<1>4. QED
  BY <1>1, <1>2, <1>3, Dropped, Taken

LEMMA ReadLaid ==
  ASSUME NEW c, Sound(c), NEW req \in Submitted, NEW r \in Seq(Cell),
         Contents(c) = Laid(req) \o r
  PROVE  LET H  == HEADER_SIZE_BYTES
             P  == PayloadLen[req.packet]
             c1 == AfterRead(c, 1)
             c2 == AfterRead(c1, 1)
             c3 == AfterRead(c2, H)
         IN  /\ BytesRead(c, 1) = <<SrcByte(req)>>
             /\ BytesRead(c1, 1) = <<AckByte(req)>>
             /\ BytesRead(c2, H) = Bytes(req.packet, H)
             /\ BytesRead(c3, P) = [k \in 1..P |-> <<req.packet, H + k>>]
             /\ Contents(AfterRead(c3, P)) = r
<1> DEFINE H  == HEADER_SIZE_BYTES
           P  == PayloadLen[req.packet]
           p  == req.packet
           L  == Laid(req)
           s  == Contents(c)
           c1 == AfterRead(c, 1)
           s1 == Contents(c1)
           c2 == AfterRead(c1, 1)
           s2 == Contents(c2)
           c3 == AfterRead(c2, H)
           s3 == Contents(c3)
           c4 == AfterRead(c3, P)
           s4 == Contents(c4)
<1>1. H \in Nat /\ P \in Nat /\ H >= 1 /\ p \in Packet /\ PacketLen(req) = H + P
  BY RequestType, SizesAssumption
<1>2. /\ L \in Seq(Cell) /\ Len(L) = 2 + H + P
      /\ L[1] = SrcByte(req) /\ L[2] = AckByte(req)
      /\ \A k \in 1..(H + P) : L[2 + k] = <<p, k>>
  <2>1. /\ L \in Seq(Cell) /\ Len(L) = 2 + PacketLen(req)
        /\ L[1] = SrcByte(req) /\ L[2] = AckByte(req)
        /\ \A k \in 1..PacketLen(req) : L[2 + k] = <<p, k>>
    BY LaidType
  <2> HIDE DEF L, H, P
  <2>2. ASSUME NEW k \in 1..(H + P) PROVE L[2 + k] = <<p, k>>
    BY <1>1, <2>1
  <2>3. Len(L) = 2 + H + P
    BY <1>1, <2>1
  <2>4. QED
    BY <2>1, <2>2, <2>3
<1>3. /\ s \in Seq(Cell) /\ Len(s) = 2 + H + P + Len(r) /\ Len(r) \in Nat
      /\ \A i \in 1..(2 + H + P) : s[i] = L[i]
      /\ \A i \in 1..Len(r) : s[2 + H + P + i] = r[i]
  <2>1. /\ L \o r \in Seq(Cell) /\ Len(L \o r) = Len(L) + Len(r)
        /\ \A i \in 1..(Len(L) + Len(r)) : (L \o r)[i] = IF i <= Len(L) THEN L[i] ELSE r[i - Len(L)]
    BY <1>2, ConcatProperties
  <2>2. s = L \o r /\ Len(r) \in Nat
    OBVIOUS
  <2> HIDE DEF L, s, H, P
  <2>3. ASSUME NEW i \in 1..(2 + H + P) PROVE s[i] = L[i]
    BY <1>1, <1>2, <2>1, <2>2
  <2>4. ASSUME NEW i \in 1..Len(r) PROVE s[2 + H + P + i] = r[i]
    <3>1. /\ 2 + H + P + i \in 1..(Len(L) + Len(r)) /\ ~(2 + H + P + i <= Len(L))
          /\ (2 + H + P + i) - Len(L) = i
      BY <1>1, <1>2, <2>2
    <3>2. QED
      BY <2>1, <2>2, <3>1
  <2>5. QED
    BY <1>1, <1>2, <2>1, <2>2, <2>3, <2>4
<1>4. /\ Sound(c1) /\ s1 \in Seq(Cell) /\ Len(s1) = 1 + H + P + Len(r)
      /\ BytesRead(c, 1) \in Seq(Cell) /\ Len(BytesRead(c, 1)) = 1 /\ BytesRead(c, 1)[1] = s[1]
      /\ \A i \in 1..(1 + H + P + Len(r)) : s1[i] = s[1 + i]
  <2>1. Sound(c) /\ 1 <= Len(s) /\ 1 \in Nat
    BY <1>1, <1>3
  <2>2. /\ Sound(c1)
        /\ BytesRead(c, 1) \in Seq(Cell) /\ Len(BytesRead(c, 1)) = 1
        /\ \A i \in 1..1 : BytesRead(c, 1)[i] = s[i]
        /\ s1 \in Seq(Cell) /\ Len(s1) = Len(s) - 1
        /\ \A i \in 1..(Len(s) - 1) : s1[i] = s[1 + i]
    BY <2>1, ReadPart
  <2> HIDE DEF H, P, L, s, c1, s1, c2, s2, c3, s3, c4, s4
  <2>3. QED
    BY <1>1, <1>3, <2>2
<1>5. /\ Sound(c2) /\ s2 \in Seq(Cell) /\ Len(s2) = H + P + Len(r)
      /\ BytesRead(c1, 1) \in Seq(Cell) /\ Len(BytesRead(c1, 1)) = 1 /\ BytesRead(c1, 1)[1] = s1[1]
      /\ \A i \in 1..(H + P + Len(r)) : s2[i] = s1[1 + i]
  <2>1. Sound(c1) /\ 1 <= Len(s1) /\ 1 \in Nat
    <3>1. Sound(c1) /\ Len(s1) = 1 + H + P + Len(r) /\ Len(r) \in Nat
      BY <1>3, <1>4
    <3> HIDE DEF H, P, c1, s1
    <3>2. QED
      BY <1>1, <3>1
  <2>2. /\ Sound(c2)
        /\ BytesRead(c1, 1) \in Seq(Cell) /\ Len(BytesRead(c1, 1)) = 1
        /\ \A i \in 1..1 : BytesRead(c1, 1)[i] = s1[i]
        /\ s2 \in Seq(Cell) /\ Len(s2) = Len(s1) - 1
        /\ \A i \in 1..(Len(s1) - 1) : s2[i] = s1[1 + i]
    BY <2>1, ReadPart
  <2> HIDE DEF H, P, L, s, c1, s1, c2, s2, c3, s3, c4, s4
  <2>3. QED
    BY <1>1, <1>3, <1>4, <2>2
<1>6. /\ Sound(c3) /\ s3 \in Seq(Cell) /\ Len(s3) = P + Len(r)
      /\ BytesRead(c2, H) \in Seq(Cell) /\ Len(BytesRead(c2, H)) = H
      /\ \A i \in 1..H : BytesRead(c2, H)[i] = s2[i]
      /\ \A i \in 1..(P + Len(r)) : s3[i] = s2[H + i]
  <2>1. Sound(c2) /\ H <= Len(s2) /\ H \in Nat
    BY <1>1, <1>3, <1>5
  <2>2. /\ Sound(c3)
        /\ BytesRead(c2, H) \in Seq(Cell) /\ Len(BytesRead(c2, H)) = H
        /\ \A i \in 1..H : BytesRead(c2, H)[i] = s2[i]
        /\ s3 \in Seq(Cell) /\ Len(s3) = Len(s2) - H
        /\ \A i \in 1..(Len(s2) - H) : s3[i] = s2[H + i]
    BY <2>1, ReadPart
  <2> HIDE DEF H, P, L, s, c1, s1, c2, s2, c3, s3, c4, s4
  <2>3. QED
    BY <1>1, <1>3, <1>5, <2>2
<1>7. /\ s4 \in Seq(Cell) /\ Len(s4) = Len(r)
      /\ BytesRead(c3, P) \in Seq(Cell) /\ Len(BytesRead(c3, P)) = P
      /\ \A i \in 1..P : BytesRead(c3, P)[i] = s3[i]
      /\ \A i \in 1..Len(r) : s4[i] = s3[P + i]
  <2>1. Sound(c3) /\ P <= Len(s3) /\ P \in Nat
    BY <1>1, <1>3, <1>6
  <2>2. /\ Sound(c4)
        /\ BytesRead(c3, P) \in Seq(Cell) /\ Len(BytesRead(c3, P)) = P
        /\ \A i \in 1..P : BytesRead(c3, P)[i] = s3[i]
        /\ s4 \in Seq(Cell) /\ Len(s4) = Len(s3) - P
        /\ \A i \in 1..(Len(s3) - P) : s4[i] = s3[P + i]
    BY <2>1, ReadPart
  <2> HIDE DEF H, P, L, s, c1, s1, c2, s2, c3, s3, c4, s4
  <2>3. QED
    BY <1>1, <1>3, <1>6, <2>2
<1> HIDE DEF H, P, L, s, c1, s1, c2, s2, c3, s3, c4, s4
<1>8. \A i \in 1..(H + P + Len(r)) : s2[i] = s[2 + i]
  <2>1. ASSUME NEW i \in 1..(H + P + Len(r)) PROVE s2[i] = s[2 + i]
    <3>1. 1 + i \in 1..(1 + H + P + Len(r)) /\ 1 + (1 + i) = 2 + i
      BY <1>1, <1>3
    <3>2. QED
      BY <1>4, <1>5, <3>1
  <2>2. QED
    BY <2>1
<1>9. \A i \in 1..(P + Len(r)) : s3[i] = s[2 + H + i]
  <2>1. ASSUME NEW i \in 1..(P + Len(r)) PROVE s3[i] = s[2 + H + i]
    <3>1. H + i \in 1..(H + P + Len(r)) /\ 2 + (H + i) = 2 + H + i
      BY <1>1, <1>3
    <3>2. QED
      BY <1>6, <1>8, <3>1
  <2>2. QED
    BY <2>1
<1>10. s4 = r
  <2>1. ASSUME NEW i \in 1..Len(r) PROVE s4[i] = r[i]
    <3>1. P + i \in 1..(P + Len(r)) /\ 2 + H + (P + i) = 2 + H + P + i
      BY <1>1, <1>3
    <3>2. QED
      BY <1>3, <1>7, <1>9, <3>1
  <2>2. QED
    BY <1>7, <2>1, SameSeq
<1>11. BytesRead(c, 1) = <<SrcByte(req)>>
  <2>1. s[1] = SrcByte(req)
    <3>1. 1 \in 1..(2 + H + P)
      BY <1>1
    <3>2. QED
      BY <1>2, <1>3, <3>1
  <2>2. QED
    BY <1>4, <2>1
<1>12. BytesRead(c1, 1) = <<AckByte(req)>>
  <2>1. s1[1] = AckByte(req)
    <3>1. 1 \in 1..(1 + H + P + Len(r)) /\ 2 \in 1..(2 + H + P) /\ 1 + 1 = 2
      BY <1>1, <1>3
    <3>2. s1[1] = s[1 + 1] /\ s[2] = L[2]
      BY <1>3, <1>4, <3>1
    <3>3. QED
      BY <1>2, <3>1, <3>2
  <2>2. QED
    BY <1>5, <2>1
<1>13. \A k \in 1..(H + P) : s[2 + k] = <<p, k>>
  <2>1. ASSUME NEW k \in 1..(H + P) PROVE s[2 + k] = <<p, k>>
    <3>1. 2 + k \in 1..(2 + H + P)
      BY <1>1
    <3>2. QED
      BY <1>2, <1>3, <3>1
  <2>2. QED
    BY <2>1
<1>14. BytesRead(c2, H) = Bytes(p, H)
  <2>1. Bytes(p, H) \in Seq(Cell) /\ Len(Bytes(p, H)) = H /\ \A k \in 1..H : Bytes(p, H)[k] = <<p, k>>
    BY <1>1, BytesType
  <2>2. ASSUME NEW k \in 1..H PROVE BytesRead(c2, H)[k] = <<p, k>>
    <3>1. k \in 1..(H + P) /\ k \in 1..(H + P + Len(r))
      BY <1>1, <1>3
    <3>2. QED
      BY <1>6, <1>8, <1>13, <3>1
  <2>3. QED
    BY <1>6, <2>1, <2>2, SameSeq
<1>15. BytesRead(c3, P) = [k \in 1..P |-> <<p, H + k>>]
  <2> DEFINE t == [k \in 1..P |-> <<p, H + k>>]
  <2>1. t \in Seq(Cell) /\ Len(t) = P /\ \A k \in 1..P : t[k] = <<p, H + k>>
    <3>1. ASSUME NEW k \in 1..P PROVE <<p, H + k>> \in Cell
      <4>1. H + k \in Nat
        BY <1>1
      <4>2. QED
        BY <1>1, <4>1 DEF Cell
    <3>2. t \in [1..P -> Cell] /\ \A k \in 1..P : t[k] = <<p, H + k>>
      BY <3>1
    <3> HIDE DEF t
    <3>3. t \in Seq(Cell) /\ Len(t) = P
      BY <1>1, <3>2
    <3>4. QED
      BY <3>2, <3>3
  <2>2. ASSUME NEW k \in 1..P PROVE BytesRead(c3, P)[k] = <<p, H + k>>
    <3>1. k \in 1..(P + Len(r)) /\ H + k \in 1..(H + P) /\ 2 + (H + k) = 2 + H + k
      BY <1>1, <1>3
    <3>2. s3[k] = s[2 + H + k] /\ s[2 + (H + k)] = <<p, H + k>>
      BY <1>9, <1>13, <3>1
    <3>3. QED
      BY <1>7, <3>1, <3>2
  <2> HIDE DEF t
  <2>3. BytesRead(c3, P) = t
    BY <1>7, <2>1, <2>2, SameSeq
  <2>4. QED
    BY <2>3 DEF t
<1>16. QED
  BY <1>10, <1>11, <1>12, <1>14, <1>15 DEF H, P, c1, c2, c3, c4, s4

-----------------------------------------------------------------------------
(* Every call is the queue of requests'                                    *)

LEMMA InitQueue == Init => QueueInv /\ Requests!Init
<1> SUFFICES ASSUME Init PROVE QueueInv /\ Requests!Init
  OBVIOUS
<1>1. Sound(cb) /\ Contents(cb) = <<>>
  BY RC!InitContents, RingAssumptions, SameRing DEF Init, Sound
<1>2. DataLen(cb) = 0
  BY <1>1, ContentsType
<1>3. QED
  BY <1>1, <1>2, LaidNone DEF Init, QueueInv, Requests!Init

(* A packet that packet_data_len can hold is laid out whole.               *)
LEMMA WriteLaid ==
  ASSUME TypeInv, NEW req \in Submitted, host_comm_tx_queue_write_request(req),
         PacketLen(req) < LEN_WRAP
  PROVE  Contents(cb') = Contents(cb) \o Laid(req)
<1>1. PacketDataLen(req) = PacketLen(req) /\ PacketLen(req) \in Nat
  BY RequestType, SizesAssumption DEF PacketDataLen
<1>2. Bytes(req.packet, PacketLen(req)) \in Seq(Cell)
  BY <1>1, RequestType, BytesType
<1>3. Contents(cb) \in Seq(Cell) /\ Sound(cb)
  BY ContentsType DEF TypeInv
<1>4. Contents(cb') = Append(Append(Contents(cb), SrcByte(req)), AckByte(req))
                        \o Bytes(req.packet, PacketLen(req))
  BY <1>1, <1>3, WriteRing DEF host_comm_tx_queue_write_request, HasRoom
<1>5. QED
  BY <1>2, <1>3, <1>4, FlagsType, Appended DEF Laid

LEMMA WriteImplements ==
  ASSUME TypeInv, TypeInv', QueueInv, NEW req \in Submitted,
         host_comm_tx_queue_write_request(req)
  PROVE  QueueInv' /\ Requests!Next
<1>1. /\ accepted' = Append(accepted, req) /\ tx_request' = tx_request
      /\ wrapped' = (wrapped \/ PacketLen(req) >= LEN_WRAP)
  BY DEF host_comm_tx_queue_write_request
<1>2. /\ Sound(cb) /\ Sound(cb') /\ accepted \in Seq(Submitted)
      /\ wrapped \in BOOLEAN /\ wrapped' \in BOOLEAN
  BY DEF TypeInv
<1>3. /\ Contents(cb) \in Seq(Cell) /\ Len(Contents(cb)) = DataLen(cb)
      /\ Len(Contents(cb')) = DataLen(cb') /\ DataLen(cb') \in 0..TX_QUEUE_BUFF_SIZE
  BY <1>2, ContentsType
<1>4. PacketLen(req) \in Nat /\ LEN_WRAP \in Nat /\ TX_QUEUE_BUFF_SIZE \in Nat
  BY RequestType, SizesAssumption
<1>5. CASE wrapped
  BY <1>1, <1>5 DEF QueueInv, Requests!Next, Requests!Broken
<1>6. CASE ~wrapped /\ PacketLen(req) >= LEN_WRAP
  <2>1. Requests!WriteOversized(req)
    BY <1>1, <1>3, <1>6 DEF Requests!WriteOversized
  <2>2. QED
    BY <1>1, <1>6, <2>1 DEF QueueInv, Requests!Next
<1>7. CASE ~wrapped /\ PacketLen(req) < LEN_WRAP
  <2>1. ~wrapped' /\ ~(PacketLen(req) >= LEN_WRAP)
    <3>1. ~(PacketLen(req) >= LEN_WRAP)
      BY <1>4, <1>7
    <3>2. QED
      BY <1>1, <1>7, <3>1, Zenon
  <2>2. Contents(cb') = Contents(cb) \o Laid(req)
    BY <1>7, WriteLaid
  <2>3. DataLen(cb') = DataLen(cb) + (2 + PacketLen(req))
    <3>1. Laid(req) \in Seq(Cell) /\ Len(Laid(req)) = 2 + PacketLen(req)
      BY LaidType
    <3>2. Len(Contents(cb) \o Laid(req)) = Len(Contents(cb)) + Len(Laid(req))
      BY <1>3, <3>1
    <3>3. QED
      BY <1>3, <2>2, <3>1, <3>2
  <2>4. Requests!Write(req)
    BY <1>1, <1>3, <1>4, <1>7, <2>1, <2>3 DEF Requests!Write
  <2>5. QueueInv'
    BY <1>1, <1>2, <1>3, <1>7, <2>2, LaidMore DEF QueueInv
  <2>6. QED
    BY <2>4, <2>5 DEF Requests!Next
<1>8. QED
  BY <1>2, <1>4, <1>5, <1>6, <1>7

(* The first byte of a header tells whose it is.                           *)
LEMMA LenInHeader ==
  ASSUME NEW p \in Packet
  PROVE  LenIn(Bytes(p, HEADER_SIZE_BYTES)) = {PayloadLen[p]}
<1> DEFINE h == Bytes(p, HEADER_SIZE_BYTES)
           of == {q \in Packet \cup {NoPacket} : h = Bytes(q, HEADER_SIZE_BYTES)}
<1>1. ASSUME NEW q \in of PROVE q = p
  <2>1. q \in Packet \cup {NoPacket} /\ h = Bytes(q, HEADER_SIZE_BYTES)
    BY <1>1
  <2>2. HEADER_SIZE_BYTES \in Nat /\ 1 \in 1..HEADER_SIZE_BYTES
    BY SizesAssumption
  <2>3. Bytes(p, HEADER_SIZE_BYTES)[1] = <<p, 1>> /\ Bytes(q, HEADER_SIZE_BYTES)[1] = <<q, 1>>
    BY <2>1, <2>2, BytesType
  <2>4. QED
    BY <2>1, <2>3
<1>2. of = {p}
  BY <1>1
<1>3. QED
  BY <1>2 DEF LenIn

LEMMA OverWhole ==
  ASSUME NEW bytes \in Seq(Cell), NEW old \in Seq(Cell), Len(bytes) <= Len(old)
  PROVE  SubSeq(Over(bytes, old), 1, Len(bytes)) = bytes
<1> DEFINE rest == SubSeq(old, Len(bytes) + 1, Len(old))
           o == bytes \o rest
<1>1. rest \in Seq(Cell) /\ Len(rest) = Len(old) - Len(bytes)
  BY Dropped
<1>2. /\ o \in Seq(Cell) /\ Len(o) = Len(bytes) + Len(rest)
      /\ \A i \in 1..(Len(bytes) + Len(rest)) :
           o[i] = IF i <= Len(bytes) THEN bytes[i] ELSE rest[i - Len(bytes)]
  BY <1>1, ConcatProperties
<1>3. Len(bytes) \in 0..Len(o)
  BY <1>1, <1>2
<1> DEFINE t == SubSeq(o, 1, Len(bytes))
<1>4. t \in Seq(Cell) /\ Len(t) = Len(bytes) /\ \A i \in 1..Len(bytes) : t[i] = o[i]
  BY <1>2, <1>3, Taken
<1> HIDE DEF rest, o, t
<1>5. ASSUME NEW i \in 1..Len(bytes) PROVE t[i] = bytes[i]
  <2>1. i \in 1..(Len(bytes) + Len(rest)) /\ i <= Len(bytes)
    BY <1>1
  <2>2. QED
    BY <1>2, <1>4, <2>1
<1>6. t = bytes
  BY <1>4, <1>5, SameSeq
<1>7. QED
  BY <1>6 DEF Over, rest, o, t

LEMMA OverAll ==
  ASSUME NEW bytes \in Seq(Cell), NEW old \in Seq(Cell), Len(bytes) = Len(old)
  PROVE  Over(bytes, old) = bytes
<1> DEFINE rest == SubSeq(old, Len(bytes) + 1, Len(old))
<1>1. rest \in Seq(Cell) /\ Len(rest) = 0
  BY Dropped
<1> HIDE DEF rest
<1>2. rest = <<>>
  BY <1>1
<1>3. bytes \o <<>> = bytes
  BY ConcatEmptySeq
<1>4. QED
  BY <1>2, <1>3 DEF Over, rest

(* What the transmit machine finds in its request is the one written.      *)
LEMMA ReadSeen ==
  ASSUME TypeInv, host_comm_tx_queue_read_request, NEW r \in Seq(Cell),
         accepted # <<>>, Contents(cb) = Laid(Head(accepted)) \o r
  PROVE  Contents(cb') = r /\ Seen(tx_request') = View(Head(accepted))
<1> DEFINE H == HEADER_SIZE_BYTES
           req == Head(accepted)
           p  == req.packet
           P  == PayloadLen[p]
           c1 == AfterRead(cb, 1)
           c2 == AfterRead(c1, 1)
           c3 == AfterRead(c2, H)
           bytes == [k \in 1..P |-> <<p, H + k>>]
           header == Over(BytesRead(c2, H), tx_request.header)
           payload == Over(bytes, tx_request.payload)
<1>1. /\ tx_request.header \in Seq(Cell) /\ tx_request.payload \in Seq(Cell)
      /\ Len(tx_request.header) = H /\ Len(tx_request.payload) = MAX_PAYLOAD_SIZE
      /\ Sound(cb) /\ req \in Submitted
  BY DEF TypeInv
<1>2. p \in Packet /\ P \in 0..MAX_PAYLOAD_SIZE /\ H \in Nat /\ MAX_PAYLOAD_SIZE \in Nat
  BY <1>1, RequestType, SizesAssumption
<1>3. /\ BytesRead(cb, 1) = <<SrcByte(req)>> /\ BytesRead(c1, 1) = <<AckByte(req)>>
      /\ BytesRead(c2, H) = Bytes(p, H) /\ BytesRead(c3, P) = bytes
      /\ Contents(AfterRead(c3, P)) = r
  BY <1>1, ReadLaid
<1>4. header = Bytes(p, H)
  BY <1>1, <1>2, <1>3, BytesType, OverAll
<1>5. LenIn(header) = {P}
  BY <1>2, <1>4, LenInHeader
<1>6. \E n \in LenIn(header) :
        /\ tx_request' = [src          |-> ByteOver(BytesRead(cb, 1), tx_request.src),
                          ack_expected |-> ByteOver(BytesRead(c1, 1), tx_request.ack_expected),
                          header       |-> header,
                          payload      |-> Over(BytesRead(c3, n), tx_request.payload)]
        /\ cb' = AfterRead(c3, n)
  BY DEF host_comm_tx_queue_read_request
<1>7. /\ tx_request' = [src          |-> ByteOver(BytesRead(cb, 1), tx_request.src),
                        ack_expected |-> ByteOver(BytesRead(c1, 1), tx_request.ack_expected),
                        header       |-> header,
                        payload      |-> payload]
      /\ cb' = AfterRead(c3, P)
  BY <1>3, <1>5, <1>6
<1>8. /\ ByteOver(BytesRead(cb, 1), tx_request.src) = SrcByte(req)
      /\ ByteOver(BytesRead(c1, 1), tx_request.ack_expected) = AckByte(req)
  BY <1>3 DEF ByteOver
<1>9. bytes \in Seq(Cell) /\ Len(bytes) = P
  <2>1. ASSUME NEW k \in 1..P PROVE <<p, H + k>> \in Cell
    <3>1. H + k \in Nat
      BY <1>2
    <3>2. QED
      BY <1>2, <3>1 DEF Cell
  <2>2. bytes \in [1..P -> Cell]
    BY <2>1
  <2>3. P \in Nat
    BY <1>2
  <2> HIDE DEF bytes
  <2>4. QED
    BY <2>2, <2>3
<1>10. SubSeq(payload, 1, P) = bytes
  <2>1. Len(bytes) <= Len(tx_request.payload)
    BY <1>1, <1>2, <1>9
  <2>2. SubSeq(payload, 1, Len(bytes)) = bytes
    BY <1>1, <1>9, <2>1, OverWhole
  <2>3. QED
    BY <1>9, <2>2
<1> HIDE DEF bytes, header, payload, P
<1>11. tx_request' = [src |-> SrcByte(req), ack_expected |-> AckByte(req),
                      header |-> header, payload |-> payload]
  BY <1>7, <1>8
<1>12. Seen(tx_request') = [src |-> SrcByte(req), ack_expected |-> AckByte(req),
                            header |-> header, payload |-> SubSeq(payload, 1, P)]
  <2>1. tx_request'.header = header
    BY <1>11
  <2>2. (CHOOSE n \in LenIn(tx_request'.header) : TRUE) = P
    BY <1>5, <2>1
  <2>3. Seen(tx_request') = [tx_request' EXCEPT !.payload = SubSeq(@, 1, P)]
    BY <2>2 DEF Seen
  <2>4. QED
    BY <1>11, <2>3
<1>13. View(req) = [src |-> SrcByte(req), ack_expected |-> AckByte(req),
                    header |-> Bytes(p, H), payload |-> bytes]
  BY DEF View, bytes, P
<1>14. QED
  BY <1>3, <1>4, <1>7, <1>10, <1>12, <1>13

LEMMA ReadImplements ==
  ASSUME TypeInv, TypeInv', QueueInv, host_comm_tx_queue_read_request
  PROVE  QueueInv' /\ Requests!Next
<1>1. wrapped' = wrapped /\ accepted' = Tail(accepted) /\ packet_cnt > 0
  BY DEF host_comm_tx_queue_read_request
<1>2. /\ Sound(cb) /\ Sound(cb') /\ accepted \in Seq(Submitted) /\ accepted # <<>>
      /\ wrapped \in BOOLEAN
  BY <1>1 DEF TypeInv
<1>3. CASE wrapped
  BY <1>1, <1>3 DEF QueueInv, Requests!Next, Requests!Broken
<1>4. CASE ~wrapped
  <2>1. PICK r \in Seq(Cell) :
          Contents(cb) = Laid(Head(accepted)) \o r /\ IsLaid(Tail(accepted), r)
    BY <1>2, <1>4, LaidFirst DEF QueueInv
  <2>2. Contents(cb') = r /\ Seen(tx_request') = View(Head(accepted))
    BY <1>2, <2>1, ReadSeen
  <2>3. Head(accepted) \in Submitted
    BY <1>2
  <2>4. DataLen(cb') = DataLen(cb) - (2 + PacketLen(Head(accepted)))
    <3>1. /\ Laid(Head(accepted)) \in Seq(Cell)
          /\ Len(Laid(Head(accepted))) = 2 + PacketLen(Head(accepted))
          /\ PacketLen(Head(accepted)) \in Nat
      BY <2>3, LaidType, RequestType
    <3>2. Len(Contents(cb)) = Len(Laid(Head(accepted))) + Len(r)
      BY <2>1, <3>1
    <3>3. Len(Contents(cb)) = DataLen(cb) /\ Len(Contents(cb')) = DataLen(cb')
      BY <1>2, ContentsType
    <3>4. Len(r) \in Nat
      OBVIOUS
    <3>5. QED
      BY <2>2, <3>1, <3>2, <3>3, <3>4
  <2>5. Requests!Read
    BY <1>1, <1>2, <1>4, <2>2, <2>4 DEF Requests!Read
  <2>6. QueueInv'
    BY <1>1, <2>1, <2>2 DEF QueueInv
  <2>7. QED
    BY <2>5, <2>6 DEF Requests!Next
<1>5. QED
  BY <1>3, <1>4

LEMMA StepImplements ==
  TypeInv /\ TypeInv' /\ QueueInv /\ [Next]_vars
    => QueueInv' /\ [Requests!Next]_Requests!vars
<1>1. ASSUME QueueInv, UNCHANGED vars PROVE QueueInv' /\ UNCHANGED Requests!vars
  BY <1>1 DEF vars, QueueInv, Requests!vars
<1>2. QED
  BY <1>1, WriteImplements, ReadImplements DEF Next

(* The counter counts the requests whose bytes are in the ring.            *)
LEMMA LaidCounts == TypeInv /\ QueueInv => CountAgrees
<1> SUFFICES ASSUME TypeInv, QueueInv, ~wrapped PROVE CountAgrees
  BY DEF CountAgrees
<1> DEFINE n == Len(accepted)
<1>1. /\ n \in Nat /\ packet_cnt = n /\ Sound(cb)
      /\ \A k \in 1..n : accepted[k] \in Submitted
  BY DEF TypeInv
<1>2. PICK rest \in [1..(n + 1) -> Seq(Cell)] :
        /\ rest[1] = Contents(cb) /\ rest[n + 1] = <<>>
        /\ \A k \in 1..n : rest[k] = Laid(accepted[k]) \o rest[k + 1]
        /\ \A j, k \in 1..(n + 1) : j <= k => Len(rest[k]) <= Len(rest[j])
  BY DEF QueueInv, IsLaid
<1>3. Len(Contents(cb)) = DataLen(cb) /\ DataLen(cb) \in Nat
  BY <1>1, ContentsType, SizesAssumption
<1> DEFINE left == [k \in 1..(n + 1) |-> Len(rest[k])]
<1>4. left \in [1..(n + 1) -> 0..DataLen(cb)]
  <2>1. ASSUME NEW k \in 1..(n + 1) PROVE Len(rest[k]) \in 0..DataLen(cb)
    <3>1. 1 \in 1..(n + 1) /\ 1 <= k
      BY <1>1
    <3>2. Len(rest[k]) \in Nat /\ Len(rest[k]) <= Len(rest[1])
      BY <1>2, <3>1
    <3>3. QED
      BY <1>2, <1>3, <3>2
  <2>2. QED
    BY <2>1
<1>5. left[1] = DataLen(cb) /\ left[n + 1] = 0
  BY <1>1, <1>2, <1>3
<1>6. ASSUME NEW k \in 1..n PROVE left[k] = 2 + PacketLen(accepted[k]) + left[k + 1]
  <2>1. k \in 1..(n + 1) /\ k + 1 \in 1..(n + 1)
    BY <1>1
  <2>2. rest[k] = Laid(accepted[k]) \o rest[k + 1] /\ rest[k + 1] \in Seq(Cell)
    BY <1>2, <2>1
  <2>3. /\ Laid(accepted[k]) \in Seq(Cell)
        /\ Len(Laid(accepted[k])) = 2 + PacketLen(accepted[k])
    BY <1>1, LaidType
  <2>4. Len(rest[k]) = Len(Laid(accepted[k])) + Len(rest[k + 1])
    <3> DEFINE s == Laid(accepted[k])
               t == rest[k + 1]
    <3>1. s \in Seq(Cell) /\ t \in Seq(Cell) /\ rest[k] = s \o t
      BY <2>2, <2>3
    <3> HIDE DEF s, t
    <3>2. Len(s \o t) = Len(s) + Len(t)
      BY <3>1
    <3>3. QED
      BY <3>1, <3>2 DEF s, t
  <2>5. left[k] = Len(rest[k]) /\ left[k + 1] = Len(rest[k + 1])
    BY <2>1
  <2>6. QED
    BY <2>3, <2>4, <2>5
<1> HIDE DEF left
<1>7. QED
  BY <1>1, <1>4, <1>5, <1>6 DEF CountAgrees

(* host_comm_tx_queue.c: packet_cnt and the ring, kept apart, agree: for   *)
(* every capacity, header size and traffic, the ring holds the bytes of    *)
(* packet_cnt requests and no others, up to a request whose length         *)
(* packet_data_len cannot hold.                                            *)
THEOREM CountsAgree == Spec => []CountAgrees
BY InitType, NextType, InitQueue, StepImplements, LaidCounts, PTL DEF Spec

(* host_comm_tx_queue.c: for every capacity, header size and traffic, the  *)
(* bytes in the ring are a queue of requests - each comes out with its     *)
(* source, flag, header and payload as it went in, in order, and the ring  *)
(* holds the bytes of the requests queued and no others - up to the first  *)
(* request whose length packet_data_len cannot hold.                       *)
THEOREM ImplementsRequestQueue == Spec => RequestQueueSpec
<1>1. Spec => Requests!Init /\ [][Requests!Next]_Requests!vars
  BY InitType, NextType, InitQueue, StepImplements, PTL DEF Spec
<1>2. QED
  BY <1>1 DEF RequestQueueSpec, Requests!Spec
=============================================================================
