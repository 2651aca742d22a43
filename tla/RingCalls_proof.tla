-------------------------- MODULE RingCalls_proof ---------------------------
(***************************************************************************)
(* Proofs about RingCalls, for every length of the ring, every set of      *)
(* bytes and every block: the ring implements a bounded queue.  Each call  *)
(* of circular_buffer.c has a lemma that says what it does to the bytes in *)
(* the ring, oldest first.                                                 *)
(***************************************************************************)
EXTENDS RingCalls, SequenceTheorems, TLAPS

Sound(c) ==
  /\ c \in Ring(LENGTH, Byte)
  /\ c.length = LENGTH
  /\ c.head \in 0..(LENGTH - 1) /\ c.tail \in 0..(LENGTH - 1)
  /\ c.buffer \in [0..(LENGTH - 1) -> Byte]
  /\ c.full \in BOOLEAN
  /\ c.full => c.head = c.tail

USE LengthAssumption

-----------------------------------------------------------------------------
(* Indexes and lengths *)

LEMMA RingIsSound ==
  ASSUME NEW c \in Ring(LENGTH, Byte), c.full => c.head = c.tail
  PROVE  Sound(c)
BY DEF Sound, Ring

LEMMA SoundIsRecord ==
  ASSUME NEW c, Sound(c)
  PROVE  c = [buffer |-> c.buffer, length |-> c.length, head |-> c.head,
              tail |-> c.tail, full |-> c.full]
BY DEF Sound, Ring

(* Going round once: what % does to the sum of an index and a distance.    *)
Round(k) == IF k < LENGTH THEN k ELSE k - LENGTH

LEMMA Around ==
  ASSUME NEW i \in 0..(LENGTH - 1), NEW j \in 0..LENGTH
  PROVE  (i + j) % LENGTH = Round(i + j) /\ Round(i + j) \in 0..(LENGTH - 1)
BY DEF Round

LEMMA DataLenBounds ==
  ASSUME NEW c, Sound(c)
  PROVE  /\ DataLen(c) \in 0..LENGTH
         /\ DataLen(c) = 0 <=> Empty(c)
         /\ DataLen(c) = LENGTH <=> c.full
BY DEF DataLen, Empty, Sound

(* Where the bytes end, head stands.                                       *)
LEMMA HeadIsAtEnd ==
  ASSUME NEW c, Sound(c)
  PROVE  c.head = Round(c.tail + DataLen(c))
BY DEF DataLen, Round, Sound

(* Once full is cleared, a get still finds what is there.                  *)
LEMMA AvailableIsDataLen ==
  ASSUME NEW c, Sound(c)
  PROVE  Available(c) = DataLen(c)
BY DEF Available, Sound

(* The i-th byte from tail on.                                             *)
LEMMA FromTailIsSeq ==
  ASSUME NEW c, Sound(c), NEW n \in 0..LENGTH
  PROVE  /\ FromTail(c, n) \in Seq(Byte)
         /\ Len(FromTail(c, n)) = n
         /\ \A i \in 1..n : /\ FromTail(c, n)[i] = c.buffer[Round(c.tail + i - 1)]
                            /\ Round(c.tail + i - 1) \in 0..(LENGTH - 1)
<1>1. ASSUME NEW i \in 1..n
      PROVE  /\ (c.tail + i - 1) % c.length = Round(c.tail + i - 1)
             /\ Round(c.tail + i - 1) \in 0..(LENGTH - 1)
             /\ c.buffer[Round(c.tail + i - 1)] \in Byte
  <2>1. i - 1 \in 0..LENGTH /\ c.tail + (i - 1) = c.tail + i - 1
    BY DEF Sound
  <2>2. /\ (c.tail + (i - 1)) % LENGTH = Round(c.tail + (i - 1))
        /\ Round(c.tail + (i - 1)) \in 0..(LENGTH - 1)
    BY <2>1, Around DEF Sound
  <2>3. QED
    BY <2>1, <2>2 DEF Sound
<1>2. FromTail(c, n) = [i \in 1..n |-> c.buffer[Round(c.tail + i - 1)]]
  BY <1>1 DEF FromTail
<1>3. FromTail(c, n) \in [1..n -> Byte]
  BY <1>1, <1>2
<1>4. QED
  BY <1>1, <1>2, <1>3

LEMMA ContentsIsSeq ==
  ASSUME NEW c, Sound(c)
  PROVE  /\ Contents(c) \in Seq(Byte)
         /\ Len(Contents(c)) = DataLen(c)
         /\ \A i \in 1..DataLen(c) :
              /\ Contents(c)[i] = c.buffer[Round(c.tail + i - 1)]
              /\ Round(c.tail + i - 1) \in 0..(LENGTH - 1)
BY DataLenBounds, FromTailIsSeq DEF Contents

-----------------------------------------------------------------------------
(* The calls *)

LEMMA InitContents ==
  LET c == circular_buff_init(LENGTH, NoByte)
  IN  Sound(c) /\ Contents(c) = <<>>
<1> DEFINE c == circular_buff_init(LENGTH, NoByte)
<1>1. Sound(c)
  BY ByteAssumption DEF circular_buff_init, Sound, Ring
<1>2. DataLen(c) = 0
  BY DEF circular_buff_init, DataLen
<1>3. Contents(c) = <<>>
  BY <1>1, <1>2, ContentsIsSeq
<1>4. QED
  BY <1>1, <1>3

LEMMA PutSound ==
  ASSUME NEW c, Sound(c), NEW byte \in Byte
  PROVE  /\ Sound(Put(c, byte))
         /\ DataLen(Put(c, byte)) = IF c.full THEN LENGTH ELSE DataLen(c) + 1
         /\ Put(c, byte).buffer = [c.buffer EXCEPT ![c.head] = byte]
         /\ Put(c, byte).tail = IF c.full THEN Round(c.tail + 1) ELSE c.tail
<1> DEFINE p == Put(c, byte)
           head == Round(c.head + 1)
           tail == IF c.full THEN Round(c.tail + 1) ELSE c.tail
<1>1. /\ (c.head + 1) % LENGTH = head /\ head \in 0..(LENGTH - 1)
      /\ (c.tail + 1) % LENGTH = Round(c.tail + 1) /\ tail \in 0..(LENGTH - 1)
  <2>1. 1 \in 0..LENGTH
    OBVIOUS
  <2>2. /\ (c.head + 1) % LENGTH = Round(c.head + 1)
        /\ Round(c.head + 1) \in 0..(LENGTH - 1)
    BY <2>1, Around DEF Sound
  <2>3. /\ (c.tail + 1) % LENGTH = Round(c.tail + 1)
        /\ Round(c.tail + 1) \in 0..(LENGTH - 1)
    BY <2>1, Around DEF Sound
  <2>4. QED
    BY <2>2, <2>3 DEF Sound
<1>2. /\ p.head = head /\ p.tail = tail /\ p.full = (head = tail) /\ p.length = LENGTH
      /\ p.buffer = [c.buffer EXCEPT ![c.head] = byte]
      /\ p = [buffer |-> p.buffer, length |-> p.length, head |-> p.head,
              tail |-> p.tail, full |-> p.full]
  <2> DEFINE b == [c EXCEPT !.buffer[c.head] = byte]
  <2> HIDE DEF head, tail
  <2>1. /\ b.head = c.head /\ b.tail = c.tail /\ b.full = c.full /\ b.length = LENGTH
        /\ b.buffer = [c.buffer EXCEPT ![c.head] = byte]
        /\ b = [buffer |-> b.buffer, length |-> b.length, head |-> b.head,
                tail |-> b.tail, full |-> b.full]
    <3>1. c = [buffer |-> c.buffer, length |-> c.length, head |-> c.head,
               tail |-> c.tail, full |-> c.full]
      BY SoundIsRecord
    <3>2. b = [c EXCEPT !.buffer = [c.buffer EXCEPT ![c.head] = byte]]
      BY <3>1
    <3> HIDE DEF b
    <3>3. QED
      BY <3>1, <3>2 DEF Sound
  <2> HIDE DEF b
  <2>2. p = [b EXCEPT !.tail = IF b.full THEN After(b, b.tail) ELSE b.tail,
                      !.head = After(b, b.head),
                      !.full = (After(b, b.head)
                                  = IF b.full THEN After(b, b.tail) ELSE b.tail)]
    BY DEF Put, HeadAdvanced, b
  <2>3. /\ After(b, b.head) = head
        /\ (IF b.full THEN After(b, b.tail) ELSE b.tail) = tail
    BY <1>1, <2>1 DEF After, tail
  <2> HIDE DEF p
  <2>4. p = [b EXCEPT !.tail = tail, !.head = head, !.full = (head = tail)]
    BY <2>2, <2>3
  <2>5. QED
    BY <2>1, <2>4
<1>3. p.buffer \in [0..(LENGTH - 1) -> Byte] /\ p.full \in BOOLEAN
  BY <1>2 DEF Sound
<1>4. Sound(p)
  <2> HIDE DEF p, head, tail
  <2>1. p \in Ring(LENGTH, Byte)
    BY <1>1, <1>2, <1>3 DEF Ring
  <2>2. QED
    BY <1>2, <2>1, RingIsSound
<1>5. DataLen(p) = IF c.full THEN LENGTH ELSE DataLen(c) + 1
  <2> HIDE DEF p
  <2>1. CASE c.full
    BY <1>2, <2>1 DEF DataLen, Sound
  <2>2. CASE ~c.full
    <3>1. p.tail = c.tail /\ p.head = Round(c.head + 1) /\ p.full = (p.head = p.tail)
      BY <1>2, <2>2
    <3>2. DataLen(c) = IF c.head >= c.tail THEN c.head - c.tail
                                           ELSE LENGTH + c.head - c.tail
      BY <2>2 DEF DataLen, Sound
    <3>3. DataLen(p) = IF p.head = p.tail THEN LENGTH
                       ELSE IF p.head >= p.tail THEN p.head - p.tail
                       ELSE LENGTH + p.head - p.tail
      BY <1>2, <3>1 DEF DataLen
    <3>4. QED
      BY <2>2, <3>1, <3>2, <3>3 DEF Round, Sound
  <2>3. QED
    BY <2>1, <2>2
<1>6. QED
  BY <1>2, <1>4, <1>5

(* A put into a ring with room appends.                                    *)
LEMMA PutAppends ==
  ASSUME NEW c, Sound(c), ~c.full, NEW byte \in Byte
  PROVE  Contents(Put(c, byte)) = Append(Contents(c), byte)
<1> DEFINE p == Put(c, byte)
           n == DataLen(c)
<1>1. Sound(p) /\ p.buffer = [c.buffer EXCEPT ![c.head] = byte]
  BY PutSound
<1>2. DataLen(p) = n + 1 /\ p.tail = c.tail
  BY PutSound
<1>3. n \in 0..(LENGTH - 1)
  BY DataLenBounds
<1>4. c.head = Round(c.tail + n)
  BY HeadIsAtEnd
<1> HIDE DEF p, n
<1>5. /\ Contents(p) \in Seq(Byte) /\ Len(Contents(p)) = n + 1
      /\ \A i \in 1..(n + 1) : Contents(p)[i] = p.buffer[Round(c.tail + i - 1)]
  <2>1. \A i \in 1..DataLen(p) : Contents(p)[i] = p.buffer[Round(p.tail + i - 1)]
    BY <1>1, ContentsIsSeq
  <2>2. Contents(p) \in Seq(Byte) /\ Len(Contents(p)) = DataLen(p)
    BY <1>1, ContentsIsSeq
  <2>3. QED
    BY <1>2, <2>1, <2>2
<1>6. /\ Contents(c) \in Seq(Byte) /\ Len(Contents(c)) = n
      /\ \A i \in 1..n : /\ Contents(c)[i] = c.buffer[Round(c.tail + i - 1)]
                         /\ Round(c.tail + i - 1) \in 0..(LENGTH - 1)
  BY ContentsIsSeq DEF n
<1>7. ASSUME NEW i \in 1..n PROVE Contents(p)[i] = Contents(c)[i]
  <2>1. Round(c.tail + i - 1) # c.head
    BY <1>3, <1>4 DEF Round, Sound
  <2>2. i \in 1..(n + 1)
    BY <1>3
  <2>3. p.buffer[Round(c.tail + i - 1)] = c.buffer[Round(c.tail + i - 1)]
    BY <1>1, <1>6, <2>1 DEF Sound
  <2>4. QED
    BY <1>5, <1>6, <2>2, <2>3
<1>8. Contents(p)[n + 1] = byte
  <2>1. n + 1 \in 1..(n + 1) /\ c.tail + (n + 1) - 1 = c.tail + n
    BY <1>3 DEF Sound
  <2>2. p.buffer[c.head] = byte
    BY <1>1 DEF Sound
  <2>3. QED
    BY <1>4, <1>5, <2>1, <2>2
<1>9. Contents(p) = Append(Contents(c), byte)
  <2> DEFINE a == Append(Contents(c), byte)
  <2>1. a \in Seq(Byte) /\ Len(a) = n + 1
    BY <1>6, AppendProperties
  <2>2. \A i \in 1..n : a[i] = Contents(c)[i]
    BY <1>6, AppendProperties
  <2>3. a[n + 1] = byte
    BY <1>6, AppendProperties
  <2> HIDE DEF a
  <2>4. \A i \in 1..(n + 1) : Contents(p)[i] = a[i]
    BY <1>3, <1>7, <1>8, <2>2, <2>3
  <2>5. QED
    BY <1>5, <2>1, <2>4, SeqEqual DEF a
<1>10. QED
  BY <1>9 DEF p

(* A put into a full ring drops the oldest byte too.                       *)
LEMMA PutOverwrites ==
  ASSUME NEW c, Sound(c), c.full, NEW byte \in Byte
  PROVE  Contents(Put(c, byte)) = Append(Tail(Contents(c)), byte)
<1> DEFINE p == Put(c, byte)
<1>1. Sound(p) /\ p.buffer = [c.buffer EXCEPT ![c.head] = byte]
  BY PutSound
<1>2. DataLen(p) = LENGTH /\ p.tail = Round(c.tail + 1)
  BY PutSound
<1>3. DataLen(c) = LENGTH /\ c.head = c.tail
  BY DataLenBounds DEF Sound
<1> HIDE DEF p
<1>4. /\ Contents(p) \in Seq(Byte) /\ Len(Contents(p)) = LENGTH
      /\ \A i \in 1..LENGTH : Contents(p)[i] = p.buffer[Round(p.tail + i - 1)]
  BY <1>1, <1>2, ContentsIsSeq
<1>5. /\ Contents(c) \in Seq(Byte) /\ Len(Contents(c)) = LENGTH
      /\ \A i \in 1..LENGTH : /\ Contents(c)[i] = c.buffer[Round(c.tail + i - 1)]
                              /\ Round(c.tail + i - 1) \in 0..(LENGTH - 1)
  BY <1>3, ContentsIsSeq
<1> DEFINE t == Tail(Contents(c))
           a == Append(t, byte)
<1>6. /\ t \in Seq(Byte) /\ Len(t) = LENGTH - 1
      /\ \A i \in 1..(LENGTH - 1) : t[i] = Contents(c)[i + 1]
  <2>1. Contents(c) # <<>>
    BY <1>5
  <2>2. QED
    BY <1>5, <2>1, HeadTailProperties
<1> HIDE DEF t
<1>7. /\ a \in Seq(Byte) /\ Len(a) = LENGTH /\ a[LENGTH] = byte
      /\ \A i \in 1..(LENGTH - 1) : a[i] = t[i]
  BY <1>6, AppendProperties
<1> HIDE DEF a
<1>8. ASSUME NEW i \in 1..(LENGTH - 1) PROVE Contents(p)[i] = a[i]
  <2>1. i \in 1..LENGTH /\ i + 1 \in 1..LENGTH
    OBVIOUS
  <2>2. /\ Round(p.tail + i - 1) = Round(c.tail + (i + 1) - 1)
        /\ Round(p.tail + i - 1) # c.head
    BY <1>2, <1>3 DEF Round, Sound
  <2>3. p.buffer[Round(p.tail + i - 1)] = c.buffer[Round(c.tail + (i + 1) - 1)]
    <3>1. Round(c.tail + (i + 1) - 1) \in 0..(LENGTH - 1)
      BY <1>5, <2>1
    <3>2. QED
      BY <1>1, <2>2, <3>1 DEF Sound
  <2>4. QED
    BY <1>4, <1>5, <1>6, <1>7, <2>1, <2>3
<1>9. Contents(p)[LENGTH] = byte
  <2>1. Round(p.tail + LENGTH - 1) = c.head
    BY <1>2, <1>3 DEF Round, Sound
  <2>2. p.buffer[c.head] = byte
    BY <1>1 DEF Sound
  <2>3. QED
    BY <1>4, <2>1, <2>2
<1>10. \A i \in 1..LENGTH : Contents(p)[i] = a[i]
  BY <1>7, <1>8, <1>9
<1>11. QED
  BY <1>4, <1>7, <1>10, SeqEqual DEF a, t, p

(* Taking the k oldest bytes off, as gets and reads do.                    *)
Without(c, k) == [c EXCEPT !.full = FALSE, !.tail = Round(c.tail + k)]

LEMMA WithoutSound ==
  ASSUME NEW c, Sound(c), NEW k \in 1..DataLen(c)
  PROVE  /\ Sound(Without(c, k)) /\ DataLen(Without(c, k)) = DataLen(c) - k
         /\ Without(c, k).buffer = c.buffer /\ Without(c, k).tail = Round(c.tail + k)
<1> DEFINE w == Without(c, k)
           tail == Round(c.tail + k)
<1>1. k \in 0..LENGTH /\ DataLen(c) \in 0..LENGTH /\ k <= DataLen(c) /\ k >= 1
  BY DataLenBounds
<1>2. tail \in 0..(LENGTH - 1)
  BY <1>1 DEF Round, Sound
<1> HIDE DEF tail
<1>3. /\ w.head = c.head /\ w.tail = tail /\ w.full = FALSE /\ w.length = LENGTH
      /\ w.buffer = c.buffer
      /\ w = [buffer |-> w.buffer, length |-> w.length, head |-> w.head,
              tail |-> w.tail, full |-> w.full]
  <2>1. w = [c EXCEPT !.full = FALSE, !.tail = tail]
    BY DEF Without, tail
  <2> HIDE DEF w
  <2>2. c = [buffer |-> c.buffer, length |-> c.length, head |-> c.head,
             tail |-> c.tail, full |-> c.full]
    BY SoundIsRecord
  <2>3. w = [buffer |-> c.buffer, length |-> c.length, head |-> c.head,
             tail |-> tail, full |-> FALSE]
    BY <2>1, <2>2
  <2>4. QED
    BY <2>3 DEF Sound
<1> HIDE DEF w
<1>4. Sound(w)
  BY <1>2, <1>3 DEF Sound, Ring
<1>5. DataLen(w) = IF c.head >= tail THEN c.head - tail ELSE LENGTH + c.head - tail
  BY <1>3 DEF DataLen
<1>6. DataLen(w) = DataLen(c) - k
  <2>1. c.head = Round(c.tail + DataLen(c)) /\ c.tail \in 0..(LENGTH - 1)
    BY HeadIsAtEnd DEF Sound
  <2> DEFINE n == DataLen(c)
             t == c.tail
             h == c.head
  <2> HIDE DEF n, t, h
  <2>2. /\ k \in Nat /\ n \in 0..LENGTH /\ k <= n /\ k >= 1 /\ t \in 0..(LENGTH - 1)
        /\ h = IF t + n < LENGTH THEN t + n ELSE t + n - LENGTH
        /\ tail = IF t + k < LENGTH THEN t + k ELSE t + k - LENGTH
    BY <1>1, <2>1 DEF n, t, h, tail, Round
  <2>3. (IF h >= tail THEN h - tail ELSE LENGTH + h - tail) = n - k
    BY <2>2
  <2>4. QED
    BY <1>5, <2>3 DEF n, h
<1>7. QED
  BY <1>3, <1>4, <1>6 DEF w, tail

LEMMA WithoutContents ==
  ASSUME NEW c, Sound(c), NEW k \in 1..DataLen(c)
  PROVE  Contents(Without(c, k)) = SubSeq(Contents(c), k + 1, Len(Contents(c)))
<1> DEFINE w == Without(c, k)
           n == DataLen(c)
           rest == SubSeq(Contents(c), k + 1, n)
<1>1. /\ Sound(w) /\ DataLen(w) = n - k
      /\ w.buffer = c.buffer /\ w.tail = Round(c.tail + k)
  BY WithoutSound
<1>2. n \in 0..LENGTH /\ k \in 1..n
  BY DataLenBounds
<1>3. /\ Contents(c) \in Seq(Byte) /\ Len(Contents(c)) = n
      /\ \A i \in 1..n : Contents(c)[i] = c.buffer[Round(c.tail + i - 1)]
  BY ContentsIsSeq
<1> HIDE DEF w, n
<1>4. /\ Contents(w) \in Seq(Byte) /\ Len(Contents(w)) = n - k
      /\ \A i \in 1..(n - k) : Contents(w)[i] = c.buffer[Round(w.tail + i - 1)]
  <2>1. \A i \in 1..DataLen(w) : Contents(w)[i] = w.buffer[Round(w.tail + i - 1)]
    BY <1>1, ContentsIsSeq
  <2>2. Contents(w) \in Seq(Byte) /\ Len(Contents(w)) = DataLen(w)
    BY <1>1, ContentsIsSeq
  <2>3. QED
    BY <1>1, <2>1, <2>2
<1>5. /\ rest \in Seq(Byte) /\ Len(rest) = n - k
      /\ \A i \in 1..(n - k) : rest[i] = Contents(c)[i + k]
  BY <1>2, <1>3, SubSeqProperties
<1> HIDE DEF rest
<1>6. ASSUME NEW i \in 1..(n - k) PROVE Contents(w)[i] = rest[i]
  <2>1. i + k \in 1..n
    BY <1>2
  <2>2. Round(w.tail + i - 1) = Round(c.tail + (i + k) - 1)
    BY <1>1, <1>2, SMTT(30) DEF Round, Sound
  <2>3. QED
    BY <1>3, <1>4, <1>5, <2>1, <2>2
<1>7. Contents(w) = rest
  BY <1>2, <1>4, <1>5, <1>6, SeqEqual
<1>8. QED
  BY <1>3, <1>7 DEF w, rest, n

LEMMA GetContents ==
  ASSUME NEW c, Sound(c), ~Empty(c)
  PROVE  /\ Sound(TailRetreated(c)) /\ Contents(c) # <<>>
         /\ Contents(TailRetreated(c)) = Tail(Contents(c))
         /\ Oldest(c) = Head(Contents(c))
<1>1. 1 \in 1..DataLen(c)
  BY DataLenBounds
<1>2. (c.tail + 1) % LENGTH = Round(c.tail + 1)
  <2>1. 1 \in 0..LENGTH
    OBVIOUS
  <2>2. QED
    BY <2>1, Around DEF Sound
<1>3. TailRetreated(c) = Without(c, 1)
  BY <1>2 DEF TailRetreated, Without, After, Sound
<1>4. Contents(c) \in Seq(Byte) /\ Contents(c) # <<>>
  BY <1>1, ContentsIsSeq
<1>5. Contents(Without(c, 1)) = Tail(Contents(c))
  <2>1. Contents(Without(c, 1)) = SubSeq(Contents(c), 2, Len(Contents(c)))
    BY <1>1, WithoutContents
  <2>2. QED
    BY <1>4, <2>1, TailIsSubSeq
<1>6. Oldest(c) = Head(Contents(c))
  <2>1. Contents(c)[1] = c.buffer[Round(c.tail + 1 - 1)]
    BY <1>1, ContentsIsSeq
  <2>2. Round(c.tail + 1 - 1) = c.tail
    BY DEF Round, Sound
  <2>3. QED
    BY <1>4, <2>1, <2>2 DEF Oldest
<1>7. QED
  BY <1>1, <1>3, <1>4, <1>5, <1>6, WithoutSound

(* The first k bytes from tail on are the k oldest.                        *)
LEMMA FromTailIsPrefix ==
  ASSUME NEW c, Sound(c), NEW k \in 0..DataLen(c)
  PROVE  FromTail(c, k) = SubSeq(Contents(c), 1, k)
<1> DEFINE f == FromTail(c, k)
           n == DataLen(c)
           s == SubSeq(Contents(c), 1, k)
<1>1. n \in 0..LENGTH /\ k \in 0..n /\ k \in 0..LENGTH
  BY DataLenBounds
<1>2. /\ f \in Seq(Byte) /\ Len(f) = k
      /\ \A i \in 1..k : f[i] = c.buffer[Round(c.tail + i - 1)]
  BY <1>1, FromTailIsSeq
<1>3. /\ Contents(c) \in Seq(Byte) /\ Len(Contents(c)) = n
      /\ \A i \in 1..n : Contents(c)[i] = c.buffer[Round(c.tail + i - 1)]
  BY ContentsIsSeq
<1> HIDE DEF f, n
<1>4. s \in Seq(Byte) /\ Len(s) = k /\ \A i \in 1..k : s[i] = Contents(c)[i]
  <2>1. \A i \in 1..k : Contents(c)[i] \in Byte
    BY <1>1, <1>3
  <2>2. QED
    BY <1>1, <2>1, SubSeqProperties
<1> HIDE DEF s
<1>5. ASSUME NEW i \in 1..k PROVE f[i] = s[i]
  <2>1. i \in 1..n
    BY <1>1
  <2>2. QED
    BY <1>2, <1>3, <1>4, <2>1
<1>6. QED
  BY <1>2, <1>4, <1>5, SeqEqual DEF f, s

LEMMA ReadContents ==
  ASSUME NEW c, Sound(c), NEW n \in Nat
  PROVE  LET taken == IF n < Len(Contents(c)) THEN n ELSE Len(Contents(c))
         IN  /\ Sound(AfterRead(c, n))
             /\ BytesRead(c, n) = SubSeq(Contents(c), 1, taken)
             /\ Contents(AfterRead(c, n))
                  = SubSeq(Contents(c), taken + 1, Len(Contents(c)))
<1> DEFINE taken == IF n < DataLen(c) THEN n ELSE DataLen(c)
<1>1. taken \in 0..DataLen(c) /\ DataLen(c) \in 0..LENGTH
  BY DataLenBounds
<1>2. Least(n, Available(c)) = taken
  BY AvailableIsDataLen DEF Least
<1>3. Contents(c) \in Seq(Byte) /\ Len(Contents(c)) = DataLen(c)
  BY ContentsIsSeq
<1>4. BytesRead(c, n) = SubSeq(Contents(c), 1, taken)
  BY <1>1, <1>2, FromTailIsPrefix DEF BytesRead
<1>5. CASE n = 0 \/ Empty(c)
  <2>1. taken = 0 /\ AfterRead(c, n) = c
    BY <1>1, <1>5, DataLenBounds DEF AfterRead
  <2>2. SubSeq(Contents(c), taken + 1, Len(Contents(c))) = Contents(c)
    BY <1>3, <2>1, SubSeqFull
  <2>3. QED
    BY <1>3, <1>4, <2>1, <2>2
<1>6. CASE ~(n = 0 \/ Empty(c))
  <2>1. taken \in 1..DataLen(c)
    BY <1>1, <1>6, DataLenBounds
  <2>2. (c.tail + taken) % LENGTH = Round(c.tail + taken)
    <3>1. taken \in 0..LENGTH /\ c.tail \in 0..(LENGTH - 1)
      BY <1>1 DEF Sound
    <3> HIDE DEF taken
    <3>2. QED
      BY <3>1, Around
  <2>3. AfterRead(c, n) = Without(c, taken)
    BY <1>2, <1>6, <2>2 DEF AfterRead, Without, Sound
  <2>4. QED
    BY <1>3, <1>4, <2>1, <2>3, WithoutSound, WithoutContents
<1>7. QED
  BY <1>5, <1>6

LEMMA FetchContents ==
  ASSUME NEW c, Sound(c), NEW n \in Nat
  PROVE  Fetched(c, n)
           = IF n > Len(Contents(c)) THEN <<>> ELSE SubSeq(Contents(c), 1, n)
<1>1. Len(Contents(c)) = DataLen(c) /\ DataLen(c) \in Nat
  BY ContentsIsSeq, DataLenBounds
<1>2. CASE n > DataLen(c)
  BY <1>1, <1>2 DEF Fetched
<1>3. CASE ~(n > DataLen(c))
  <2>1. n \in 0..DataLen(c)
    BY <1>1, <1>3
  <2>2. QED
    BY <1>1, <1>3, <2>1, FromTailIsPrefix DEF Fetched
<1>4. QED
  BY <1>2, <1>3

LEMMA ResetContents ==
  ASSUME NEW c, Sound(c)
  PROVE  Sound(Reset(c)) /\ Contents(Reset(c)) = <<>>
<1>1. Sound(Reset(c)) /\ DataLen(Reset(c)) = 0
  <2>1. /\ Reset(c) = [c EXCEPT !.head = 0, !.tail = 0, !.full = FALSE]
        /\ 0 \in 0..(LENGTH - 1)
    BY DEF Reset
  <2>2. /\ Reset(c).head = 0 /\ Reset(c).tail = 0 /\ Reset(c).full = FALSE
        /\ Reset(c).length = LENGTH /\ Reset(c).buffer = c.buffer
    BY <2>1, SoundIsRecord DEF Sound
  <2>3. Reset(c) \in Ring(LENGTH, Byte)
    BY <2>1 DEF Sound, Ring
  <2>4. QED
    BY <2>2, <2>3, RingIsSound DEF DataLen
<1>2. QED
  BY <1>1, ContentsIsSeq

(* A block that fits goes behind the bytes already there.                  *)
LEMMA WrittenSound ==
  ASSUME NEW c, Sound(c), ~c.full, NEW data \in Seq(Byte),
         Len(data) > 0, DataLen(c) + Len(data) <= LENGTH
  PROVE  LET w == Written(c, data)
         IN  /\ Sound(w) /\ DataLen(w) = DataLen(c) + Len(data) /\ w.tail = c.tail
             /\ \A i \in 0..(LENGTH - 1) :
                  w.buffer[i] = LET k == Round(i + (LENGTH - c.head))
                                IN  IF k < Len(data) THEN data[k + 1] ELSE c.buffer[i]
<1> DEFINE w == Written(c, data)
           m == Len(data)
           head == Round(c.head + m)
           At(i) == Round(i + (LENGTH - c.head))
           buffer == [i \in 0..(LENGTH - 1) |->
                        IF At(i) < m THEN data[At(i) + 1] ELSE c.buffer[i]]
<1>1. m \in 1..LENGTH /\ m \in 0..LENGTH /\ DataLen(c) \in 0..LENGTH
  BY DataLenBounds
<1>2. (c.head + m) % LENGTH = head /\ head \in 0..(LENGTH - 1)
  BY <1>1, Around DEF Sound
<1>3. ASSUME NEW i \in 0..(LENGTH - 1)
      PROVE  (i + LENGTH - c.head) % LENGTH = At(i) /\ At(i) \in 0..(LENGTH - 1)
  <2>1. LENGTH - c.head \in 0..LENGTH /\ i + LENGTH - c.head = i + (LENGTH - c.head)
    BY DEF Sound
  <2>2. QED
    BY <2>1, Around
<1>4. buffer \in [0..(LENGTH - 1) -> Byte]
  <2>1. ASSUME NEW i \in 0..(LENGTH - 1), At(i) < m PROVE data[At(i) + 1] \in Byte
    <3>1. At(i) \in 0..(LENGTH - 1)
      BY <1>3
    <3> HIDE DEF At
    <3>2. At(i) + 1 \in 1..Len(data)
      BY <1>1, <2>1, <3>1
    <3>3. QED
      BY <3>2
  <2> HIDE DEF At
  <2>2. QED
    BY <2>1 DEF Sound
<1>5. w = [c EXCEPT !.buffer = buffer, !.head = head, !.full = (head = c.tail)]
  <2>1. c.length = LENGTH /\ DOMAIN c.buffer = 0..(LENGTH - 1) /\ Len(data) # 0
    BY DEF Sound
  <2> HIDE DEF At, head
  <2>2. [i \in DOMAIN c.buffer |->
           IF (i + c.length - c.head) % c.length < m
             THEN data[((i + c.length - c.head) % c.length) + 1] ELSE c.buffer[i]] = buffer
    BY <1>3, <2>1
  <2> HIDE DEF buffer
  <2>3. QED
    BY <1>2, <2>1, <2>2 DEF Written
<1> HIDE DEF w, head, buffer
<1>6. /\ w.head = head /\ w.tail = c.tail /\ w.full = (head = c.tail)
      /\ w.length = LENGTH /\ w.buffer = buffer
      /\ w = [buffer |-> w.buffer, length |-> w.length, head |-> w.head,
              tail |-> w.tail, full |-> w.full]
  BY <1>5 DEF Sound, Ring
<1>7. Sound(w)
  <2>1. w.full \in BOOLEAN
    BY <1>6
  <2>2. QED
    BY <1>2, <1>4, <1>6, <2>1 DEF Sound, Ring
<1>8. DataLen(w) = DataLen(c) + m
  <2>1. DataLen(c) = IF c.head >= c.tail THEN c.head - c.tail
                                         ELSE LENGTH + c.head - c.tail
    BY DEF DataLen, Sound
  <2>2. DataLen(w) = IF head = c.tail THEN LENGTH
                     ELSE IF head >= c.tail THEN head - c.tail
                     ELSE LENGTH + head - c.tail
    BY <1>6 DEF DataLen
  <2>3. DataLen(c) + m <= LENGTH
    OBVIOUS
  <2> DEFINE n == DataLen(c)
             t == c.tail
             h == c.head
  <2> HIDE DEF n, t, h, m
  <2>4. /\ m \in 1..LENGTH /\ n \in 0..LENGTH /\ n + m <= LENGTH
        /\ h \in 0..(LENGTH - 1) /\ t \in 0..(LENGTH - 1)
        /\ n = IF h >= t THEN h - t ELSE LENGTH + h - t
        /\ head = IF h + m < LENGTH THEN h + m ELSE h + m - LENGTH
    BY <1>1, <2>1, <2>3 DEF n, t, h, head, Round, Sound
  <2>5. (IF head = t THEN LENGTH ELSE IF head >= t THEN head - t
         ELSE LENGTH + head - t) = n + m
    BY <2>4
  <2>6. QED
    BY <2>2, <2>5 DEF n, t
<1>9. \A i \in 0..(LENGTH - 1) :
        w.buffer[i] = IF At(i) < m THEN data[At(i) + 1] ELSE c.buffer[i]
  BY <1>6 DEF buffer
<1>10. QED
  BY <1>6, <1>7, <1>8, <1>9 DEF w

LEMMA WrittenContents ==
  ASSUME NEW c, Sound(c), ~c.full, NEW data \in Seq(Byte),
         Len(data) > 0, DataLen(c) + Len(data) <= LENGTH
  PROVE  Contents(Written(c, data)) = Contents(c) \o data
<1> DEFINE w == Written(c, data)
           m == Len(data)
           n == DataLen(c)
           both == Contents(c) \o data
           At(i) == Round(i + (LENGTH - c.head))
<1>1. Sound(w) /\ DataLen(w) = n + m /\ w.tail = c.tail
  BY WrittenSound
<1>2. \A i \in 0..(LENGTH - 1) :
        w.buffer[i] = IF At(i) < m THEN data[At(i) + 1] ELSE c.buffer[i]
  BY WrittenSound
<1>3. n \in 0..LENGTH /\ m \in 1..LENGTH /\ n + m <= LENGTH /\ c.head = Round(c.tail + n)
  BY DataLenBounds, HeadIsAtEnd
<1>4. /\ Contents(c) \in Seq(Byte) /\ Len(Contents(c)) = n
      /\ \A i \in 1..n : Contents(c)[i] = c.buffer[Round(c.tail + i - 1)]
  BY ContentsIsSeq
<1> HIDE DEF w, n
<1>5. /\ Contents(w) \in Seq(Byte) /\ Len(Contents(w)) = n + m
      /\ \A i \in 1..(n + m) : Contents(w)[i] = w.buffer[Round(c.tail + i - 1)]
  <2>1. \A i \in 1..DataLen(w) : Contents(w)[i] = w.buffer[Round(w.tail + i - 1)]
    BY <1>1, ContentsIsSeq
  <2>2. Contents(w) \in Seq(Byte) /\ Len(Contents(w)) = DataLen(w)
    BY <1>1, ContentsIsSeq
  <2>3. QED
    BY <1>1, <2>1, <2>2
<1>6. /\ both \in Seq(Byte) /\ Len(both) = n + m
      /\ \A i \in 1..(n + m) : both[i] = IF i <= n THEN Contents(c)[i] ELSE data[i - n]
  BY <1>4, ConcatProperties
<1> HIDE DEF both, m
<1>7. ASSUME NEW i \in 1..(n + m) PROVE Contents(w)[i] = both[i]
  <2> DEFINE x == Round(c.tail + i - 1)
  <2>1. x \in 0..(LENGTH - 1)
    BY <1>3 DEF Round, Sound
  <2>2. At(x) = IF i <= n THEN LENGTH + i - 1 - n ELSE i - 1 - n
    <3> DEFINE t == c.tail
               h == c.head
    <3> HIDE DEF t, h, x
    <3>1. /\ n \in 0..LENGTH /\ m \in 1..LENGTH /\ n + m <= LENGTH /\ i \in 1..(n + m)
          /\ t \in 0..(LENGTH - 1)
          /\ h = IF t + n < LENGTH THEN t + n ELSE t + n - LENGTH
          /\ x = IF t + i - 1 < LENGTH THEN t + i - 1 ELSE t + i - 1 - LENGTH
      BY <1>3 DEF t, h, x, Round, Sound
    <3>2. Round(x + (LENGTH - h)) = IF i <= n THEN LENGTH + i - 1 - n ELSE i - 1 - n
      BY <3>1 DEF Round
    <3>3. At(x) = Round(x + (LENGTH - h))
      BY DEF h
    <3> HIDE DEF At
    <3>4. QED
      BY <3>2, <3>3
  <2> HIDE DEF x, At
  <2>3. Contents(w)[i] = IF At(x) < m THEN data[At(x) + 1] ELSE c.buffer[x]
    BY <1>2, <1>5, <2>1 DEF x
  <2>4. CASE i <= n
    <3>1. ~(At(x) < m)
      BY <1>3, <2>2, <2>4
    <3>2. both[i] = c.buffer[x]
      BY <1>3, <1>4, <1>6, <2>4 DEF x
    <3>3. QED
      BY <2>3, <3>1, <3>2
  <2>5. CASE ~(i <= n)
    <3>1. At(x) < m /\ At(x) + 1 = i - n
      BY <1>3, <2>2, <2>5
    <3>2. both[i] = data[i - n]
      BY <1>6, <2>5
    <3>3. QED
      BY <2>3, <3>1, <3>2
  <2>6. QED
    BY <2>4, <2>5
<1>8. Contents(w) = both
  BY <1>3, <1>5, <1>6, <1>7, SeqEqual
<1>9. QED
  BY <1>8 DEF w, both

(* Whether it fits, in terms of the bytes already there.                   *)
LEMMA WriteContents ==
  ASSUME NEW c, Sound(c), NEW data \in Seq(Byte)
  PROVE  LET w == IF Accepts(c, data) THEN Written(c, data) ELSE c
         IN  /\ Sound(w)
             /\ Contents(w) = IF Len(Contents(c)) + Len(data) <= LENGTH
                                THEN Contents(c) \o data ELSE Contents(c)
<1>1. /\ Contents(c) \in Seq(Byte) /\ Len(Contents(c)) = DataLen(c)
      /\ DataLen(c) \in 0..LENGTH /\ Len(data) \in Nat
      /\ DataLen(c) = LENGTH <=> c.full
  BY ContentsIsSeq, DataLenBounds
<1>2. Accepts(c, data) <=> ~c.full /\ DataLen(c) + Len(data) <= LENGTH
  <2>1. c.length = LENGTH
    BY DEF Sound
  <2>2. LENGTH - DataLen(c) >= Len(data) <=> DataLen(c) + Len(data) <= LENGTH
    BY <1>1
  <2>3. QED
    BY <2>1, <2>2 DEF Accepts, FreeSpace
<1>3. CASE Len(data) = 0
  <2>1. Written(c, data) = c
    BY <1>3 DEF Written
  <2>2. Contents(c) \o data = Contents(c)
    BY <1>1, <1>3, EmptySeq, ConcatEmptySeq
  <2>3. QED
    BY <2>1, <2>2
<1>4. CASE Len(data) > 0 /\ Accepts(c, data)
  BY <1>1, <1>2, <1>4, WrittenSound, WrittenContents
<1>5. CASE Len(data) > 0 /\ ~Accepts(c, data)
  BY <1>1, <1>2, <1>5
<1>6. QED
  BY <1>1, <1>3, <1>4, <1>5

(* A ring is known by its buffer, its tail and how much is in it.          *)
LEMMA SameRing ==
  ASSUME NEW c, NEW d, Sound(c), Sound(d),
         c.tail = d.tail, DataLen(c) = DataLen(d),
         \A i \in 0..(LENGTH - 1) : c.buffer[i] = d.buffer[i]
  PROVE  c = d
<1>1. c.head = d.head
  BY HeadIsAtEnd
<1>2. c.full = d.full
  BY DataLenBounds DEF Sound
<1>3. c.buffer = d.buffer
  BY DEF Sound
<1>4. c.length = d.length
  BY DEF Sound
<1>5. QED
  BY <1>1, <1>2, <1>3, <1>4, SoundIsRecord

(* A block of one more byte is the block and a put.                        *)
LEMMA WriteOneMore ==
  ASSUME NEW c, Sound(c), ~c.full,
         NEW d \in Seq(Byte), NEW e \in Seq(Byte), NEW byte \in Byte,
         Len(e) = Len(d) + 1, e[Len(e)] = byte, \A i \in 1..Len(d) : e[i] = d[i],
         DataLen(c) + Len(e) <= LENGTH
  PROVE  Written(c, e) = Put(Written(c, d), byte)
<1> DEFINE w == Written(c, d)
           u == Written(c, e)
           p == Put(w, byte)
           n == DataLen(c)
           m == Len(d)
           At(i) == Round(i + (LENGTH - c.head))
<1>1. m \in Nat /\ n \in 0..LENGTH /\ n + m + 1 <= LENGTH /\ c.head = Round(c.tail + n)
  BY DataLenBounds, HeadIsAtEnd
<1>2. /\ Sound(w) /\ DataLen(w) = n + m /\ w.tail = c.tail
      /\ \A i \in 0..(LENGTH - 1) :
           w.buffer[i] = IF At(i) < m THEN d[At(i) + 1] ELSE c.buffer[i]
  <2>1. CASE m = 0
    <3>1. w = c
      BY <2>1 DEF Written
    <3>2. \A i \in 0..(LENGTH - 1) : ~(At(i) < m)
      BY <2>1 DEF Round, Sound
    <3>3. QED
      BY <1>1, <2>1, <3>1, <3>2
  <2>2. CASE m # 0
    BY <1>1, <2>2, WrittenSound
  <2>3. QED
    BY <2>1, <2>2
<1>3. /\ Sound(u) /\ DataLen(u) = n + m + 1 /\ u.tail = c.tail
      /\ \A i \in 0..(LENGTH - 1) :
           u.buffer[i] = IF At(i) < m + 1 THEN e[At(i) + 1] ELSE c.buffer[i]
  BY <1>1, WrittenSound
<1> HIDE DEF w, u, n
<1>4. ~w.full
  BY <1>1, <1>2, DataLenBounds
<1>5. /\ Sound(p) /\ DataLen(p) = n + m + 1 /\ p.tail = c.tail
      /\ p.buffer = [w.buffer EXCEPT ![w.head] = byte]
  BY <1>2, <1>4, PutSound
<1>6. w.head = Round(c.tail + (n + m)) /\ w.head \in 0..(LENGTH - 1)
  BY <1>2, HeadIsAtEnd DEF Sound
<1>7. ASSUME NEW i \in 0..(LENGTH - 1)
      PROVE  u.buffer[i] = p.buffer[i]
  <2>1. At(i) \in 0..(LENGTH - 1) /\ (i = w.head <=> At(i) = m)
    <3> DEFINE t == c.tail
               h == c.head
               x == w.head
    <3>1. t \in 0..(LENGTH - 1) /\ h = Round(t + n) /\ x = Round(t + (n + m))
      BY <1>1, <1>6 DEF Sound
    <3>2. At(i) = Round(i + (LENGTH - h))
      OBVIOUS
    <3> HIDE DEF t, h, x, At, m
    <3>3. /\ m \in Nat /\ n \in Nat /\ n + m + 1 <= LENGTH
          /\ h = IF t + n < LENGTH THEN t + n ELSE t + n - LENGTH
          /\ x = IF t + (n + m) < LENGTH THEN t + (n + m) ELSE t + (n + m) - LENGTH
          /\ At(i) = IF i + (LENGTH - h) < LENGTH THEN i + (LENGTH - h)
                                                  ELSE i + (LENGTH - h) - LENGTH
      BY <1>1, <3>1, <3>2 DEF Round
    <3>4. At(i) \in 0..(LENGTH - 1)
      BY <3>1, <3>3, SMTT(30)
    <3>5. i = x => At(i) = m
      BY <3>1, <3>3, SMTT(30)
    <3>6. At(i) = m => i = x
      <4> HIDE DEF At
      <4>1. CASE i + (LENGTH - h) < LENGTH
        BY <3>1, <3>3, <4>1
      <4>2. CASE ~(i + (LENGTH - h) < LENGTH)
        BY <3>1, <3>3, <4>2, SMTT(30)
      <4>3. QED
        BY <4>1, <4>2
    <3>7. QED
      BY <3>4, <3>5, <3>6 DEF x
  <2>2. p.buffer[i] = IF i = w.head THEN byte ELSE w.buffer[i]
    BY <1>2, <1>5, <1>6 DEF Sound
  <2> HIDE DEF At, p
  <2>3. CASE At(i) < m
    <3>1. At(i) + 1 \in 1..m /\ At(i) < m + 1 /\ At(i) # m
      BY <1>1, <2>1, <2>3
    <3>2. e[At(i) + 1] = d[At(i) + 1]
      BY <3>1
    <3>3. QED
      BY <1>2, <1>3, <2>1, <2>2, <2>3, <3>1, <3>2
  <2>4. CASE At(i) = m
    <3>1. At(i) + 1 = Len(e) /\ At(i) < m + 1
      BY <1>1, <2>4
    <3>2. e[At(i) + 1] = byte
      BY <3>1
    <3>3. QED
      BY <1>3, <2>1, <2>2, <2>4, <3>1, <3>2
  <2>5. CASE At(i) > m
    <3>1. ~(At(i) < m) /\ ~(At(i) < m + 1) /\ At(i) # m
      BY <1>1, <2>1, <2>5
    <3>2. QED
      BY <1>2, <1>3, <2>1, <2>2, <3>1
  <2>6. QED
    BY <1>1, <2>1, <2>3, <2>4, <2>5
<1>8. u = p
  BY <1>2, <1>3, <1>5, <1>7, SameRing
<1>9. QED
  BY <1>8 DEF u, p, w

LEMMA WritePuts ==
  ASSUME NEW c, Sound(c), NEW data \in Seq(Byte), Accepts(c, data)
  PROVE  /\ Written(c, <<>>) = c
         /\ \A i \in 1..Len(data) :
              Written(c, SubSeq(data, 1, i)) = Put(Written(c, SubSeq(data, 1, i - 1)), data[i])
<1>1. Written(c, <<>>) = c
  BY DEF Written
<1>2. ~c.full /\ DataLen(c) + Len(data) <= LENGTH
  <2>1. c.length = LENGTH /\ DataLen(c) \in 0..LENGTH /\ Len(data) \in Nat
    BY DataLenBounds DEF Sound
  <2>2. LENGTH - DataLen(c) >= Len(data)
    BY <2>1 DEF Accepts, FreeSpace
  <2>3. QED
    BY <2>1, <2>2 DEF Accepts
<1>3. ASSUME NEW i \in 1..Len(data)
      PROVE  Written(c, SubSeq(data, 1, i)) = Put(Written(c, SubSeq(data, 1, i - 1)), data[i])
  <2> DEFINE d == SubSeq(data, 1, i - 1)
             e == SubSeq(data, 1, i)
  <2>1. d \in Seq(Byte) /\ Len(d) = i - 1 /\ \A k \in 1..(i - 1) : d[k] = data[k]
    OBVIOUS
  <2>2. e \in Seq(Byte) /\ Len(e) = i /\ \A k \in 1..i : e[k] = data[k]
    OBVIOUS
  <2> HIDE DEF d, e
  <2>3. /\ Len(e) = Len(d) + 1 /\ e[Len(e)] = data[i] /\ data[i] \in Byte
        /\ \A k \in 1..Len(d) : e[k] = d[k]
    BY <2>1, <2>2
  <2>4. DataLen(c) + Len(e) <= LENGTH
    BY <1>2, <2>2, DataLenBounds
  <2>5. Written(c, e) = Put(Written(c, d), data[i])
    BY <1>2, <2>1, <2>2, <2>3, <2>4, WriteOneMore
  <2>6. QED
    BY <2>5 DEF d, e
<1>4. QED
  BY <1>1, <1>3

-----------------------------------------------------------------------------
(* The steps *)

LEMMA TypeIsSound == TypeOK => Sound(cb) /\ out \in Seq(Byte)
BY RingIsSound DEF TypeOK

LEMMA SoundIsType == Sound(cb) /\ out \in Seq(Byte) => TypeOK
BY DEF Sound, TypeOK

(* Every call is, on the bytes in the ring, the abstract queue's.          *)
LEMMA CallImplements ==
  ASSUME TypeOK, Next
  PROVE  TypeOK' /\ ByteQueueOf!Next
<1>0. Sound(cb)
  BY TypeIsSound
<1>1. Contents(cb) \in Seq(Byte) /\ Len(Contents(cb)) = DataLen(cb)
  BY <1>0, ContentsIsSeq
<1>2. ASSUME NEW byte \in Byte, circular_buff_put(byte)
      PROVE  TypeOK' /\ ByteQueueOf!Put(byte)
  <2>1. cb' = Put(cb, byte) /\ out' = <<>>
    BY <1>2 DEF circular_buff_put
  <2>2. Sound(cb') /\ out' \in Seq(Byte)
    <3>1. Sound(Put(cb, byte))
      BY <1>0, PutSound
    <3>2. QED
      BY <2>1, <3>1
  <2>3. Contents(cb') = Append(IF Len(Contents(cb)) = LENGTH THEN Tail(Contents(cb))
                                                             ELSE Contents(cb), byte)
    BY <1>0, <1>1, <2>1, PutAppends, PutOverwrites, DataLenBounds
  <2>4. TypeOK'
    BY <2>2 DEF Sound, TypeOK
  <2>5. QED
    BY <2>1, <2>3, <2>4 DEF ByteQueueOf!Put
<1>3. ASSUME circular_buff_get PROVE TypeOK' /\ ByteQueueOf!Get
  <2>1. CASE Empty(cb)
    <3>1. cb' = cb /\ out' = <<>>
      BY <1>3, <2>1 DEF circular_buff_get
    <3>2. Contents(cb) = <<>>
      BY <1>0, <1>1, <2>1, DataLenBounds
    <3>3. TypeOK'
      BY <3>1 DEF TypeOK
    <3>4. QED
      BY <3>1, <3>2, <3>3 DEF ByteQueueOf!Get
  <2>2. CASE ~Empty(cb)
    <3>1. cb' = TailRetreated(cb) /\ out' = <<Oldest(cb)>>
      BY <1>3, <2>2 DEF circular_buff_get
    <3>2. /\ Sound(cb') /\ Contents(cb) # <<>>
          /\ Contents(cb') = Tail(Contents(cb)) /\ Oldest(cb) = Head(Contents(cb))
      BY <1>0, <2>2, <3>1, GetContents
    <3>3. Oldest(cb) \in Byte
      BY <1>0 DEF Oldest, Sound
    <3>4. TypeOK'
      BY <3>1, <3>2, <3>3 DEF Sound, TypeOK
    <3>5. QED
      BY <3>1, <3>2, <3>4 DEF ByteQueueOf!Get
  <2>3. QED
    BY <2>1, <2>2
<1>4. ASSUME NEW data \in Blocks, circular_buff_write(data)
      PROVE  TypeOK' /\ ByteQueueOf!Write(data)
  <2>1. data \in Seq(Byte)
    BY BlocksAssumption
  <2>2. /\ cb' = IF Accepts(cb, data) THEN Written(cb, data) ELSE cb
        /\ out' = <<>>
    BY <1>4 DEF circular_buff_write
  <2>3. /\ Sound(cb')
        /\ Contents(cb') = IF Len(Contents(cb)) + Len(data) <= LENGTH
                             THEN Contents(cb) \o data ELSE Contents(cb)
    BY <1>0, <2>1, <2>2, WriteContents
  <2>4. TypeOK'
    BY <2>2, <2>3 DEF Sound, TypeOK
  <2>5. QED
    BY <2>2, <2>3, <2>4 DEF ByteQueueOf!Write
<1>5. ASSUME NEW n \in Lengths, circular_buff_read(n)
      PROVE  TypeOK' /\ ByteQueueOf!Read(n)
  <2> DEFINE taken == IF n < Len(Contents(cb)) THEN n ELSE Len(Contents(cb))
  <2>1. n \in Nat
    BY LengthsAssumption
  <2>2. cb' = AfterRead(cb, n) /\ out' = BytesRead(cb, n)
    BY <1>5 DEF circular_buff_read
  <2>3. /\ Sound(cb') /\ out' = SubSeq(Contents(cb), 1, taken)
        /\ Contents(cb') = SubSeq(Contents(cb), taken + 1, Len(Contents(cb)))
    BY <1>0, <2>1, <2>2, ReadContents
  <2>4. out' \in Seq(Byte)
    <3>1. taken \in 0..Len(Contents(cb))
      BY <1>1, <2>1
    <3>2. \A i \in 1..taken : Contents(cb)[i] \in Byte
      BY <1>1, <3>1
    <3>3. SubSeq(Contents(cb), 1, taken) \in Seq(Byte)
      BY <3>1, <3>2, SubSeqProperties
    <3>4. QED
      BY <2>3, <3>3
  <2>5. TypeOK'
    BY <2>3, <2>4 DEF Sound, TypeOK
  <2>6. QED
    BY <2>3, <2>5 DEF ByteQueueOf!Read
<1>6. ASSUME NEW n \in Lengths, circular_buff_fetch(n)
      PROVE  TypeOK' /\ ByteQueueOf!Fetch(n)
  <2>1. n \in Nat
    BY LengthsAssumption
  <2>2. cb' = cb /\ out' = Fetched(cb, n)
    BY <1>6 DEF circular_buff_fetch
  <2>3. out' = IF n > Len(Contents(cb)) THEN <<>> ELSE SubSeq(Contents(cb), 1, n)
    BY <1>0, <2>1, <2>2, FetchContents
  <2>4. out' \in Seq(Byte)
    <3>1. CASE n > Len(Contents(cb))
      BY <2>3, <3>1
    <3>2. CASE ~(n > Len(Contents(cb)))
      <4>1. \A i \in 1..n : Contents(cb)[i] \in Byte
        BY <1>1, <2>1, <3>2
      <4>2. SubSeq(Contents(cb), 1, n) \in Seq(Byte)
        BY <2>1, <4>1, SubSeqProperties
      <4>3. QED
        BY <2>3, <3>2, <4>2
    <3>3. QED
      BY <3>1, <3>2
  <2>5. TypeOK'
    BY <2>2, <2>4 DEF TypeOK
  <2>6. QED
    BY <2>2, <2>3, <2>5 DEF ByteQueueOf!Fetch
<1>7. ASSUME circular_buff_reset PROVE TypeOK' /\ ByteQueueOf!Reset
  <2>1. cb' = Reset(cb) /\ out' = <<>>
    BY <1>7 DEF circular_buff_reset
  <2>2. Sound(cb') /\ Contents(cb') = <<>>
    BY <1>0, <2>1, ResetContents
  <2>3. QED
    BY <2>1, <2>2 DEF Sound, TypeOK, ByteQueueOf!Reset
<1>8. QED
  BY <1>2, <1>3, <1>4, <1>5, <1>6, <1>7 DEF Next, ByteQueueOf!Next

LEMMA StepImplements ==
  TypeOK /\ [Next]_vars => TypeOK' /\ [ByteQueueOf!Next]_ByteQueueOf!vars
<1>1. ASSUME TypeOK, UNCHANGED vars
      PROVE  TypeOK' /\ UNCHANGED ByteQueueOf!vars
  BY <1>1 DEF vars, TypeOK, ByteQueueOf!vars
<1>2. QED
  BY <1>1, CallImplements

LEMMA InitImplements == Init => TypeOK /\ ByteQueueOf!Init
<1> SUFFICES ASSUME Init PROVE TypeOK /\ ByteQueueOf!Init
  OBVIOUS
<1>1. Sound(cb) /\ Contents(cb) = <<>> /\ out = <<>>
  BY InitContents DEF Init
<1>2. QED
  BY <1>1, SoundIsType DEF ByteQueueOf!Init

-----------------------------------------------------------------------------

(* circular_buffer.c: head, tail and full keep to their ranges and full is *)
(* only set where head meets tail, for every ring and every block.         *)
THEOREM TypeCorrect == Spec => []TypeOK
BY InitImplements, StepImplements, PTL DEF Spec

(* circular_buff_write: a block that fits leaves the ring as one put after *)
(* the other does, wherever head and tail stand, for every ring and block. *)
THEOREM WritesArePuts == Spec => []WriteIsPuts
<1>1. TypeOK => WriteIsPuts
  BY TypeIsSound, BlocksAssumption, WritePuts DEF WriteIsPuts
<1>2. QED
  BY <1>1, TypeCorrect, PTL

(* circular_buffer.c: the calls of the ring are those of a bounded queue   *)
(* of bytes, whatever its length.                                          *)
THEOREM ImplementsByteQueue == Spec => QueueSpec
<1>1. Spec => ByteQueueOf!Init /\ [][ByteQueueOf!Next]_ByteQueueOf!vars
  BY InitImplements, StepImplements, PTL DEF Spec
<1>2. QED
  BY <1>1 DEF QueueSpec, ByteQueueOf!Spec

=============================================================================
