--------------------------- MODULE CircularBuffer ---------------------------
(***************************************************************************)
(* The effect of each call of circular_buffer.c on a circular_buff_t, for  *)
(* a call that nothing interrupts.  UartTx and UartRx take the calls apart *)
(* into their stores where an interrupt works on the same ring.            *)
(***************************************************************************)
EXTENDS Integers, Sequences

Ring(length, Byte) ==
  [buffer : [0..(length - 1) -> Byte], length : {length},
   head : 0..(length - 1), tail : 0..(length - 1), full : BOOLEAN]

(* byte: what the array holds before the first write.                      *)
circular_buff_init(length, byte) ==
  [buffer |-> [i \in 0..(length - 1) |-> byte], length |-> length,
   head |-> 0, tail |-> 0, full |-> FALSE]

AfterUnwrapped(c, i) == i + 1   \* a fault: the index does not go round

After(c, i) == (i + 1) % c.length

Empty(c) == ~c.full /\ c.tail = c.head

DataLen(c) ==
  IF c.full THEN c.length
  ELSE IF c.head >= c.tail THEN c.head - c.tail
  ELSE c.length + c.head - c.tail

FreeSpace(c) == c.length - DataLen(c)

(* A fault: tail stays where it was.                                       *)
ResetHeadOnly(c) == [c EXCEPT !.head = 0, !.full = FALSE]

Reset(c) == [c EXCEPT !.head = 0, !.tail = 0, !.full = FALSE]

(* A fault: a full ring keeps its oldest byte.                             *)
HeadAdvancedOnly(c) ==
  [c EXCEPT !.head = After(c, c.head), !.full = (After(c, c.head) = c.tail)]

HeadAdvanced(c) ==
  LET tail == IF c.full THEN After(c, c.tail) ELSE c.tail
      head == After(c, c.head)
  IN  [c EXCEPT !.tail = tail, !.head = head, !.full = (head = tail)]

TailRetreated(c) == [c EXCEPT !.full = FALSE, !.tail = After(c, c.tail)]

(* A fault: full is not maintained.                                        *)
PutForgetsFull(c, byte) ==
  [c EXCEPT !.buffer[c.head] = byte, !.head = After(c, c.head)]

Put(c, byte) == HeadAdvanced([c EXCEPT !.buffer[c.head] = byte])

Oldest(c) == c.buffer[c.tail]

-----------------------------------------------------------------------------
(* Several bytes at once                                                   *)

(* A fault: one byte too many.                                             *)
AcceptsOneMore(c, data) == FreeSpace(c) + 1 >= Len(data)

(* circular_buff_write takes all of data or nothing.                       *)
Accepts(c, data) == ~c.full /\ FreeSpace(c) >= Len(data)

(* One put after the other, into a ring that has the room.                 *)
Written(c, data) ==
  IF Len(data) = 0 THEN c
  ELSE LET head == (c.head + Len(data)) % c.length
       IN  [c EXCEPT !.buffer = [i \in DOMAIN c.buffer |->
                       LET k == (i + c.length - c.head) % c.length
                       IN  IF k < Len(data) THEN data[k + 1] ELSE c.buffer[i]],
                     !.head = head, !.full = (head = c.tail)]

(* How many gets in a row find a byte: the first one clears full.          *)
Available(c) == IF c.full /\ c.head # c.tail THEN DataLen([c EXCEPT !.full = FALSE])
                                             ELSE DataLen(c)

Least(m, n) == IF m < n THEN m ELSE n

(* The n bytes from tail on.                                               *)
FromTail(c, n) == [i \in 1..n |-> c.buffer[(c.tail + i - 1) % c.length]]

(* circular_buff_read is a loop of gets, up to the first that finds none.  *)
BytesRead(c, n) == FromTail(c, Least(n, Available(c)))

AfterRead(c, n) ==
  IF n = 0 \/ Empty(c) THEN c
  ELSE [c EXCEPT !.full = FALSE, !.tail = (c.tail + Least(n, Available(c))) % c.length]

(* circular_buff_fetch does not move tail; it takes all or nothing.        *)
Fetched(c, n) == IF n > DataLen(c) THEN <<>> ELSE FromTail(c, n)

-----------------------------------------------------------------------------
(* What a ring is there for: the bytes in it, oldest first.                *)

Contents(c) == FromTail(c, DataLen(c))

=============================================================================
