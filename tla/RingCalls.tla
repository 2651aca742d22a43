----------------------------- MODULE RingCalls ------------------------------
(***************************************************************************)
(* One circular buffer and a caller that nothing interrupts: every public  *)
(* call of circular_buffer.c, in any order.  This is how the transmit      *)
(* queue uses its ring.                                                    *)
(***************************************************************************)
EXTENDS CircularBuffer

CONSTANTS
  Byte, NoByte,   \* NoByte: what the reserved array holds at the start
  LENGTH,
  Blocks,         \* what callers write at once
  Lengths         \* how much callers read at once

ASSUME ByteAssumption == NoByte \in Byte
ASSUME LengthAssumption == LENGTH \in Nat \ {0}
ASSUME BlocksAssumption == Blocks \subseteq Seq(Byte)
ASSUME LengthsAssumption == Lengths \subseteq Nat

VARIABLES cb, out

vars == <<cb, out>>

Init == cb = circular_buff_init(LENGTH, NoByte) /\ out = <<>>

circular_buff_put(byte) == cb' = Put(cb, byte) /\ out' = <<>>

circular_buff_get ==
  IF Empty(cb) THEN cb' = cb /\ out' = <<>>
               ELSE cb' = TailRetreated(cb) /\ out' = <<Oldest(cb)>>

circular_buff_write(data) ==
  /\ cb' = IF Accepts(cb, data) THEN Written(cb, data) ELSE cb
  /\ out' = <<>>

circular_buff_read(n) == cb' = AfterRead(cb, n) /\ out' = BytesRead(cb, n)

circular_buff_fetch(n) == cb' = cb /\ out' = Fetched(cb, n)

circular_buff_reset == cb' = Reset(cb) /\ out' = <<>>

Next ==
  \/ \E byte \in Byte : circular_buff_put(byte)
  \/ circular_buff_get
  \/ \E data \in Blocks : circular_buff_write(data)
  \/ \E n \in Lengths : circular_buff_read(n) \/ circular_buff_fetch(n)
  \/ circular_buff_reset

Spec == Init /\ [][Next]_vars

-----------------------------------------------------------------------------
(* Properties *)

(* A ring whose full flag is set only where head meets tail.               *)
TypeOK ==
  /\ cb \in Ring(LENGTH, Byte)
  /\ cb.full => cb.head = cb.tail
  /\ out \in Seq(Byte)

(* The ring behaves as a bounded queue, wherever head and tail stand, also *)
(* when they meet and when they go round.                                  *)
ByteQueueOf ==
  INSTANCE ByteQueue WITH queue <- Contents(cb)

QueueSpec == ByteQueueOf!Spec

(* circular_buff_write is a loop of circular_buff_put: the blocks it takes *)
(* leave the ring, and every prefix of them would, as one put after the    *)
(* other does.                                                             *)
WriteIsPuts ==
  \A data \in Blocks : Accepts(cb, data) =>
    /\ Written(cb, <<>>) = cb
    /\ \A i \in 1..Len(data) :
         Written(cb, SubSeq(data, 1, i)) = Put(Written(cb, SubSeq(data, 1, i - 1)), data[i])

=============================================================================
