----------------------------- MODULE ByteQueue ------------------------------
(***************************************************************************)
(* What circular_buffer.c promises its callers: a queue of at most LENGTH  *)
(* bytes.  out is what the last call gave back.                            *)
(***************************************************************************)
EXTENDS Integers, Sequences

CONSTANTS Byte, LENGTH, Blocks, Lengths

VARIABLES queue, out

vars == <<queue, out>>

Init == queue = <<>> /\ out = <<>>

(* A byte put into a full queue pushes the oldest one out.                 *)
Put(byte) ==
  /\ queue' = Append(IF Len(queue) = LENGTH THEN Tail(queue) ELSE queue, byte)
  /\ out' = <<>>

Get ==
  IF queue = <<>> THEN queue' = queue /\ out' = <<>>
                  ELSE queue' = Tail(queue) /\ out' = <<Head(queue)>>

(* All of a block that fits, nothing of one that does not.                 *)
Write(data) ==
  /\ queue' = IF Len(queue) + Len(data) <= LENGTH THEN queue \o data ELSE queue
  /\ out' = <<>>

Read(n) ==
  LET taken == IF n < Len(queue) THEN n ELSE Len(queue)
  IN  /\ out' = SubSeq(queue, 1, taken)
      /\ queue' = SubSeq(queue, taken + 1, Len(queue))

Fetch(n) ==
  /\ out' = IF n > Len(queue) THEN <<>> ELSE SubSeq(queue, 1, n)
  /\ queue' = queue

Reset == queue' = <<>> /\ out' = <<>>

Next ==
  \/ \E byte \in Byte : Put(byte)
  \/ Get
  \/ \E data \in Blocks : Write(data)
  \/ \E n \in Lengths : Read(n) \/ Fetch(n)
  \/ Reset

Spec == Init /\ [][Next]_vars

=============================================================================
