---------------------------- MODULE RequestQueue ----------------------------
(***************************************************************************)
(* What host_comm_tx_queue.c promises the transmit machine, and what TxFsm *)
(* takes it for: a queue of requests, each of a size in bytes, taken whole *)
(* and in order.  The promise ends with a request that is Oversized.       *)
(***************************************************************************)
EXTENDS Integers, Sequences

CONSTANTS
  Request, NoRequest,
  View(_),              \* a request as its reader sees it
  Size(_), Oversized(_), CAPACITY

VARIABLES
  requests, taken,
  bytes,                \* what the requests take up together
  kept                  \* the promise still stands

vars == <<requests, taken, bytes, kept>>

Init == requests = <<>> /\ taken = NoRequest /\ bytes = 0 /\ kept = TRUE

(* A request for which there is no room is not taken.                      *)
Write(req) ==
  /\ kept /\ ~Oversized(req)
  /\ bytes + Size(req) <= CAPACITY
  /\ requests' = Append(requests, req) /\ bytes' = bytes + Size(req)
  /\ UNCHANGED <<taken, kept>>

Read ==
  /\ kept /\ requests # <<>>
  /\ taken' = View(Head(requests))
  /\ requests' = Tail(requests) /\ bytes' = bytes - Size(Head(requests))
  /\ UNCHANGED kept

(* Nothing is promised of what comes after an oversized request.           *)
WriteOversized(req) ==
  /\ kept /\ Oversized(req)
  /\ requests' = Append(requests, req) /\ bytes' \in 0..CAPACITY
  /\ kept' = FALSE
  /\ UNCHANGED taken

Broken == ~kept /\ ~kept'

Next ==
  \/ \E req \in Request : Write(req) \/ WriteOversized(req)
  \/ Read
  \/ Broken

Spec == Init /\ [][Next]_vars

=============================================================================
