----------------------------- MODULE TxService ------------------------------
(***************************************************************************)
(* What the transmit side promises the rest of the firmware, with neither  *)
(* events, timers nor bytes: requests are served one at a time in the      *)
(* order they were accepted; a request is transmitted again when the host  *)
(* refused it, or stayed silent, and it stayed silent at most              *)
(* MAX_NUM_OF_TRANSFER_RETRIES times before; it is done with when the host *)
(* acknowledged it, when no acknowledgement was asked for, or when the     *)
(* silences are used up.  TxFsm implements this specification.             *)
(***************************************************************************)
EXTENDS Integers, Sequences

CONSTANTS Request, NoRequest, MAX_NUM_OF_TRANSFER_RETRIES

VARIABLES
  waiting,      \* the accepted requests, in order
  serving,      \* the request being served, or NoRequest
  answer,       \* the host's latest answer to it
  unanswered    \* transmissions of it that the host met with silence

vars == <<waiting, serving, answer, unanswered>>

Init ==
  /\ waiting = <<>> /\ serving = NoRequest
  /\ answer = "none" /\ unanswered = 0

Accept(req) ==
  /\ waiting' = Append(waiting, req)
  /\ UNCHANGED <<serving, answer, unanswered>>

Take ==
  /\ serving = NoRequest /\ waiting # <<>>
  /\ serving' = Head(waiting) /\ waiting' = Tail(waiting)
  /\ answer' = "none" /\ unanswered' = 0

Answer(a) ==
  /\ serving # NoRequest
  /\ answer' = a
  /\ UNCHANGED <<waiting, serving, unanswered>>

Again ==
  /\ serving # NoRequest /\ serving.ack_expected
  /\ \/ answer = "nack" /\ unanswered' = unanswered
     \/ answer = "none" /\ unanswered < MAX_NUM_OF_TRANSFER_RETRIES
                        /\ unanswered' = unanswered + 1
  /\ answer' = "none"
  /\ UNCHANGED <<waiting, serving>>

Done ==
  /\ serving # NoRequest
  /\ \/ answer = "ack"
     \/ ~serving.ack_expected
     \/ answer = "none" /\ unanswered = MAX_NUM_OF_TRANSFER_RETRIES
  /\ serving' = NoRequest
  /\ answer' = "none" /\ unanswered' = 0
  /\ UNCHANGED waiting

Next ==
  \/ \E req \in Request : Accept(req)
  \/ Take
  \/ \E a \in {"ack", "nack"} : Answer(a)
  \/ Again
  \/ Done

Spec == Init /\ [][Next]_vars
=============================================================================
