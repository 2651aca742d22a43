------------------------------ MODULE MCTxFsm -------------------------------
(* Small instances of TxFsm: a packet without payload, as the ACKs of the  *)
(* receive side, and one with.  All sizes are scaled down, keeping the     *)
(* order between them: a frame fits the transmit buffer, two do not always,*)
(* and a chunk is shorter than a frame.                                    *)
EXTENDS TxFsm, TLC

CONSTANTS res, evt, none

MCPayloadLen == (res :> 0) @@ (evt :> 2) @@ (none :> 0)
=============================================================================
