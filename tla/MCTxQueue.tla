----------------------------- MODULE MCTxQueue ------------------------------
(* A small instance of TxQueue: an answer without payload, two messages, and *)
(* one whose length does not fit packet_data_len.                            *)
EXTENDS TxQueue

MCPayloadLen == [p \in {"answer", "short", "long", "over", "none"} |->
  CASE p = "short" -> 1 [] p = "long" -> 2 [] p = "over" -> 3 [] OTHER -> 0]

MCSubmitted ==
  {[src |-> "rx_fsm", ack_expected |-> FALSE, packet |-> "answer"],
   [src |-> "fw_user", ack_expected |-> TRUE, packet |-> "short"],
   [src |-> "fw_user", ack_expected |-> FALSE, packet |-> "long"],
   [src |-> "fw_user", ack_expected |-> FALSE, packet |-> "over"]}

(* Bound: what comes after the request that breaks the promise, to which no *)
(* property applies, is followed as far as the next read.                   *)
BeforeReadBack == wrapped => packet_cnt = Len(accepted) /\ Len(accepted) <= 1

=============================================================================
