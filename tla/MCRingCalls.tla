---------------------------- MODULE MCRingCalls -----------------------------
(* A small instance of RingCalls: blocks from nothing to more than the ring *)
(* holds.                                                                   *)
EXTENDS RingCalls

MCBlocks == {<<>>, <<1>>, <<2, 1>>, <<1, 2, 2>>, <<2, 2, 1, 1>>}

=============================================================================
