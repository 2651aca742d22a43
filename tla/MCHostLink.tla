----------------------------- MODULE MCHostLink -----------------------------
(* A small instance of HostLink, with the bytes of MCRxFsm: frames sent     *)
(* without a pause; one behind noise, with a message to the host at the     *)
(* same time; and headers that are refused as fast as they can be.          *)
EXTENDS HostLink, TLC, Functions

MCValidHeader(h) == h[1] \in {3, 4, 5}

MCHeaderPayloadLen(h) ==
  CASE h[1] \in {4, 5} -> 1
    [] h[1] = 8        -> MAX_PAYLOAD_SIZE + 1
    [] OTHER           -> 0

MCCrcOf(s) == <<100 + FoldFunctionOnSet(+, 0, [i \in DOMAIN s |-> s[i] * 10^(i - 1)], DOMAIN s)>>

Frame(p) == PREAMBLE \o p[1] \o p[2] \o MCCrcOf(p[1] \o p[2]) \o POSTAMBLE

empty == <<<<3>>, <<>>>>
full  == <<<<4>>, <<6>>>>

MCHostPackets == {empty, full}

Back2Back == Frame(full) \o Frame(full)
Noisy     == <<8>> \o Frame(empty)

Damaged   == LET bad == PREAMBLE \o <<8>> IN bad \o bad \o bad

MCStreams      == {Back2Back, Noisy, Damaged}
MCFramesIn     == (Back2Back :> 2) @@ (Noisy :> 1) @@ (Damaged :> 0)
MCMessagesWith == (Back2Back :> 0) @@ (Noisy :> 1) @@ (Damaged :> 0)

(* main.c as it is, with nobody to report a packet processed.              *)
TwoFrames   == {Back2Back}
TwoFramesIn == Back2Back :> 2
NoMessages  == Back2Back :> 0

MCPacketPayloadLen == [p \in {ACK, NACK, NoPacket} |-> 0] @@ [p \in Message |-> 1]

MCByte == 0..9 \cup {MCCrcOf(s)[1] : s \in {<<3>>, <<4, 6>>}}

MCPREAMBLE == <<1, 2>>
MCPOSTAMBLE == <<7>>

(* The streams with frames are made of intact ones, of one length each, and *)
(* of noise.                                                                *)
ASSUME IntactHere ==
  /\ Rx!MadeOf(Back2Back, 1, <<Back2Back, Frame(full), <<>>>>)
  /\ Rx!MadeOf(Noisy, 0, <<Noisy, Frame(empty), <<>>>>)

(* The CRC above tells a damaged packet of these streams.                   *)
ASSUME CrcTellsHere == Rx!CrcTells
=============================================================================
