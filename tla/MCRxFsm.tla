------------------------------ MODULE MCRxFsm -------------------------------
(***************************************************************************)
(* Small instances of RxFsm.  Bytes: 1 and 2 make the preamble, 3 is the   *)
(* header of a packet without payload, 4 and 5 those of packets with one   *)
(* byte, 6 is a payload, 7 the postamble, 8 noise; a CRC is one byte above *)
(* 99 that tells the covered bytes apart up to zeros at their end.         *)
(***************************************************************************)
EXTENDS RxFsm, FiniteSets

MCValidHeader(h) == h[1] \in {3, 4, 5}

(* Noise for a header asks for more than a packet holds.                   *)
MCPayloadLen(h) ==
  CASE h[1] \in {4, 5} -> 1
    [] h[1] = 8        -> MAX_PAYLOAD_SIZE + 1
    [] OTHER           -> 0

MCCrcOf(s) == <<100 + FoldFunctionOnSet(+, 0, [i \in DOMAIN s |-> s[i] * 10^(i - 1)], DOMAIN s)>>

Frame(p) == PREAMBLE \o p[1] \o p[2] \o MCCrcOf(p[1] \o p[2]) \o POSTAMBLE

empty == <<<<3>>, <<>>>>
full  == <<<<4>>, <<6>>>>

MCHostPackets == {empty, full}

BadCrc    == PREAMBLE \o <<4, 8>> \o MCCrcOf(<<4, 6>>) \o POSTAMBLE
BadHeader == PREAMBLE \o <<8, 6>> \o MCCrcOf(<<4, 6>>) \o POSTAMBLE
Truncated == PREAMBLE \o <<4>>

(* Damaged, torn and noisy traffic before an intact frame.                 *)
Traffic ==
  {Frame(empty) \o Frame(full), Frame(full) \o Frame(empty),
   BadCrc \o Frame(full), BadHeader \o Frame(empty),
   Truncated \o Frame(full), <<8, 1>> \o Frame(empty)}

(* Intact frames, a shorter payload after a longer one.                    *)
Shrinking == {Frame(full) \o Frame(empty)}

(* Exactly LEN_WRAP bytes after a frame that was acknowledged.             *)
Pair == {Frame(empty) \o Frame(empty)}

(* A frame that does not end with the postamble; and one behind a stray    *)
(* byte that is the first one of a preamble.                               *)
Unended == {PREAMBLE \o <<4, 6>> \o MCCrcOf(<<4, 6>>) \o <<8>>}
Stray   == {<<1>> \o Frame(empty)}

(* With the CRCs of the packets, the damaged one included.                 *)
MCByte ==
  0..9 \cup {MCCrcOf(s)[1] : s \in {<<3>>, <<3, 6>>, <<4, 6>>, <<4, 8>>}}

MCPREAMBLE == <<1, 2>>
MCPOSTAMBLE == <<7>>

(* The CRC above tells a damaged packet of these streams.                  *)
ASSUME CrcTellsHere == CrcTells
=============================================================================
