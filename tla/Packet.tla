------------------------------- MODULE Packet -------------------------------
(***************************************************************************)
(* The datagrams of project3 (packet.h, packet.c).  A packet keeps what    *)
(* the two state machines read of it:                                      *)
(*   flag  the header's flag, by its name without the prefix FLAG_TYPE_    *)
(*   seq   a data packet's header.seqNum; an RR's or SREJ's payload seqNum *)
(*   data  the payload: the number of the file chunk it carries, or the    *)
(*         response byte of a FILENAME_RESP                                *)
(*   ok    whether in_cksum over the datagram is 0 (isValidPacket)         *)
(* The header.seqNum of an RR or a SREJ is sent and never read.            *)
(***************************************************************************)
EXTENDS Naturals, Sequences

CONSTANT ByteWeights  \* weights of the header.seqNum bytes that may be hit
ASSUME ByteWeightsAssumption ==
  ByteWeights \subseteq {1, 256, 65536, 16777216}

CONSTANT TIMEOUT_MAX  \* packet.h defines it for both programs
ASSUME TimeoutAssumption == TIMEOUT_MAX \in Nat \ {0}

SEQ_NUM_START == 1

DataFlags == {"DATA", "SREJ_DATA", "TIMEOUT_DATA", "EOF"}
ControlFlags == {"RR", "SREJ", "EOF_ACK", "FILENAME_RESP"}
\* A zeroed Packet_t has flag 0, which no packet on the wire has.
Packets ==
  [flag : DataFlags \cup ControlFlags \cup {"ZERO"},
   seq : Nat, data : Nat, ok : BOOLEAN]

ZeroPacket == [flag |-> "ZERO", seq |-> 0, data |-> 0, ok |-> FALSE]

\* The build functions leave a packet with a correct checksum.
BuildDataPacket(n, chunk) ==
  [flag |-> "DATA", seq |-> n, data |-> chunk, ok |-> TRUE]

BuildRrPacket(n) == [flag |-> "RR", seq |-> n, data |-> 0, ok |-> TRUE]

BuildSrejPacket(n) == [flag |-> "SREJ", seq |-> n, data |-> 0, ok |-> TRUE]

BuildFileNameRespPacket(response) ==
  [flag |-> "FILENAME_RESP", seq |-> 0,
   data |-> IF response THEN 1 ELSE 0, ok |-> TRUE]

\* The senders rewrite the flag of a packet and compute its checksum again.
Reflag(p, flag) == [p EXCEPT !.flag = flag]

IsValidPacket(p) == p.ok

(***************************************************************************)
(* flipBits xors one byte of the datagram with 0xFF: byte b becomes        *)
(* 255 - b, which the ones' complement sum always shows.  When the byte is *)
(* one of header.seqNum of a data packet, the number that rcopy's lastData *)
(* reads from the damaged packet is another one.                           *)
(***************************************************************************)
SeqByte(n, w) == (n \div w) % 256
FlipSeqByte(n, w) == (n + 255 * w) - 2 * SeqByte(n, w) * w
Flips(p) ==
  {[p EXCEPT !.ok = FALSE]} \cup
  (IF p.flag \in DataFlags
   THEN {[p EXCEPT !.ok = FALSE, !.seq = FlipSeqByte(p.seq, w)] :
           w \in ByteWeights}
   ELSE {})
=============================================================================
