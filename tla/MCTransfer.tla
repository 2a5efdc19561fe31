----------------------------- MODULE MCTransfer -----------------------------
(***************************************************************************)
(* Transfer on small instances.  NumChunks exceeds WindowSize by two, so   *)
(* that the ring wraps and a slot serves two packets; WindowSize is 2 or   *)
(* more, so that packets are buffered out of order.                        *)
(***************************************************************************)
EXTENDS TransferInv

\* Damage to header.seqNum that the reader of lastData can tell from none:
\* in the low byte, or in the next one.
LowByte == {1}
TwoBytes == {1, 256}

\* fopen may find the file or not; where only transfers count, it does.
AnyFopen == BOOLEAN
FileExists == {TRUE}
=============================================================================
