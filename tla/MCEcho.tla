------------------------------- MODULE MCEcho -------------------------------
(***************************************************************************)
(* Echo on small instances.  POLL_SET_SIZE is small enough that accepting  *)
(* a client grows the table.  With a connection of one unit, a message of  *)
(* two pieces and one of one piece fill both directions: one unit in down  *)
(* and the rest with the server, one in up and the rest with the client.   *)
(***************************************************************************)
EXTENDS Echo, TLC

OnePiece == [m \in 1 .. MaxMsgs |-> 1]
TwoPiecesThenOne == [m \in 1 .. MaxMsgs |-> IF m = 1 THEN 2 ELSE 1]

Symmetry == Permutations(Typists)
=============================================================================
