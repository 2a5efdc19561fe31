------------------------------ MODULE Network -------------------------------
(***************************************************************************)
(* The datagrams between one rcopy and the server.  Every datagram of the  *)
(* two programs is sent by libcpe464's sendto_Err, which may drop it or    *)
(* flip one byte (PacketManager::processEvents); at most MaxErrors         *)
(* datagrams of a run are hit.  A datagram may also overtake others:       *)
(*   DataReorder  how many earlier datagrams one to rcopy may overtake     *)
(*   AckReorder   the same for datagrams to the server child               *)
(* Datagrams addressed to a process that has ended stay in its queue, and  *)
(* are never read.                                                         *)
(***************************************************************************)
EXTENDS Window, SequencesExt

CONSTANTS MaxErrors, DropOn, FlipOn, DataReorder, AckReorder
ASSUME NetworkAssumption ==
  /\ MaxErrors \in Nat
  /\ DropOn \in BOOLEAN /\ FlipOn \in BOOLEAN
  /\ DataReorder \in Nat /\ AckReorder \in Nat

VARIABLES
  toMain,    \* is rcopy's filename datagram on its way to the main server?
  toServer,  \* datagrams on their way to the server child
  toClient,  \* datagrams on their way to rcopy's current socket
  errors     \* how many datagrams were dropped or damaged

networkVars == <<toMain, toServer, toClient, errors>>

NetworkTypeOK ==
  /\ toMain \in BOOLEAN
  /\ toServer \in Seq(Packets)
  /\ toClient \in Seq(Packets)
  /\ errors \in 0 .. MaxErrors

NetworkInit ==
  /\ toMain = FALSE
  /\ toServer = <<>>
  /\ toClient = <<>>
  /\ errors = 0

\* What may leave sendto_Err when p goes in, and what it costs.
ProcessEvents(p) ==
  {<<p>>} \cup (IF DropOn THEN {<<>>} ELSE {})
          \cup (IF FlipOn THEN {<<q>> : q \in Flips(p)} ELSE {})
Cost(p, out) == IF out = <<p>> THEN 0 ELSE 1
Spend(cost) == errors + cost <= MaxErrors /\ errors' = errors + cost

\* The three destinations; queue is what the channel holds without p.
SendFileNameTo(main) ==
  \E arrives \in {TRUE} \cup (IF DropOn \/ FlipOn THEN {FALSE} ELSE {}) :
    /\ Spend(IF arrives THEN 0 ELSE 1)
    /\ main = arrives

SendTo(queue, p, queueNext) ==
  \E out \in ProcessEvents(p) :
    /\ Spend(Cost(p, out))
    /\ queueNext = queue \o out

SendBothTo(queue, p, q, queueNext) ==
  \E out1 \in ProcessEvents(p), out2 \in ProcessEvents(q) :
    /\ Spend(Cost(p, out1) + Cost(q, out2))
    /\ queueNext = queue \o out1 \o out2

\* Positions in queue from which recvfrom may be served.
Arrivals(queue, reorder) == {i \in 1 .. Len(queue) : i <= reorder + 1}

\* A new socket: what was sent to or by the old one does not reach the new one.
NewSocket_KeepsData ==
  /\ toMain' = FALSE
  /\ toServer' = <<>>
  /\ UNCHANGED toClient
NewSocket ==
  /\ toMain' = FALSE
  /\ toServer' = <<>>
  /\ toClient' = <<>>
=============================================================================
