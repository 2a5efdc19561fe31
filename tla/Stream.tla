------------------------------- MODULE Stream -------------------------------
(***************************************************************************)
(* p2's TCP connections and the PDUs on them (lab2.c).  A stream is the    *)
(* sequence of units sent and not yet received, in both ends' buffers      *)
(* together: at most Capacity units.  A unit is a PDU's two-byte length or *)
(* a piece of its payload; a PDU's units may arrive at different times.    *)
(*                                                                         *)
(* What a reader finds behind the last unit is in upEnd and downEnd:       *)
(*   OPEN  nothing: recv waits                                             *)
(*   FIN   the end of the stream: recv returns 0                           *)
(*   RST   a reset: recv returns -1                                        *)
(* broken says that a reset has been received by the end that still sends, *)
(* so that send fails (or SIGPIPE ends the process).                       *)
(***************************************************************************)
EXTENDS Naturals, Sequences, SequencesExt

CONSTANTS
  Clients,
  MaxMsgs,    \* a client sends at most so many messages
  Lengths,    \* how many pieces the payload of each has
  Capacity, LISTEN_BACKLOG
ASSUME StreamAssumption ==
  /\ MaxMsgs \in Nat /\ Lengths \in [1 .. MaxMsgs -> Nat \ {0}]
  /\ Capacity \in Nat \ {0} /\ LISTEN_BACKLOG \in Nat \ {0}

VARIABLES
  backlog,          \* connections that accept has not returned yet
  up, down,         \* units on their way to the server, to each client
  upEnd, downEnd, broken

streamVars == <<backlog, up, down, upEnd, downEnd, broken>>

Ends == {"OPEN", "FIN", "RST"}

\* Message m's payload.
PayloadLen(m) == IF m \in 1 .. MaxMsgs THEN Lengths[m] ELSE 1
Payload(c, m) ==
  [k \in 1 .. PayloadLen(m) |-> [of |-> c, msg |-> m, part |-> k, len |-> 0]]
Header(c, n) == [of |-> c, msg |-> 0, part |-> 0, len |-> n]

\* sendPDU writes the length of the data before the data.
Pdu_WithoutNul(c, data) == <<Header(c, Len(data) - 1)>> \o data
Pdu(c, data) == <<Header(c, Len(data))>> \o data

Units == [of : Clients, msg : Nat, part : Nat, len : Nat]

StreamTypeOK ==
  /\ backlog \in Seq(Clients)
  /\ up \in [Clients -> Seq(Units)] /\ down \in [Clients -> Seq(Units)]
  /\ \A c \in Clients : Len(up[c]) <= Capacity /\ Len(down[c]) <= Capacity
  /\ upEnd \in [Clients -> Ends] /\ downEnd \in [Clients -> Ends]
  /\ broken \in [Clients -> BOOLEAN]

StreamInit ==
  /\ backlog = <<>>
  /\ up = [c \in Clients |-> <<>>] /\ down = [c \in Clients |-> <<>>]
  /\ upEnd = [c \in Clients |-> "OPEN"] /\ downEnd = [c \in Clients |-> "OPEN"]
  /\ broken = [c \in Clients |-> FALSE]

\* recv with MSG_WAITALL for n units, of which got have come: what it takes.
Takes(queue, got, n) ==
  IF Len(queue) <= n - Len(got) THEN queue ELSE SubSeq(queue, 1, n - Len(got))
Leaves(queue, got, n) ==
  SubSeq(queue, Len(Takes(queue, got, n)) + 1, Len(queue))

-----------------------------------------------------------------------------
(* What the kernels do when a process has gone.                            *)

\* A client's end.  The kernel says FIN, unless there is unread data: then
\* it says RST (ResetServerEnd), and so it does when data comes later.
CloseClientEnd(c) ==
  /\ upEnd' = [upEnd EXCEPT ![c] = IF down[c] = <<>> THEN "FIN" ELSE @]
  /\ UNCHANGED <<backlog, up, down, downEnd, broken>>

\* The reset reaches the server.  What the client had not yet transmitted is
\* lost, the FIN included.
ResetServerEnd(c) ==
  /\ ~broken[c] /\ down[c] # <<>>
  /\ \E k \in 0 .. Len(up[c]) :
       /\ up' = [up EXCEPT ![c] = SubSeq(@, 1, k)]
       /\ \E end \in {"RST"} \cup (IF k = Len(up[c]) THEN {upEnd[c]} ELSE {}) :
            /\ end # "OPEN"
            /\ upEnd' = [upEnd EXCEPT ![c] = end]
  /\ down' = [down EXCEPT ![c] = <<>>]
  /\ broken' = [broken EXCEPT ![c] = TRUE]
  /\ UNCHANGED <<backlog, downEnd>>

\* The server's ends of the connections cs: a connection that it has not read
\* to the end, or not even accepted, is reset, and may lose what was under way.
CloseServerEnds(cs) ==
  LET reset == {c \in cs : up[c] # <<>> \/ c \in Range(backlog)} IN
  /\ downEnd' = [c \in Clients |->
       IF c \in reset THEN "RST" ELSE IF c \in cs THEN "FIN" ELSE downEnd[c]]
  /\ broken' = [c \in Clients |-> broken[c] \/ c \in reset]
  /\ \E kept \in [reset -> 0 .. Capacity] :
       /\ \A c \in reset : kept[c] <= Len(down[c])
       /\ down' = [c \in Clients |->
            IF c \in reset THEN SubSeq(down[c], 1, kept[c]) ELSE down[c]]
  /\ backlog' = <<>>
  /\ UNCHANGED <<up, upEnd>>

\* The answer to what a client sends to a server that has gone.
ResetClientEnd(c) ==
  /\ ~broken[c] /\ up[c] # <<>>
  /\ broken' = [broken EXCEPT ![c] = TRUE]
  /\ up' = [up EXCEPT ![c] = <<>>]
  /\ UNCHANGED <<backlog, down, upEnd, downEnd>>
=============================================================================
