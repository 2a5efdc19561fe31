---------------------------- MODULE TransferInv -----------------------------
(***************************************************************************)
(* The inductive invariants behind Transfer's safety properties.           *)
(* CommonInv says what a transfer has in every network that they cover,    *)
(* and each of the others adds what makes it inductive in one of them.     *)
(***************************************************************************)
EXTENDS Transfer

\* p is data packet p.seq of the file, under whichever of the data flags.
Genuine(p) ==
  /\ p.seq \in 1 .. NumChunks
  /\ p.data = p.seq
  /\ p.flag \in DataFlags
  /\ (p.flag = "EOF") = (p.seq = NumChunks)

\* A process that has not ended has timeouts left.
TimeoutsLeft ==
  /\ ~RcopyEnded => rTimeout < TIMEOUT_MAX
  /\ ServerSending => sTimeout <= TIMEOUT_MAX
  /\ sState = "LAST_DATA" => sTimeout < TIMEOUT_MAX

TypeInv == TypeOK /\ TimeoutsLeft

\* Until rcopy's filename reaches the main server there is no child, and
\* nothing is under way.
NoChild ==
  /\ toMain \/ rState = "SEND_FILENAME" => sState = "NONE"
  /\ toMain => rState # "SEND_FILENAME"
  /\ sState = "NONE" =>
       /\ sWindow = NewWindow /\ seqNum = 1
       /\ toServer = <<>> /\ toClient = <<>>
\* Before the first data, rcopy has done nothing with its window.
NotBegun ==
  Handshaking \/ rState = "RECEIVE_FIRST_DATA" =>
    rWindow = NewWindow /\ ~buffering /\ ~wroteLastData

\* The child's counters agree, and its slots hold packets that it has sent.
ServerInv ==
  /\ sWindow.current = seqNum
  /\ filePos = seqNum - 1
  /\ 1 <= seqNum /\ seqNum <= NumChunks + 1
  /\ sState \in {"OPEN", "DRAIN", "CLOSED"} => seqNum <= NumChunks
  /\ \A i \in Slots : sWindow.elements[i].dataSize = 1 =>
       /\ Genuine(sWindow.elements[i].packet)
       /\ sWindow.elements[i].packet.seq < seqNum

\* Undamaged datagrams say what was true when they were sent.
DataInv ==
  \A i \in 1 .. Len(toClient) : toClient[i].ok =>
    \/ toClient[i].flag = "FILENAME_RESP" /\ toClient[i].seq = 0
    \/ Genuine(toClient[i]) /\ toClient[i].seq < seqNum
OverInv ==
  /\ \A i \in 1 .. Len(toServer) :
       toServer[i].ok /\ toServer[i].flag = "EOF_ACK" =>
         expected = NumChunks + 1
  /\ sState = "DONE" => expected = NumChunks + 1

\* What rcopy has written is the file's, and so is what it has buffered.
RcopyInv ==
  /\ expected <= seqNum
  /\ rWindow.lower = expected
  /\ rWindow.upper = expected + WindowSize
  /\ rWindow.current <= seqNum
  /\ Len(written) = expected - 1
  /\ \A k \in 1 .. Len(written) : written[k] = k
  /\ wroteLastData => expected = NumChunks + 1
  /\ \A i \in Slots : rWindow.elements[i].valid =>
       LET p == rWindow.elements[i].packet
       IN  /\ Genuine(p)
           /\ expected <= p.seq /\ p.seq < seqNum
           /\ Slot(p.seq) = i

CommonInv ==
  /\ TypeInv /\ NoChild /\ NotBegun
  /\ ServerInv /\ DataInv /\ OverInv /\ RcopyInv

-----------------------------------------------------------------------------
(* When acknowledgements arrive in the order they were sent, whatever else *)
(* the network does.                                                       *)

\* The child's window starts at a number that rcopy has reached and spans at
\* most one ring, which holds all that was sent from there on.
WindowInv ==
  /\ 1 <= sWindow.lower /\ sWindow.lower <= expected
  /\ sWindow.upper = sWindow.lower + WindowSize
  /\ seqNum <= sWindow.lower + WindowSize
  /\ sState = "OPEN" => IsWindowOpen(sWindow)
  /\ \A n \in sWindow.lower .. seqNum - 1 : Held(n)

\* RRs under way name what rcopy has reached, in order.
AckInv ==
  /\ \A i \in 1 .. Len(toServer) :
       toServer[i].ok /\ toServer[i].flag = "RR" =>
         sWindow.lower <= toServer[i].seq /\ toServer[i].seq <= expected
  /\ \A i, j \in 1 .. Len(toServer) :
       /\ j < i
       /\ toServer[i].ok /\ toServer[i].flag = "RR"
       /\ toServer[j].ok /\ toServer[j].flag = "RR"
       => toServer[j].seq <= toServer[i].seq

IInv == CommonInv /\ WindowInv /\ AckInv

-----------------------------------------------------------------------------
(* When it is the data that keep their order.  Acknowledgements that       *)
(* overtake each other may move the child's window back, and the child may *)
(* run ahead of rcopy's window for good; the copy is right all the same.   *)

\* Each slot of the child's ring holds the latest packet of that slot.
SentInv ==
  \A i \in Slots : sWindow.elements[i].dataSize = 1 =>
    LET p == sWindow.elements[i].packet
    IN  seqNum <= p.seq + WindowSize /\ Slot(p.seq) = i

\* What rcopy buffers beyond its window has moved current beyond it too; and
\* what is sent again is less than a ring behind all that was sent before it.
NearInv ==
  /\ \A i \in Slots : rWindow.elements[i].valid =>
       LET p == rWindow.elements[i].packet
       IN  p.seq < rWindow.current \/ p.seq < expected + WindowSize
  /\ \A i \in 1 .. Len(toClient) : toClient[i].ok /\ toClient[i].flag \in DataFlags =>
       /\ rWindow.current <= toClient[i].seq + WindowSize
       /\ \A j \in 1 .. i - 1 :
            toClient[j].ok => toClient[j].seq < toClient[i].seq + WindowSize

CopyInv == CommonInv /\ SentInv /\ NearInv

-----------------------------------------------------------------------------
(* Without damage, which turns the number of a SREJ into any other.        *)

Undamaged ==
  /\ \A i \in 1 .. Len(toClient) : toClient[i].ok
  /\ \A i \in 1 .. Len(toServer) : toServer[i].ok
  /\ \A i \in Slots : sWindow.elements[i].dataSize = 1 => sWindow.elements[i].packet.ok

\* RRs and SREJs reach the child in order, so that no RR frees what a SREJ asks
\* for; rcopy asks only for what is below a packet that it has received.
Asks == {"RR", "SREJ"}
AskInv ==
  /\ \A i \in 1 .. Len(toServer) : toServer[i].flag = "SREJ" =>
       LET n == toServer[i].seq
       IN  sWindow.lower <= n /\ n <= expected /\ n < seqNum
  /\ \A i, j \in 1 .. Len(toServer) :
       /\ j < i
       /\ toServer[i].flag \in Asks /\ toServer[j].flag \in Asks
       => toServer[j].seq <= toServer[i].seq
  /\ buffering => expected < highest /\ highest < seqNum

SrejInv == IInv /\ Undamaged /\ AskInv

\* When data keep their order too, whatever rcopy has not asked for is new: it
\* is above all that has come, and later data are higher still.
DataInOrder ==
  /\ \A i \in 1 .. Len(toClient) :
       toClient[i].seq <= expected \/ rWindow.current <= toClient[i].seq
  /\ \A i, j \in 1 .. Len(toClient) :
       j < i /\ toClient[i].seq > expected => toClient[j].seq < toClient[i].seq

\* rcopy buffers nothing but what is between expected and the last new packet.
BufferInv ==
  /\ \A i \in Slots : rWindow.elements[i].valid =>
       rWindow.elements[i].packet.seq < rWindow.current
  /\ buffering =>
       rWindow.current = highest + 1 /\ ~PacketValidInWindow(rWindow, expected)
  /\ ~buffering =>
       /\ rWindow.current <= expected + 1
       /\ \A i \in Slots : ~rWindow.elements[i].valid

LossInv == SrejInv /\ DataInOrder /\ BufferInv /\ rState # "ABORT"
=============================================================================
