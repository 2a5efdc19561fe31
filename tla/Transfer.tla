------------------------------ MODULE Transfer ------------------------------
(***************************************************************************)
(* One file transfer of project3: rcopy, the main server's filename        *)
(* handling, the child that serves rcopy, and the network between them.    *)
(*                                                                         *)
(* Time is not measured.  A timer may expire while at most Late datagrams  *)
(* or replies are outstanding: with Late = 0 no timeout races an answer.   *)
(* rcopy waits 10 s for data where the child waits 1 s: the child's timer  *)
(* has expired PollRatio times (counted by idle) before rcopy's does.      *)
(***************************************************************************)
EXTENDS Rcopy, Server

CONSTANTS Late, PollRatio
ASSUME TimingAssumption == Late \in Nat /\ PollRatio \in Nat

VARIABLE idle

vars == <<networkVars, rcopyVars, serverVars, idle>>

TypeOK ==
  /\ NetworkTypeOK
  /\ RcopyTypeOK
  /\ ServerTypeOK
  /\ idle \in 0 .. PollRatio

Init ==
  /\ NetworkInit
  /\ RcopyInit
  /\ ServerInit
  /\ idle = 0

-----------------------------------------------------------------------------
(* Time.                                                                   *)

One(b) == IF b THEN 1 ELSE 0

RcopyBusy ==
  \/ rState \in {"SEND_FILENAME", "SEND_FILENAME_TIMEOUT"}
  \/ rState = "LAST_DATA" /\ wroteLastData
Outstanding ==
  One(toMain) + One(RcopyBusy) + One(sState \in {"OPEN", "DRAIN"})
  + (IF ServerSending THEN Len(toServer) ELSE 0)
  + (IF RcopyEnded THEN 0 ELSE Len(toClient))
TimerMayExpire == Outstanding <= Late

\* Is the child in a poll of 1 s, whose timeout makes it send?
ServerPolling == sState \in {"CLOSED", "LAST_DATA"}
TenSecondsPassed == ServerPolling => idle >= PollRatio

CountIdle == idle' = IF idle < PollRatio THEN idle + 1 ELSE idle
RestartIdle == idle' = 0

-----------------------------------------------------------------------------
RcopyReceives == WaitForFileNameAck \/ RecvData \/ RecvLastData
RcopySends == SendFileName \/ SendFileNameTimeout \/ SendEofAck
RcopyTimesOut ==
  /\ TimerMayExpire
  /\ \/ FileNameAckTimeout
     \/ /\ TenSecondsPassed
        /\ FirstDataTimeout \/ RecvDataTimeout \/ LastDataTimeout

RcopyNext ==
  /\ RcopyReceives \/ RcopySends \/ RcopyTimesOut
  /\ RestartIdle
  /\ IF rState = "SEND_FILENAME_TIMEOUT"
     THEN sState' = "NONE" /\ ServerReset  \* the new socket has no child yet
     ELSE UNCHANGED serverVars

ServerReceives == DrainRrSrej \/ ClosedRrSrej \/ LastDataRrSrej
ServerSends == ProcessFileName \/ ReadFromDiskAndSend \/ WindowClosed
ServerTimesOut == TimerMayExpire /\ (ClosedTimeout \/ LastDataResend)

ServerNext ==
  /\ \/ (ServerReceives \/ ServerSends) /\ UNCHANGED idle
     \/ ServerTimesOut /\ CountIdle
  /\ UNCHANGED rcopyVars

\* Both processes have ended: the only state in which nothing may happen.
Ended == RcopyEnded /\ ~toMain /\ ~ServerSending
Terminated == Ended /\ UNCHANGED vars

Next == RcopyNext \/ ServerNext \/ Terminated

Spec == Init /\ [][Next]_vars

\* poll returns and the handlers go on: each process is scheduled.
FairSpec == Spec /\ WF_vars(RcopyNext) /\ WF_vars(ServerNext)
-----------------------------------------------------------------------------
(* Safety.                                                                 *)

\* The copy on disk is always a prefix of the file, whatever was lost,
\* damaged, delayed or sent twice (writeDataToDisk, flushWindow).
WrittenIsPrefix ==
  /\ Len(written) <= NumChunks
  /\ Len(written) = expected - 1
  /\ \A k \in 1 .. Len(written) : written[k] = k

\* An end that believes the transfer over has grounds for it: rcopy has
\* written the whole file once it has written a packet flagged EOF, and the
\* child ends on an EOF_ACK only if rcopy has.
OverMeansWhole ==
  wroteLastData \/ sState = "DONE" => Len(written) = NumChunks

\* Packet n of the file, as the child keeps it.
Original(n) ==
  Reflag(BuildDataPacket(n, n), IF n = NumChunks THEN "EOF" ELSE "DATA")
Held(n) ==
  GetPacket(sWindow, n).dataSize = 1 /\ GetPacket(sWindow, n).packet = Original(n)

\* Every chunk that was sent and that rcopy has not written can still be sent
\* again: the ring has not reused its slot (removePacket, addPacket).
UnwrittenRetained ==
  ServerSending => \A n \in expected .. seqNum - 1 : Held(n)

\* The child never runs ahead of the window rcopy buffers in: a packet under
\* way fits it, or is a duplicate.
FlowControl ==
  /\ sState # "NONE" => seqNum <= expected + WindowSize
  /\ \A i \in 1 .. Len(toClient) :
       toClient[i].ok => toClient[i].seq < expected + WindowSize

\* What rcopy buffers is the file's own packet, above what is written and
\* within one window of it, so that no slot stands for two packets.
BufferGenuine ==
  \A i \in Slots : rWindow.elements[i].valid =>
    LET p == rWindow.elements[i].packet
    IN  /\ p.seq \in expected .. expected + WindowSize - 1
        /\ Slot(p.seq) = i
        /\ p.data = p.seq
        /\ (p.flag = "EOF") = (p.seq = NumChunks)

\* While rcopy buffers, the packet it waits for is not in the buffer: if it
\* were, its retransmission would be taken for a duplicate, for ever.
WaitsForMissing ==
  buffering => ~PacketValidInWindow(rWindow, expected)

\* rcopy never meets the full buffer of its "Shouldn't happen" branches.
NeverAborts == rState # "ABORT"

\* A SREJ asks for a packet that the child still holds under that number
\* when the SREJ reaches it, and one that rcopy has not got.
SrejAnswerable ==
  ServerSending =>
    \A i \in 1 .. Len(toServer) :
      toServer[i].flag = "SREJ" => Held(toServer[i].seq)

\* RRs reach the child in order, never name what is not written, and never
\* move its window back.
AcksInOrder ==
  ServerSending =>
    \A i \in 1 .. Len(toServer) :
      LET p == toServer[i] IN
      p.ok /\ p.flag = "RR" =>
        /\ p.seq \in sWindow.lower .. expected
        /\ \A j \in 1 .. i - 1 :
             toServer[j].ok /\ toServer[j].flag = "RR" => toServer[j].seq <= p.seq

\* The child's window never slides back, and what it sends is always new
\* or still unacknowledged.
WindowAdvances ==
  [][sState # "NONE" /\ sState' # "NONE" =>
       sWindow'.lower >= sWindow.lower /\ sWindow'.current >= sWindow.current]_vars

\* The child waits for an EOF_ACK or for TIMEOUT_MAX timeouts: it never
\* ends because of an empty datagram.
NeverCrashes == sState # "CRASH"

-----------------------------------------------------------------------------
(* The transfer implements FileCopy.                                       *)

Status ==
  CASE ~RcopyEnded -> "copying"
    [] RcopyEnded /\ wroteLastData -> "complete"
    [] RcopyEnded /\ ~wroteLastData -> "failed"

FC == INSTANCE FileCopy WITH copy <- written, status <- Status
ImplementsFileCopy == FC!Spec

-----------------------------------------------------------------------------
(* Liveness.                                                               *)

\* Neither process waits for the other for ever.
Termination == <>Ended

\* With fewer losses and damages than either side has timeouts, the whole file
\* arrives, if there is one (rcopy's and the child's state machines, lastData).
FileMissing == sState = "KILL" /\ filePos = 0
Completion ==
  <>(errors >= TIMEOUT_MAX \/
     (RcopyEnded /\ (Len(written) = NumChunks \/ FileMissing)))
=============================================================================
