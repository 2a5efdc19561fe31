------------------------------- MODULE Rcopy --------------------------------
(***************************************************************************)
(* rcopy.c: the client, which asks for a file and receives it.             *)
(*                                                                         *)
(* rState is the `state` of stateMachine, entered through its loop head.   *)
(* STATE_PROCESS_DATA, STATE_BUFFER_DATA, STATE_BAD_DATA and               *)
(* STATE_RECEIVE_DATA_TIMEOUT follow a receive or a timeout without        *)
(* waiting for anything: they belong to the action that leads to them.     *)
(* ABORT stands for exit(1).  rTimeout is stateMachine's `timeout` and, in *)
(* STATE_LAST_DATA, lastData's own: the first is not read again there.     *)
(***************************************************************************)
EXTENDS Network

VARIABLES
  rState, rTimeout,
  rWindow,        \* rcopy's copy of `window`
  expected,       \* the next sequence number to write
  highest,
  buffering,
  wroteLastData,
  written         \* the chunks fwritten to toFile, in order

rcopyVars == <<rState, rTimeout, rWindow, expected, highest, buffering,
               wroteLastData, written>>

RcopyStates ==
  {"SEND_FILENAME", "SEND_FILENAME_TIMEOUT", "WAIT_FOR_FILENAME_ACK",
   "RECEIVE_FIRST_DATA", "RECEIVE_DATA", "LAST_DATA", "KILL", "ABORT"}
Handshaking ==
  rState \in {"SEND_FILENAME", "SEND_FILENAME_TIMEOUT",
              "WAIT_FOR_FILENAME_ACK"}
RcopyEnded == rState \in {"KILL", "ABORT"}

RcopyTypeOK ==
  /\ rState \in RcopyStates
  /\ rTimeout \in 0 .. TIMEOUT_MAX
  /\ rWindow \in Windows
  /\ expected \in Nat /\ highest \in Nat
  /\ buffering \in BOOLEAN /\ wroteLastData \in BOOLEAN
  /\ written \in Seq(Nat)

RcopyInit ==
  /\ rState = "SEND_FILENAME" /\ rTimeout = 0
  /\ rWindow = NewWindow
  /\ expected = SEQ_NUM_START /\ highest = SEQ_NUM_START
  /\ buffering = FALSE /\ wroteLastData = FALSE
  /\ written = <<>>

\* The head of stateMachine's loop.
LoopHead_OneMore(next, timeout) ==
  IF timeout > TIMEOUT_MAX THEN "KILL" ELSE next
LoopHead(next, timeout) == IF timeout >= TIMEOUT_MAX THEN "KILL" ELSE next

transferVars == <<rWindow, expected, buffering, wroteLastData, written>>

-----------------------------------------------------------------------------
(* The handshake.                                                          *)

SendFileName ==
  /\ rState = "SEND_FILENAME"
  /\ SendFileNameTo(toMain')
  /\ rState' = "WAIT_FOR_FILENAME_ACK"
  /\ UNCHANGED <<toServer, toClient, rTimeout, highest, transferVars>>

\* Closes the socket and opens another one, to the main server.
SendFileNameTimeout ==
  /\ rState = "SEND_FILENAME_TIMEOUT"
  /\ rTimeout' = rTimeout + 1
  /\ rState' = LoopHead("SEND_FILENAME", rTimeout + 1)
  /\ NewSocket
  /\ UNCHANGED <<errors, highest, transferVars>>

\* A damaged answer, or another packet than the answer, counts as none.
WaitForFileNameAck ==
  /\ rState = "WAIT_FOR_FILENAME_ACK"
  /\ \E i \in Arrivals(toClient, DataReorder) :
       LET p == toClient[i]
           answer == IsValidPacket(p) /\ p.flag = "FILENAME_RESP"
       IN /\ toClient' = RemoveAt(toClient, i)
          /\ \/ /\ ~answer
                /\ rState' = "SEND_FILENAME_TIMEOUT"
                /\ UNCHANGED highest
             \/ /\ answer /\ p.data = 0
                /\ rState' = "KILL"
                /\ UNCHANGED highest
             \/ /\ answer /\ p.data = 1
                /\ rState' = "RECEIVE_FIRST_DATA"
                /\ highest' = highest + 1
  /\ UNCHANGED <<toMain, toServer, errors, rTimeout, transferVars>>

FileNameAckTimeout ==
  /\ rState = "WAIT_FOR_FILENAME_ACK"
  /\ rState' = "SEND_FILENAME_TIMEOUT"
  /\ UNCHANGED <<networkVars, rTimeout, highest, transferVars>>

-----------------------------------------------------------------------------
(* processData and processDataBuffering, for a valid data packet p.  next  *)
(* is the state they lead to unless the process exits.                     *)

SendAck(p) == SendTo(toServer, p, toServer')
SendRR(n) == SendAck(BuildRrPacket(n))
SendSREJ(n) == SendAck(BuildSrejPacket(n))
SendSREJAndRR(n) ==
  SendBothTo(toServer, BuildSrejPacket(n), BuildRrPacket(n), toServer')

\* addPacket, or exit(1) when it has no room ("Shouldn't happen").
BufferPacket(p, next) ==
  IF IsWindowOpen(rWindow)
  THEN rWindow' = AddPacket(rWindow, p) /\ rState' = next
  ELSE rState' = "ABORT" /\ UNCHANGED rWindow

\* removePacket(expected) before expected++.
WriteInOrder_RemovesLess(p, next) ==
  /\ p.seq = expected
  /\ written' = Append(written, p.data)
  /\ wroteLastData' = (wroteLastData \/ p.flag = "EOF")
  /\ highest' = expected
  /\ expected' = expected + 1
  /\ rWindow' = RemovePacket(rWindow, expected)
  /\ SendRR(expected + 1)
  /\ rState' = next
  /\ UNCHANGED buffering
WriteInOrder(p, next) ==
  /\ p.seq = expected
  /\ written' = Append(written, p.data)
  /\ wroteLastData' = (wroteLastData \/ p.flag = "EOF")
  /\ highest' = expected
  /\ expected' = expected + 1
  /\ rWindow' = RemovePacket(rWindow, expected + 1)
  /\ SendRR(expected + 1)
  /\ rState' = next
  /\ UNCHANGED buffering

\* wroteLastData set when the EOF packet is received, not when it is written.
EnterBuffering_LastReceived(p, next) ==
  /\ p.seq > expected
  /\ SendSREJ(expected)
  /\ highest' = p.seq
  /\ buffering' = TRUE
  /\ wroteLastData' = (wroteLastData \/ p.flag = "EOF")
  /\ BufferPacket(p, next)
  /\ UNCHANGED <<expected, written>>
\* highest left at the last packet written.
EnterBuffering_KeepsHighest(p, next) ==
  /\ p.seq > expected
  /\ SendSREJ(expected)
  /\ buffering' = TRUE
  /\ BufferPacket(p, next)
  /\ UNCHANGED <<expected, highest, wroteLastData, written>>
EnterBuffering(p, next) ==
  /\ p.seq > expected
  /\ SendSREJ(expected)
  /\ highest' = p.seq
  /\ buffering' = TRUE
  /\ BufferPacket(p, next)
  /\ UNCHANGED <<expected, wroteLastData, written>>

AckLower(p, next) ==
  /\ p.seq < expected
  /\ SendRR(expected)
  /\ rState' = next
  /\ UNCHANGED <<highest, transferVars>>

ProcessData(p, next) ==
  \/ WriteInOrder(p, next)
  \/ EnterBuffering(p, next)
  \/ AckLower(p, next)

\* checkWindowState and flushWindow write the run of valid packets that
\* replacePacket has made; rcopy leaves buffer mode once it reaches highest.
ReplaceAndFlush(p, next) ==
  /\ p.seq = expected
  /\ LET w == ReplacePacket(rWindow, p) IN
     \E n \in InorderValidPackets(w) :
       LET flushed == InorderPackets(w, n) IN
       /\ written' = written \o [k \in 1 .. n |-> flushed[k].data]
       /\ wroteLastData' =
            (wroteLastData \/ \E k \in 1 .. n : flushed[k].flag = "EOF")
       /\ expected' = expected + n
       /\ rWindow' = IF n > 0 THEN RemovePacket(w, expected + n) ELSE w
       /\ buffering' = (expected + n < highest)
       /\ IF expected + n < highest
          THEN SendSREJAndRR(expected + n)
          ELSE SendRR(expected + n)
  /\ rState' = next
  /\ UNCHANGED highest

BufferHigher(p, next) ==
  /\ p.seq > expected
  /\ BufferPacket(p, next)
  /\ highest' = p.seq
  /\ UNCHANGED <<toServer, errors, expected, buffering, wroteLastData,
                 written>>

AskAgain(next) ==
  /\ SendSREJAndRR(expected)
  /\ rState' = next
  /\ UNCHANGED <<highest, transferVars>>

ProcessDataBuffering(p, next) ==
  \/ /\ ~PacketValidInWindow(rWindow, p.seq)
     /\ \/ ReplaceAndFlush(p, next)
        \/ BufferHigher(p, next)
        \/ p.seq < expected /\ AskAgain(next)
  \/ PacketValidInWindow(rWindow, p.seq) /\ AskAgain(next)

ProcessPacket(p, next) ==
  \/ buffering /\ ProcessDataBuffering(p, next)
  \/ ~buffering /\ ProcessData(p, next)

-----------------------------------------------------------------------------
(* Receiving the file.                                                     *)

\* STATE_RECEIVE_FIRST_DATA and STATE_RECEIVE_DATA.  A damaged packet and one
\* that is not a data packet are thrown out.
RecvData ==
  /\ rState \in {"RECEIVE_FIRST_DATA", "RECEIVE_DATA"}
  /\ \E i \in Arrivals(toClient, DataReorder) :
       LET p == toClient[i]
           good == IsValidPacket(p) /\ p.flag \in DataFlags
           next == IF p.flag = "EOF" THEN "LAST_DATA" ELSE "RECEIVE_DATA"
       IN /\ toClient' = RemoveAt(toClient, i)
          /\ \/ /\ good
                /\ ProcessPacket(p, next)
                /\ rTimeout' = IF p.flag = "EOF" THEN 0 ELSE rTimeout
             \/ /\ ~good
                /\ rState' = "RECEIVE_DATA"
                /\ UNCHANGED <<toServer, errors, rTimeout, highest,
                               transferVars>>
  /\ UNCHANGED toMain

FirstDataTimeout ==
  /\ rState = "RECEIVE_FIRST_DATA"
  /\ rState' = "SEND_FILENAME_TIMEOUT"
  /\ UNCHANGED <<networkVars, rTimeout, highest, transferVars>>

RecvDataTimeout_NotCounted ==
  /\ rState = "RECEIVE_DATA"
  /\ UNCHANGED <<networkVars, rState, rTimeout, highest, transferVars>>
RecvDataTimeout ==
  /\ rState = "RECEIVE_DATA"
  /\ rTimeout' = rTimeout + 1
  /\ rState' = LoopHead("RECEIVE_DATA", rTimeout + 1)
  /\ UNCHANGED <<networkVars, highest, transferVars>>

-----------------------------------------------------------------------------
(* lastData: the loop after a packet flagged EOF has been received.        *)

SendEofAck ==
  /\ rState = "LAST_DATA" /\ wroteLastData
  /\ SendAck(Reflag(BuildRrPacket(expected), "EOF_ACK"))
  /\ rState' = "KILL"
  /\ UNCHANGED <<toMain, toClient, rTimeout, highest, transferVars>>

\* A damaged packet is rejected by the number it now carries.
RecvLastData ==
  /\ rState = "LAST_DATA" /\ ~wroteLastData
  /\ rTimeout' = 0
  /\ \E i \in Arrivals(toClient, DataReorder) :
       LET p == toClient[i] IN
       /\ toClient' = RemoveAt(toClient, i)
       /\ \/ /\ ~IsValidPacket(p)
             /\ SendSREJ(p.seq)
             /\ UNCHANGED <<rState, highest, transferVars>>
          \/ /\ IsValidPacket(p)
             /\ IF p.flag \in DataFlags
                THEN ProcessPacket(p, "LAST_DATA")
                ELSE UNCHANGED <<toServer, errors, rState, highest,
                                 transferVars>>
  /\ UNCHANGED toMain

LastDataTimeout_NotCounted ==
  /\ rState = "LAST_DATA" /\ ~wroteLastData
  /\ UNCHANGED <<networkVars, rState, rTimeout, highest, transferVars>>
LastDataTimeout ==
  /\ rState = "LAST_DATA" /\ ~wroteLastData
  /\ rTimeout' = rTimeout + 1
  /\ rState' = LoopHead("LAST_DATA", rTimeout + 1)
  /\ UNCHANGED <<networkVars, highest, transferVars>>
=============================================================================
