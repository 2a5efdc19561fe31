------------------------------- MODULE Server -------------------------------
(***************************************************************************)
(* server.c: the main server's filename handling and the child it forks    *)
(* for rcopy's current socket.  Children of sockets that rcopy has closed  *)
(* talk to nobody and are left out.                                        *)
(*                                                                         *)
(* sState is where the child is:                                           *)
(*   NONE       no child for the current socket yet                        *)
(*   OPEN       sendAndReceiveData, about to read and send                 *)
(*   DRAIN      its loop that polls without blocking after a send          *)
(*   CLOSED     its loop that waits while the window is closed             *)
(*   LAST_DATA  lastData's loop                                            *)
(*   DONE       ended, lastData returned on an EOF_ACK                     *)
(*   KILL       ended otherwise: bad filename or too many timeouts         *)
(*   CRASH      ended by exit(1) in sendto_Err                             *)
(* The parent never sends data: its window and seqNum never change, so a   *)
(* child always starts from the initial ones.  The file is the chunks      *)
(* 1 .. NumChunks, the last of them the short read that ends the file.     *)
(***************************************************************************)
EXTENDS Network

CONSTANTS NumChunks, FopenResults
ASSUME ServerAssumption ==
  /\ NumChunks \in Nat \ {0}
  /\ FopenResults \subseteq BOOLEAN /\ FopenResults # {}

VARIABLES
  sState, sTimeout,
  sWindow,   \* the child's copy of `window`
  seqNum,    \* the next sequence number to send
  filePos    \* how many chunks fread has returned

serverVars == <<sState, sTimeout, sWindow, seqNum, filePos>>

ServerStates ==
  {"NONE", "OPEN", "DRAIN", "CLOSED", "LAST_DATA", "DONE", "KILL", "CRASH"}
ServerEnded == sState \in {"DONE", "KILL", "CRASH"}
ServerSending == sState \in {"OPEN", "DRAIN", "CLOSED", "LAST_DATA"}

ServerTypeOK ==
  /\ sState \in ServerStates
  /\ sTimeout \in 0 .. TIMEOUT_MAX + 1
  /\ sWindow \in Windows
  /\ seqNum \in Nat /\ filePos \in Nat

ServerReset ==
  /\ sTimeout' = 0
  /\ sWindow' = NewWindow
  /\ seqNum' = SEQ_NUM_START
  /\ filePos' = 0

ServerInit ==
  /\ sState = "NONE" /\ sTimeout = 0
  /\ sWindow = NewWindow
  /\ seqNum = SEQ_NUM_START /\ filePos = 0

-----------------------------------------------------------------------------
(* waitFileName, processFileName and the first steps of the child.         *)

SendToClient(p) == SendTo(toClient, p, toClient')

ProcessFileName ==
  /\ toMain
  /\ toMain' = FALSE
  /\ \E goodFile \in FopenResults :
       /\ SendToClient(BuildFileNameRespPacket(goodFile))
       /\ sState' = IF goodFile THEN "OPEN" ELSE "KILL"
  /\ ServerReset
  /\ UNCHANGED toServer

-----------------------------------------------------------------------------
(* Sending what a window slot holds.  sendto_Err exits on an empty one.    *)

SendElement(element, flag, next) ==
  IF element.dataSize = 0
  THEN sState' = "CRASH" /\ UNCHANGED <<toClient, errors>>
  ELSE SendToClient(Reflag(element.packet, flag)) /\ sState' = next

\* EOF keeps its flag when it is sent again.
ResendFlag(element, flag) ==
  IF element.packet.flag = "EOF" THEN "EOF" ELSE flag

\* Takes an RR for the last packet received, not for the next one expected.
ProcessRrSrej_AcksNext(p, next) ==
  \/ /\ IsValidPacket(p) /\ p.flag = "RR"
     /\ sWindow' = RemovePacket(sWindow, p.seq + 1)
     /\ sState' = next
     /\ UNCHANGED <<toClient, errors>>
  \/ /\ IsValidPacket(p) /\ p.flag = "SREJ"
     /\ UNCHANGED sWindow
     /\ LET element == GetPacket(sWindow, p.seq)
        IN  SendElement(element, ResendFlag(element, "SREJ_DATA"), next)
  \/ /\ ~IsValidPacket(p) \/ p.flag = "EOF_ACK"
     /\ UNCHANGED <<sWindow, toClient, errors>>
     /\ sState' = next

\* processRrSrej for the packet p: next is where the caller goes on, unless
\* answering a SREJ ends the process.
ProcessRrSrej(p, next) ==
  \/ /\ IsValidPacket(p) /\ p.flag = "RR"
     /\ sWindow' = RemovePacket(sWindow, p.seq)
     /\ sState' = next
     /\ UNCHANGED <<toClient, errors>>
  \/ /\ IsValidPacket(p) /\ p.flag = "SREJ"
     /\ UNCHANGED sWindow
     /\ LET element == GetPacket(sWindow, p.seq)
        IN  SendElement(element, ResendFlag(element, "SREJ_DATA"), next)
  \/ /\ ~IsValidPacket(p) \/ p.flag = "EOF_ACK"
     /\ UNCHANGED <<sWindow, toClient, errors>>
     /\ sState' = next

-----------------------------------------------------------------------------
(* sendAndReceiveData.                                                     *)

\* readFromDiskAndSend; the window was found open.
ReadFromDiskAndSend ==
  /\ sState = "OPEN" \/ (sState = "DRAIN" /\ IsWindowOpen(sWindow))
  /\ LET atEof == filePos + 1 = NumChunks
         p == Reflag(BuildDataPacket(seqNum, filePos + 1),
                     IF atEof THEN "EOF" ELSE "DATA")
     IN /\ SendToClient(p)
        /\ sWindow' = AddPacket(sWindow, p)
        /\ sState' = IF atEof THEN "LAST_DATA" ELSE "DRAIN"
  /\ seqNum' = seqNum + 1
  /\ filePos' = filePos + 1
  /\ sTimeout' = 0
  /\ UNCHANGED <<toMain, toServer>>

DrainRrSrej ==
  /\ sState = "DRAIN"
  /\ \E i \in Arrivals(toServer, AckReorder) :
       /\ toServer' = RemoveAt(toServer, i)
       /\ ProcessRrSrej(toServer[i], "DRAIN")
  /\ UNCHANGED <<toMain, sTimeout, seqNum, filePos>>

\* Nothing to receive, and no room to send.
WindowClosed ==
  /\ sState = "DRAIN" /\ ~IsWindowOpen(sWindow)
  /\ sState' = "CLOSED"
  /\ UNCHANGED <<networkVars, sTimeout, sWindow, seqNum, filePos>>

ClosedRrSrej ==
  /\ sState = "CLOSED"
  /\ sTimeout' = 0
  /\ \E i \in Arrivals(toServer, AckReorder) :
       /\ toServer' = RemoveAt(toServer, i)
       /\ ProcessRrSrej(toServer[i],
                        IF IsWindowOpen(sWindow') THEN "OPEN" ELSE "CLOSED")
  /\ UNCHANGED <<toMain, seqNum, filePos>>

ClosedTimeout ==
  /\ sState = "CLOSED"
  /\ sTimeout' = sTimeout + 1
  /\ SendElement(GetLowestPacket(sWindow), "TIMEOUT_DATA",
                 IF sTimeout + 1 > TIMEOUT_MAX THEN "KILL" ELSE "CLOSED")
  /\ UNCHANGED <<toMain, toServer, sWindow, seqNum, filePos>>

-----------------------------------------------------------------------------
(* lastData: every chunk has been sent.  Its timeout is never reset.       *)

LastDataRrSrej ==
  /\ sState = "LAST_DATA"
  /\ \E i \in Arrivals(toServer, AckReorder) :
       LET p == toServer[i]
           acked == IsValidPacket(p) /\ p.flag = "EOF_ACK"
       IN /\ toServer' = RemoveAt(toServer, i)
          /\ ProcessRrSrej(p, IF acked THEN "DONE" ELSE "LAST_DATA")
  /\ UNCHANGED <<toMain, sTimeout, seqNum, filePos>>

LastDataResend ==
  /\ sState = "LAST_DATA"
  /\ sTimeout' = sTimeout + 1
  /\ LET element == GetLowestPacket(sWindow)
     IN  SendElement(element, ResendFlag(element, "TIMEOUT_DATA"),
                     IF sTimeout + 1 >= TIMEOUT_MAX THEN "KILL"
                     ELSE "LAST_DATA")
  /\ UNCHANGED <<toMain, toServer, sWindow, seqNum, filePos>>
=============================================================================
