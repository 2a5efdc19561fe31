----------------------------- MODULE EchoServer -----------------------------
(***************************************************************************)
(* p2/server.c: one process that polls its listening socket and the        *)
(* clients' sockets, and sends every PDU back to the client it came from.  *)
(*                                                                         *)
(* sAt is where serverControl waits:                                       *)
(*   POLL     in pollCall                                                  *)
(*   PAYLOAD  in recvPDU's second recv, for current's payload              *)
(*   SEND     in sendPDU's send, to current                                *)
(*   STOPPED  ended by ^C                                                  *)
(*   EXITED   ended by exit(-1), or by SIGPIPE                             *)
(* recvPDU's first recv follows a poll that reported the socket: there is  *)
(* a unit to take, or an end.  bufferSize is enough for every PDU, as both *)
(* programs use the same MAXBUF.                                           *)
(***************************************************************************)
EXTENDS PollSet, Stream

CONSTANTS MAX_FD,   \* how many descriptors a process may have (RLIMIT_NOFILE)
          Faults,   \* which of the faults may happen, see below and EchoClient
          Nobody    \* no client
ASSUME ServerAssumption ==
  /\ MAX_FD \in Nat /\ Nobody \notin Clients
  /\ Faults \subseteq {"kill", "stop", "hangup", "eof"}

VARIABLES
  sAt, current,
  need,       \* how many payload units current's PDU has
  sBuf,       \* PAYLOAD: the units received; SEND: the units still to send
  accepted,   \* the clients in the order accept returned them
  pollSet,
  stdinHup    \* has the server's standard input hung up?

serverVars == <<sAt, current, need, sBuf, accepted, pollSet, stdinHup>>

\* Descriptors 0 to 2 are open from the start.  A client's socket is never
\* closed, so accept returns the next number every time.
ServerSocket == 3
SocketOf(c) ==
  ServerSocket + (CHOOSE i \in DOMAIN accepted : accepted[i] = c)
NextSocket == ServerSocket + Len(accepted) + 1
Accepted == Range(accepted)

ServerTypeOK ==
  /\ sAt \in {"POLL", "PAYLOAD", "SEND", "STOPPED", "EXITED"}
  /\ current \in Clients \cup {Nobody}
  /\ need \in Nat
  /\ sBuf \in Seq(Units)
  /\ accepted \in Seq(Clients)
  /\ IsPollSet(pollSet)
  /\ stdinHup \in BOOLEAN

ServerInit ==
  /\ sAt = "POLL" /\ current = Nobody /\ need = 0 /\ sBuf = <<>>
  /\ accepted = <<>>
  /\ pollSet = AddToPollSet(SetupPollSet, ServerSocket)
  /\ stdinHup = FALSE

ServerRuns == sAt \notin {"STOPPED", "EXITED"}

\* The sockets poll would report.
ServerReady ==
  (IF backlog # <<>> THEN {ServerSocket} ELSE {})
  \cup {SocketOf(c) : c \in {d \in Accepted : up[d] # <<>> \/ upEnd[d] # "OPEN"}}

Polled == PollCall(pollSet, ServerReady, stdinHup)
PolledClient(c) == sAt = "POLL" /\ c \in Accepted /\ Polled = SocketOf(c)

\* The process ends, and the kernel closes its sockets.
ServerEnds(how) ==
  /\ sAt' = how
  /\ CloseServerEnds(Accepted \cup Range(backlog))
  /\ current' = Nobody /\ need' = 0 /\ sBuf' = <<>>

-----------------------------------------------------------------------------
\* tcpAccept exits when there is no descriptor left.
AddNewSocket ==
  /\ sAt = "POLL" /\ Polled = ServerSocket
  /\ \/ /\ NextSocket < MAX_FD
        /\ accepted' = Append(accepted, Head(backlog))
        /\ backlog' = Tail(backlog)
        /\ pollSet' = AddToPollSet(pollSet, NextSocket)
        /\ UNCHANGED <<up, down, upEnd, downEnd, broken, sAt, current, need,
                       sBuf>>
     \/ /\ NextSocket >= MAX_FD
        /\ ServerEnds("EXITED")
        /\ UNCHANGED <<accepted, pollSet>>
  /\ UNCHANGED stdinHup

\* pollCall returns a zeroed entry: recv on standard input is an error.
ProcessStdin ==
  /\ sAt = "POLL" /\ Polled = STDIN_FILENO
  /\ ServerEnds("EXITED")
  /\ UNCHANGED <<accepted, pollSet, stdinHup>>

\* recvPDU returned 0: recvFromClient returns -1, processClient takes the
\* socket out of the poll set and leaves it open.
ClientClosed(c) ==
  /\ sAt' = "POLL" /\ current' = Nobody /\ need' = 0 /\ sBuf' = <<>>
  /\ pollSet' = RemoveFromPollSet(pollSet, SocketOf(c))

\* recvPDU's first recv.
RecvHeader_EndIsAnError(c) ==
  /\ PolledClient(c)
  /\ \/ /\ up[c] # <<>>
        /\ up' = [up EXCEPT ![c] = Tail(@)]
        /\ need' = Head(up[c]).len
        /\ sAt' = "PAYLOAD" /\ current' = c /\ sBuf' = <<>>
        /\ UNCHANGED <<backlog, down, upEnd, downEnd, broken, pollSet>>
     \/ /\ up[c] = <<>>
        /\ ServerEnds("EXITED")
        /\ UNCHANGED pollSet
  /\ UNCHANGED <<accepted, stdinHup>>
RecvHeader(c) ==
  /\ PolledClient(c)
  /\ \/ /\ up[c] # <<>>
        /\ up' = [up EXCEPT ![c] = Tail(@)]
        /\ need' = Head(up[c]).len
        /\ sAt' = "PAYLOAD" /\ current' = c /\ sBuf' = <<>>
        /\ UNCHANGED <<backlog, down, upEnd, downEnd, broken, pollSet>>
     \/ /\ up[c] = <<>> /\ upEnd[c] = "FIN"
        /\ ClientClosed(c)
        /\ UNCHANGED streamVars
     \/ /\ up[c] = <<>> /\ upEnd[c] = "RST"
        /\ ServerEnds("EXITED")
        /\ UNCHANGED pollSet
  /\ UNCHANGED <<accepted, stdinHup>>

\* sendPDU sends back as many units as recvPDU returned, to the same socket.
StartEcho(c, data) ==
  sAt' = "SEND" /\ sBuf' = Pdu(c, data) /\ UNCHANGED <<current, need, pollSet>>

\* recvPDU's second recv takes what is there, and returns when the payload is
\* complete or when an end cuts it short.
RecvPayload_WaitsForAll(c) ==
  /\ sAt = "PAYLOAD" /\ current = c
  /\ \/ /\ up[c] # <<>>
        /\ up' = [up EXCEPT ![c] = Leaves(@, sBuf, need)]
        /\ LET data == sBuf \o Takes(up[c], sBuf, need) IN
           IF Len(data) = need THEN StartEcho(c, data)
           ELSE sBuf' = data /\ UNCHANGED <<sAt, current, need, pollSet>>
        /\ UNCHANGED <<backlog, down, upEnd, downEnd, broken>>
     \/ /\ up[c] = <<>> /\ upEnd[c] = "FIN" /\ sBuf = <<>>
        /\ ClientClosed(c)
        /\ UNCHANGED streamVars
     \/ /\ up[c] = <<>> /\ upEnd[c] = "RST" /\ sBuf = <<>>
        /\ ServerEnds("EXITED")
        /\ UNCHANGED pollSet
  /\ UNCHANGED <<accepted, stdinHup>>
RecvPayload(c) ==
  /\ sAt = "PAYLOAD" /\ current = c
  /\ \/ /\ up[c] # <<>>
        /\ up' = [up EXCEPT ![c] = Leaves(@, sBuf, need)]
        /\ LET data == sBuf \o Takes(up[c], sBuf, need) IN
           IF Len(data) = need THEN StartEcho(c, data)
           ELSE sBuf' = data /\ UNCHANGED <<sAt, current, need, pollSet>>
        /\ UNCHANGED <<backlog, down, upEnd, downEnd, broken>>
     \/ /\ up[c] = <<>> /\ upEnd[c] # "OPEN" /\ sBuf # <<>>
        /\ StartEcho(c, sBuf)
        /\ UNCHANGED streamVars
     \/ /\ up[c] = <<>> /\ upEnd[c] = "FIN" /\ sBuf = <<>>
        /\ ClientClosed(c)
        /\ UNCHANGED streamVars
     \/ /\ up[c] = <<>> /\ upEnd[c] = "RST" /\ sBuf = <<>>
        /\ ServerEnds("EXITED")
        /\ UNCHANGED pollSet
  /\ UNCHANGED <<accepted, stdinHup>>

\* sendPDU's send: it waits for room, and fails on a connection that was reset.
SendToClient(c) ==
  /\ sAt = "SEND" /\ current = c
  /\ \/ /\ broken[c]
        /\ ServerEnds("EXITED")
     \/ /\ ~broken[c] /\ Len(down[c]) < Capacity
        /\ down' = [down EXCEPT ![c] = Append(@, Head(sBuf))]
        /\ sBuf' = Tail(sBuf)
        /\ IF Len(sBuf) = 1
           THEN sAt' = "POLL" /\ current' = Nobody /\ need' = 0
           ELSE UNCHANGED <<sAt, current, need>>
        /\ UNCHANGED <<backlog, up, upEnd, downEnd, broken>>
  /\ UNCHANGED <<accepted, pollSet, stdinHup>>

ServerNext ==
  \/ AddNewSocket \/ ProcessStdin
  \/ \E c \in Clients : RecvHeader(c) \/ RecvPayload(c) \/ SendToClient(c)

-----------------------------------------------------------------------------
(* The faults of the server's own side.                                    *)

ServerStopped ==
  /\ "stop" \in Faults /\ ServerRuns
  /\ ServerEnds("STOPPED")
  /\ UNCHANGED <<accepted, pollSet, stdinHup>>

StdinHangsUp ==
  /\ "hangup" \in Faults /\ ServerRuns /\ ~stdinHup
  /\ stdinHup' = TRUE
  /\ UNCHANGED <<streamVars, sAt, current, need, sBuf, accepted, pollSet>>
=============================================================================
