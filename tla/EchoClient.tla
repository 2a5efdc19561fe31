----------------------------- MODULE EchoClient -----------------------------
(***************************************************************************)
(* p2/cclient.c: a process that polls standard input and its socket, sends *)
(* what the user types and prints what comes back.                         *)
(*                                                                         *)
(* processStdin takes a chunk at a time: a line, or 1023 characters of a   *)
(* longer one.  getchar reads ahead: one read() of standard input brings   *)
(* the chunks of a whole line (of many lines, when input is a pipe) into   *)
(* stdio's buffer, where poll does not see them.  When a read brings only  *)
(* a piece of a chunk (from a pipe, or ended by ^D), getchar waits for the *)
(* rest, and the client sees nothing of its socket.                        *)
(*                                                                         *)
(* cAt is where a client is:                                               *)
(*   START       before connect has returned                               *)
(*   POLL        in pollCall                                               *)
(*   READ        in processStdin's getchar, in the middle of a chunk       *)
(*   SEND        in sendPDU's send                                         *)
(*   PAYLOAD     in recvPDU's second recv                                  *)
(*   TERMINATED  ended by exit(0), "Server terminated"                     *)
(*   FAILED      ended by exit(-1), or by SIGPIPE                          *)
(*   KILLED      ended by ^C                                               *)
(***************************************************************************)
EXTENDS EchoServer

CONSTANTS
  ReadSizes,  \* how many chunks a read() of standard input may complete
  Typists     \* a bound: the clients whose users type anything
ASSUME ClientAssumption == ReadSizes \subseteq Nat

VARIABLES
  cAt,
  tty,      \* how many chunks each coming read() of standard input will complete
  stdio,    \* how many chunks wait in stdio's buffer
  stdinEof, \* is standard input a file or a pipe that has come to its end?
  typed,    \* how many chunks the user has entered
  sent,     \* how many messages the client has begun to send
  cNeed,    \* how many payload units the PDU under receipt has
  cBuf,     \* SEND: the units still to send; PAYLOAD: the units received
  got       \* the messages printed, a truncated one as CutShort

clientVars == <<cAt, tty, stdio, stdinEof, typed, sent, cNeed, cBuf, got>>

CutShort == 0

ClientTypeOK ==
  /\ cAt \in [Clients -> {"START", "POLL", "READ", "SEND", "PAYLOAD",
                          "TERMINATED", "FAILED", "KILLED"}]
  /\ tty \in [Clients -> Seq(ReadSizes)]
  /\ stdio \in [Clients -> Nat]
  /\ stdinEof \in [Clients -> BOOLEAN]
  /\ typed \in [Clients -> 0 .. MaxMsgs] /\ sent \in [Clients -> 0 .. MaxMsgs]
  /\ cNeed \in [Clients -> Nat]
  /\ cBuf \in [Clients -> Seq(Units)]
  /\ got \in [Clients -> Seq(0 .. MaxMsgs)]

ClientInit ==
  /\ cAt = [c \in Clients |-> "START"]
  /\ tty = [c \in Clients |-> <<>>] /\ stdio = [c \in Clients |-> 0]
  /\ stdinEof = [c \in Clients |-> FALSE]
  /\ typed = [c \in Clients |-> 0] /\ sent = [c \in Clients |-> 0]
  /\ cNeed = [c \in Clients |-> 0] /\ cBuf = [c \in Clients |-> <<>>]
  /\ got = [c \in Clients |-> <<>>]

Alive(c) == cAt[c] \in {"POLL", "READ", "SEND", "PAYLOAD"}
Gone(c) == cAt[c] \in {"TERMINATED", "FAILED", "KILLED"}

inputVars == <<tty, stdio, stdinEof, typed>>

Goto(c, at) == cAt' = [cAt EXCEPT ![c] = at]
Hold(c, n, units) ==
  cNeed' = [cNeed EXCEPT ![c] = n] /\ cBuf' = [cBuf EXCEPT ![c] = units]
ClientEnds(c, how) == Goto(c, how) /\ Hold(c, 0, <<>>)

-----------------------------------------------------------------------------
\* tcpClientSetup: the kernel completes the connection before accept does.
Connect(c) ==
  /\ cAt[c] = "START"
  /\ \/ /\ ServerRuns /\ Len(backlog) < LISTEN_BACKLOG
        /\ backlog' = Append(backlog, c)
        /\ Goto(c, "POLL")
        /\ UNCHANGED <<up, down, upEnd, downEnd, broken>>
     \/ /\ ~ServerRuns
        /\ Goto(c, "FAILED")
        /\ UNCHANGED streamVars
  /\ UNCHANGED <<inputVars, sent, cNeed, cBuf, got>>

\* clientControl's poll set never changes.
ClientSocket == 3
ClientPollSet_SocketOnly == AddToPollSet(SetupPollSet, ClientSocket)
ClientPollSet ==
  AddToPollSet(AddToPollSet(SetupPollSet, STDIN_FILENO), ClientSocket)
ClientReady(c) ==
  (IF (tty[c] # <<>> \/ stdinEof[c]) /\ sent[c] < MaxMsgs
   THEN {STDIN_FILENO} ELSE {})
  \cup (IF down[c] # <<>> \/ downEnd[c] # "OPEN" THEN {ClientSocket} ELSE {})
ClientPolled(c) == PollCall(ClientPollSet, ClientReady(c), FALSE)

\* clientControl is in processStdin, which takes a chunk.
InProcessStdin(c) ==
  /\ sent[c] < MaxMsgs
  /\ cAt[c] = "READ" \/ (cAt[c] = "POLL" /\ ClientPolled(c) = STDIN_FILENO)

\* getchar reads only when stdio's buffer is empty.  A read that ends no chunk:
\* getchar will wait for the next.
ReadPiece(c) ==
  /\ InProcessStdin(c)
  /\ stdio[c] = 0 /\ tty[c] # <<>> /\ Head(tty[c]) = 0
  /\ tty' = [tty EXCEPT ![c] = Tail(@)]
  /\ Goto(c, "READ")
  /\ UNCHANGED <<streamVars, stdio, stdinEof, typed, sent, cNeed, cBuf, got>>

\* The chunk is whole.  At the end of the input getchar returns EOF, which is not
\* '\n' and fills a message.
GetChunk(c) ==
  \/ /\ stdio[c] > 0
     /\ stdio' = [stdio EXCEPT ![c] = @ - 1]
     /\ UNCHANGED tty
  \/ /\ stdio[c] = 0 /\ tty[c] # <<>> /\ Head(tty[c]) > 0
     /\ stdio' = [stdio EXCEPT ![c] = Head(tty[c]) - 1]
     /\ tty' = [tty EXCEPT ![c] = Tail(@)]
  \/ /\ stdio[c] = 0 /\ tty[c] = <<>> /\ stdinEof[c]
     /\ UNCHANGED <<stdio, tty>>

ProcessInput(c) ==
  /\ InProcessStdin(c)
  /\ GetChunk(c)
  /\ sent' = [sent EXCEPT ![c] = @ + 1]
  /\ Hold(c, 0, Pdu(c, Payload(c, sent[c] + 1)))
  /\ Goto(c, "SEND")
  /\ UNCHANGED <<streamVars, stdinEof, typed, got>>

\* sendToServer's send.
SendToServer(c) ==
  /\ cAt[c] = "SEND"
  /\ \/ /\ broken[c]
        /\ ClientEnds(c, "FAILED")
        /\ UNCHANGED streamVars
     \/ /\ ~broken[c] /\ Len(up[c]) < Capacity
        /\ up' = [up EXCEPT ![c] = Append(@, Head(cBuf[c]))]
        /\ Hold(c, 0, Tail(cBuf[c]))
        /\ Goto(c, IF Len(cBuf[c]) = 1 THEN "POLL" ELSE "SEND")
        /\ UNCHANGED <<backlog, down, upEnd, downEnd, broken>>
  /\ UNCHANGED <<inputVars, sent, got>>

-----------------------------------------------------------------------------
(* processMsgFromServer.                                                   *)

RecvFails(c) ==
  /\ down[c] = <<>> /\ downEnd[c] = "RST"
  /\ ClientEnds(c, "FAILED")
  /\ UNCHANGED <<streamVars, got>>

ServerTerminated_Ignored(c) ==
  /\ down[c] = <<>> /\ downEnd[c] = "FIN"
  /\ Goto(c, "POLL") /\ Hold(c, 0, <<>>)
  /\ UNCHANGED <<streamVars, got>>
ServerTerminated(c) ==
  /\ down[c] = <<>> /\ downEnd[c] = "FIN"
  /\ ClientEnds(c, "TERMINATED")
  /\ UNCHANGED <<streamVars, got>>

MsgFromServer(c) ==
  /\ cAt[c] = "POLL" /\ ClientPolled(c) = ClientSocket
  /\ \/ /\ down[c] # <<>>
        /\ down' = [down EXCEPT ![c] = Tail(@)]
        /\ Hold(c, Head(down[c]).len, <<>>)
        /\ Goto(c, "PAYLOAD")
        /\ UNCHANGED <<backlog, up, upEnd, downEnd, broken, got>>
     \/ RecvFails(c)
     \/ ServerTerminated(c)
  /\ UNCHANGED <<inputVars, sent>>

\* The message a whole payload is.
MessageOf(c, data) ==
  IF \E m \in 1 .. MaxMsgs : data = Payload(c, m)
  THEN CHOOSE m \in 1 .. MaxMsgs : data = Payload(c, m) ELSE CutShort
PrintMessage(c, data) ==
  /\ got' = [got EXCEPT ![c] = Append(@, MessageOf(c, data))]
  /\ Goto(c, "POLL") /\ Hold(c, 0, <<>>)

RecvMessage(c) ==
  /\ cAt[c] = "PAYLOAD"
  /\ \/ /\ down[c] # <<>>
        /\ down' = [down EXCEPT ![c] = Leaves(@, cBuf[c], cNeed[c])]
        /\ LET data == cBuf[c] \o Takes(down[c], cBuf[c], cNeed[c]) IN
           IF Len(data) = cNeed[c] THEN PrintMessage(c, data)
           ELSE Hold(c, cNeed[c], data) /\ UNCHANGED <<cAt, got>>
        /\ UNCHANGED <<backlog, up, upEnd, downEnd, broken>>
     \/ /\ cBuf[c] # <<>> /\ down[c] = <<>> /\ downEnd[c] # "OPEN"
        /\ PrintMessage(c, cBuf[c])
        /\ UNCHANGED streamVars
     \/ cBuf[c] = <<>> /\ RecvFails(c)
     \/ cBuf[c] = <<>> /\ ServerTerminated(c)
  /\ UNCHANGED <<inputVars, sent>>

ClientNext(c) ==
  \/ Connect(c) \/ ReadPiece(c) \/ ProcessInput(c) \/ SendToServer(c)
  \/ MsgFromServer(c) \/ RecvMessage(c)

-----------------------------------------------------------------------------
(* The user.                                                               *)

\* Bounds: a mere piece of a chunk comes alone, to a client that polls and has not
\* sent all its messages.
TypeLine(c) ==
  /\ c \in Typists /\ Alive(c) /\ ~stdinEof[c]
  /\ \E n \in ReadSizes :
       /\ typed[c] + n <= MaxMsgs
       /\ n = 0 => tty[c] = <<>> /\ cAt[c] = "POLL" /\ sent[c] < MaxMsgs
       /\ typed' = [typed EXCEPT ![c] = @ + n]
       /\ tty' = [tty EXCEPT ![c] = Append(@, n)]
  /\ UNCHANGED <<streamVars, stdio, stdinEof, cAt, sent, cNeed, cBuf, got>>

InputEnds(c) ==
  /\ "eof" \in Faults /\ c \in Typists /\ Alive(c) /\ ~stdinEof[c]
  /\ stdinEof' = [stdinEof EXCEPT ![c] = TRUE]
  /\ UNCHANGED <<streamVars, tty, stdio, typed, cAt, sent, cNeed, cBuf, got>>

KillClient(c) ==
  /\ "kill" \in Faults /\ Alive(c)
  /\ ClientEnds(c, "KILLED")
  /\ CloseClientEnd(c)
  /\ UNCHANGED <<inputVars, sent, got>>
=============================================================================
