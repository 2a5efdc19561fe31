-------------------------------- MODULE Echo --------------------------------
(***************************************************************************)
(* p2 as a whole: the server, its clients, their users and the connections *)
(* between them.                                                           *)
(***************************************************************************)
EXTENDS EchoClient

vars == <<streamVars, serverVars, clientVars>>

TypeOK == StreamTypeOK /\ ServerTypeOK /\ ClientTypeOK

Init == StreamInit /\ ServerInit /\ ClientInit

\* The kernels' resets.
Resets(c) ==
  \/ /\ cAt[c] = "KILLED" /\ ServerRuns
     /\ ResetServerEnd(c)
  \/ ~ServerRuns /\ Alive(c) /\ downEnd[c] # "OPEN" /\ ResetClientEnd(c)

ServerStep == ServerNext /\ UNCHANGED clientVars
ClientStep(c) == ClientNext(c) /\ UNCHANGED serverVars
ResetStep(c) == Resets(c) /\ UNCHANGED <<serverVars, clientVars>>
UserStep(c) ==
  (TypeLine(c) \/ InputEnds(c) \/ KillClient(c)) /\ UNCHANGED serverVars
FaultStep == (ServerStopped \/ StdinHangsUp) /\ UNCHANGED clientVars

Next ==
  \/ ServerStep \/ FaultStep
  \/ \E c \in Clients : ClientStep(c) \/ ResetStep(c) \/ UserStep(c)

Spec == Init /\ [][Next]_vars

\* The two programs and the kernels go on; users and faults need not.
FairSpec ==
  /\ Spec /\ WF_vars(ServerStep)
  /\ \A c \in Clients : WF_vars(ClientStep(c)) /\ WF_vars(ResetStep(c))
-----------------------------------------------------------------------------
(* Safety.                                                                 *)

\* p2 implements EchoService: framing is never lost, no message goes to
\* another client, is lost between two others or comes twice (recvPDU, sendPDU).
ES == INSTANCE EchoService WITH echoed <- got, up <- ServerRuns
ImplementsEchoService == ES!Spec

\* The server ends of itself only because of a client killed with data still
\* under way to it, of too many descriptors or of its standard input: a client
\* that leaves with nothing outstanding does not hurt the others.
ServerEndsForACause ==
  sAt = "EXITED" =>
    \/ \E c \in Clients : cAt[c] = "KILLED" /\ broken[c]
    \/ NextSocket >= MAX_FD
    \/ stdinHup

\* A client that is alive and accepted is watched by the server's next poll
\* (addToPollSet, growPollSet, processClient).
OpenClientsWatched ==
  \A c \in Accepted : Alive(c) => SocketOf(c) \in Watched(pollSet)

\* The inductive invariant from which the last two follow.
ConnectionTypes ==
  /\ sAt \in {"POLL", "PAYLOAD", "SEND", "STOPPED", "EXITED"}
  /\ accepted \in Seq(Clients) /\ backlog \in Seq(Clients)
  /\ IsPollSet(pollSet) /\ stdinHup \in BOOLEAN
  /\ upEnd \in [Clients -> Ends] /\ broken \in [Clients -> BOOLEAN]
  /\ cAt \in [Clients -> {"START", "POLL", "READ", "SEND", "PAYLOAD",
                          "TERMINATED", "FAILED", "KILLED"}]
EndsKnown ==
  \A c \in Clients :
    /\ upEnd[c] # "OPEN" => cAt[c] = "KILLED"
    /\ upEnd[c] = "RST" => broken[c]
    /\ ServerRuns /\ broken[c] => cAt[c] = "KILLED"
AcceptedConnected ==
  /\ \A c \in Accepted \cup Range(backlog) : cAt[c] # "START"
  /\ sAt \in {"PAYLOAD", "SEND"} => current \in Accepted
AcceptedWatched ==
  \A i \in DOMAIN accepted :
    Alive(accepted[i]) => ServerSocket + i \in Watched(pollSet)
\* What every step keeps: a connection has ended or is reset only when its client
\* was killed, so that no live client leaves the poll set, and descriptor 0 never
\* enters it (processClient, recvFromClient, addToPollSet).
IInv ==
  /\ ConnectionTypes /\ EndsKnown /\ AcceptedConnected /\ AcceptedWatched
  /\ ServerSocket \in Watched(pollSet) /\ STDIN_FILENO \notin Watched(pollSet)
  /\ ServerEndsForACause
-----------------------------------------------------------------------------
(* Liveness.                                                               *)

\* Client c waits for its user to finish a chunk.
InGetchar(c) == cAt[c] = "READ" /\ tty[c] = <<>> /\ ~stdinEof[c]

\* The server waits for client c to receive, which waits for the server to receive,
\* or for its user: sends block, and while they do neither program reads
\* (lab2.c:30, cclient.c:88).
BothWait(c) ==
  /\ sAt = "SEND" /\ current = c /\ Len(down[c]) = Capacity /\ ~broken[c]
  /\ \/ cAt[c] = "SEND" /\ Len(up[c]) = Capacity
     \/ InGetchar(c)
SomeWait == \E c \in Clients : BothWait(c)

\* Again and again all that a client has sent is back, so that each message of
\* a client that stays comes back (processClient, recvFromClient), unless it or the
\* server is held as BothWait says, or the user lets it wait in getchar.
EveryMessageEchoed ==
  \A c \in Clients : []<>
    (Len(got[c]) = sent[c] \/ ~Alive(c) \/ ~ServerRuns \/ InGetchar(c) \/ SomeWait)

\* The server comes back to pollCall: a client holds it only when both directions
\* of its connection are full, or when it is full and the client is in getchar.
ServerReturns == []<>(sAt \notin {"PAYLOAD", "SEND"} \/ SomeWait)

\* When the server has ended, every client notices and ends, or waits for its user
\* before it can notice.
ClientsFollow ==
  \A c \in Clients : ~ServerRuns ~> (Gone(c) \/ InGetchar(c))

\* Again and again all that a user has typed is sent (clientControl), but for the
\* chunks that stdio has read ahead.
InputIsSent ==
  \A c \in Clients : []<>(sent[c] + stdio[c] >= typed[c] \/ ~Alive(c) \/ SomeWait)
=============================================================================
