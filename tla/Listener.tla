------------------------------ MODULE Listener ------------------------------
(***************************************************************************)
(* project3's main server with all its rcopys: a request is a filename     *)
(* sent by an rcopy from one of its sockets; the main server forks a child *)
(* for each that arrives, and an rcopy that gets no answer closes its      *)
(* socket and asks again from a new one, so that several children of one   *)
(* rcopy may run at a time.  Transfer looks at one child and its rcopy in  *)
(* detail; here a transfer is a number of Rounds, in each of which the     *)
(* child sends data and waits for the acknowledgement, and the descriptors *)
(* and processes that requests cost are counted.                           *)
(*                                                                         *)
(* A socket has no other name than the request sent from it: no port is    *)
(* used again while something is on its way to it.                         *)
(***************************************************************************)
EXTENDS PollSet

CONSTANTS
  Rcopys,
  Existing,     \* the rcopys that ask for a file that is there
  TIMEOUT_MAX, Rounds,
  MAX_FD,       \* how many descriptors a process may have (RLIMIT_NOFILE)
  MAX_PROC,     \* how many children may be left unwaited for (RLIMIT_NPROC)
  Faults,       \* "loss": datagrams may be lost or damaged;
                \* "late": timers may expire while the other side is at work;
                \* "kill": the user may end rcopys;
                \* "hangup": the server's standard input may hang up
  NoRequest
ASSUME ListenerAssumption ==
  /\ IsFiniteSet(Rcopys) /\ Existing \subseteq Rcopys
  /\ TIMEOUT_MAX \in Nat \ {0} /\ Rounds \in Nat \ {0, 1}
  /\ MAX_FD \in Nat /\ MAX_FD > 3    \* udpServerSetup has found a descriptor
  /\ MAX_PROC \in Nat
  /\ Faults \subseteq {"loss", "late", "kill", "hangup"}

Requests == Rcopys \X (1 .. TIMEOUT_MAX)
ASSUME NoRequestAssumption == NoRequest \notin Requests

VARIABLES
  mainAt,     \* the main server's state; EXITED by exit(1), ENDED by STATE_KILL
  asker,      \* the request it is processing
  openFiles,  \* the files it has opened for children, and never closes
  stdinHup,   \* has the server's standard input hung up?
  childAt, childSocket,
  goodFile,   \* did fopen succeed?
  round,      \* the exchange a child is at
  timeout,    \* a child's timeouts
  rAt, attempt, rTimeout,
  got,        \* how many exchanges an rcopy has completed
  requests, answers, data, acks   \* what is on its way

mainVars == <<mainAt, asker, openFiles, stdinHup>>
childVars == <<childAt, childSocket, goodFile, round, timeout>>
rcopyVars == <<rAt, attempt, rTimeout, got>>
wire == <<requests, answers, data, acks>>
vars == <<mainVars, childVars, rcopyVars, wire>>

\* Descriptors 0 to 2 are open from the start.
MainSocket == 3
NextDescriptor == MainSocket + 1 + openFiles

TypeOK ==
  /\ mainAt \in {"WAIT_FILENAME", "PROCESS_FILENAME", "EXITED", "ENDED"}
  /\ asker \in Requests \cup {NoRequest}
  /\ openFiles \in Nat /\ NextDescriptor <= MAX_FD
  /\ stdinHup \in BOOLEAN
  /\ childAt \in [Requests -> {"NONE", "STARTED", "SENDING", "ENDED"}]
  /\ Cardinality({q \in Requests : childAt[q] # "NONE"}) <= MAX_PROC
  /\ childSocket \in [Requests -> 0 .. MAX_FD - 1]
  /\ goodFile \in [Requests -> BOOLEAN]
  /\ round \in [Requests -> 1 .. Rounds]
  /\ timeout \in [Requests -> 0 .. TIMEOUT_MAX]
  /\ rAt \in [Rcopys -> {"SEND_FILENAME", "WAIT_FOR_FILENAME_ACK",
       "RECEIVE_FIRST_DATA", "RECEIVE_DATA",
       "DONE", "NOT_FOUND", "GAVE_UP", "KILLED"}]
  /\ attempt \in [Rcopys -> 1 .. TIMEOUT_MAX]
  /\ rTimeout \in [Rcopys -> 0 .. TIMEOUT_MAX]
  /\ got \in [Rcopys -> 0 .. Rounds]
  /\ requests \subseteq Requests
  /\ answers \subseteq Requests \X BOOLEAN
  /\ data \subseteq Requests \X (1 .. Rounds)
  /\ acks \subseteq Requests \X (1 .. Rounds)

Init ==
  /\ mainAt = "WAIT_FILENAME" /\ asker = NoRequest
  /\ openFiles = 0 /\ stdinHup = FALSE
  /\ childAt = [q \in Requests |-> "NONE"]
  /\ childSocket = [q \in Requests |-> 0]
  /\ goodFile = [q \in Requests |-> FALSE]
  /\ round = [q \in Requests |-> 1] /\ timeout = [q \in Requests |-> 0]
  /\ rAt = [r \in Rcopys |-> "SEND_FILENAME"]
  /\ attempt = [r \in Rcopys |-> 1] /\ rTimeout = [r \in Rcopys |-> 0]
  /\ got = [r \in Rcopys |-> 0]
  /\ requests = {} /\ answers = {} /\ data = {} /\ acks = {}

MainRuns == mainAt \in {"WAIT_FILENAME", "PROCESS_FILENAME"}
ChildRuns(q) == childAt[q] \in {"STARTED", "SENDING"}
RcopyRuns(r) == rAt[r] \notin {"DONE", "NOT_FOUND", "GAVE_UP", "KILLED"}

\* A datagram d joins those under way, or is lost.
Send(under, d, underNext) ==
  underNext \in {under \cup {d}} \cup (IF "loss" \in Faults THEN {under} ELSE {})

-----------------------------------------------------------------------------
(* The main server.                                                        *)

MainPolled ==
  PollCall(AddToPollSet(SetupPollSet, MainSocket),
           IF requests # {} THEN {MainSocket} ELSE {}, stdinHup)

WaitFileName ==
  /\ mainAt = "WAIT_FILENAME"
  /\ \/ /\ MainPolled = MainSocket
        /\ asker' \in requests
        /\ requests' = requests \ {asker'}
        /\ mainAt' = "PROCESS_FILENAME"
     \/ /\ MainPolled = STDIN_FILENO
        /\ mainAt' = "ENDED"
        /\ UNCHANGED <<asker, requests>>
  /\ UNCHANGED <<openFiles, stdinHup, childVars, rcopyVars, answers, data, acks>>

\* fopen fails for a file that is not there, and when no descriptor is left.
Fopen(q) == q[1] \in Existing /\ NextDescriptor < MAX_FD

\* What socket() returns in the child that asker gets, 0 when it fails.
ChildDescriptor_MainClosed == MainSocket
ChildDescriptor == IF NextDescriptor' < MAX_FD THEN NextDescriptor' ELSE 0

\* processFileName up to fork.  A child that has ended stays a zombie.
ProcessFileName ==
  /\ mainAt = "PROCESS_FILENAME"
  /\ openFiles' = openFiles + (IF Fopen(asker) THEN 1 ELSE 0)
  /\ asker' = NoRequest
  /\ \/ /\ Cardinality({q \in Requests : childAt[q] # "NONE"}) < MAX_PROC
        /\ childAt' = [childAt EXCEPT ![asker] = "STARTED"]
        /\ goodFile' = [goodFile EXCEPT ![asker] = Fopen(asker)]
        /\ childSocket' = [childSocket EXCEPT ![asker] = ChildDescriptor]
        /\ mainAt' = "WAIT_FILENAME"
     \/ /\ Cardinality({q \in Requests : childAt[q] # "NONE"}) >= MAX_PROC
        /\ mainAt' = "EXITED"
        /\ UNCHANGED <<childAt, goodFile, childSocket>>
  /\ UNCHANGED <<stdinHup, round, timeout, rcopyVars, wire>>

-----------------------------------------------------------------------------
(* A child.                                                                *)

ChildEnds(q) ==
  /\ childAt' = [childAt EXCEPT ![q] = "ENDED"]
  /\ UNCHANGED <<round, timeout>>

\* Without a socket sendto fails and safeSendto exits, unless the library drops the
\* datagram: then sendto is not called, and the child goes on.
SendData(q, k) ==
  Send(data, <<q, k>>, data') /\ (childSocket[q] = 0 => data' = data)
ChildAnswers(q) ==
  /\ childAt[q] = "STARTED"
  /\ \/ /\ childSocket[q] = 0
        /\ ChildEnds(q)
        /\ UNCHANGED <<answers, data>>
     \/ /\ childSocket[q] = 0 /\ goodFile[q] /\ "loss" \in Faults
        /\ childAt' = [childAt EXCEPT ![q] = "SENDING"]
        /\ UNCHANGED <<round, timeout, answers, data>>
     \/ /\ childSocket[q] # 0 /\ ~goodFile[q]
        /\ Send(answers, <<q, FALSE>>, answers')
        /\ ChildEnds(q)
        /\ UNCHANGED data
     \/ /\ childSocket[q] # 0 /\ goodFile[q]
        /\ Send(answers, <<q, TRUE>>, answers')
        /\ SendData(q, 1)
        /\ childAt' = [childAt EXCEPT ![q] = "SENDING"]
        /\ UNCHANGED <<round, timeout>>
  /\ UNCHANGED <<mainVars, childSocket, goodFile, rcopyVars, requests, acks>>

\* addToPollSet(-1) writes in front of the table.
ChildPollSet(q) ==
  LET ps == RemoveFromPollSet(AddToPollSet(SetupPollSet, MainSocket), MainSocket) IN
  IF childSocket[q] = 0 THEN ps ELSE AddToPollSet(ps, childSocket[q])
ChildPolled(q, arrived) ==
  PollCall(ChildPollSet(q), IF arrived THEN {childSocket[q]} ELSE {}, stdinHup)

\* Whatever descriptor pollCall has named, processRrSrej waits in recvfrom.
\* An old acknowledgement resets the timeouts, but not in lastData.
ChildReceives(q) ==
  /\ childAt[q] = "SENDING"
  /\ \E k \in 1 .. Rounds :
       /\ <<q, k>> \in acks
       /\ acks' = acks \ {<<q, k>>}
       /\ \/ /\ k = round[q] /\ k = Rounds
             /\ ChildEnds(q)
             /\ UNCHANGED data
          \/ /\ k = round[q] /\ k < Rounds
             /\ round' = [round EXCEPT ![q] = @ + 1]
             /\ timeout' = [timeout EXCEPT ![q] = 0]
             /\ SendData(q, k + 1)
             /\ UNCHANGED childAt
          \/ /\ k < round[q]
             /\ timeout' = [timeout EXCEPT ![q] = IF round[q] = Rounds THEN @ ELSE 0]
             /\ UNCHANGED <<childAt, round, data>>
  /\ UNCHANGED <<mainVars, childSocket, goodFile, rcopyVars, requests, answers>>

\* Without a socket recvfrom fails, and safeRecvfrom exits.
RecvfromFails(q) ==
  /\ childAt[q] = "SENDING" /\ childSocket[q] = 0
  /\ ChildPolled(q, FALSE) # TimedOut
  /\ ChildEnds(q)
  /\ UNCHANGED <<mainVars, childSocket, goodFile, rcopyVars, wire>>

AckMayCome(q) ==
  \/ \E k \in 1 .. Rounds : <<q, k>> \in acks
  \/ /\ RcopyRuns(q[1]) /\ attempt[q[1]] = q[2]
     /\ \E k \in 1 .. Rounds : <<q, k>> \in data

\* sendAndReceiveData gives up after one timeout more than lastData.
TimeoutsAllowed_OneMore(q) ==
  IF round[q] = Rounds THEN TIMEOUT_MAX ELSE TIMEOUT_MAX + 1
TimeoutsAllowed(q) == IF round[q] = Rounds THEN TIMEOUT_MAX - 1 ELSE TIMEOUT_MAX
TimeoutsOf_NotCounted(q) == timeout[q]
TimeoutsOf(q) == timeout[q] + 1
ChildTimesOut(q) ==
  /\ childAt[q] = "SENDING"
  /\ ChildPolled(q, ~("late" \in Faults) /\ AckMayCome(q)) = TimedOut
  /\ \/ /\ TimeoutsOf(q) > TimeoutsAllowed(q) \/ childSocket[q] = 0
        /\ ChildEnds(q) /\ UNCHANGED data
     \/ /\ TimeoutsOf(q) <= TimeoutsAllowed(q)
        /\ timeout' = [timeout EXCEPT ![q] = TimeoutsOf(q)]
        /\ SendData(q, round[q])
        /\ UNCHANGED <<childAt, round>>
  /\ UNCHANGED <<mainVars, childSocket, goodFile, rcopyVars, requests, answers,
                 acks>>

-----------------------------------------------------------------------------
(* An rcopy.                                                               *)

Socket(r) == <<r, attempt[r]>>

SendFileName(r) ==
  /\ rAt[r] = "SEND_FILENAME"
  /\ rAt' = [rAt EXCEPT ![r] = "WAIT_FOR_FILENAME_ACK"]
  /\ Send(requests, Socket(r), requests')
  /\ UNCHANGED <<mainVars, childVars, attempt, rTimeout, got, answers, data, acks>>

\* SEND_FILENAME_TIMEOUT: the next name goes out from a new socket.
AskAgain_OnceMore(r) ==
  /\ rTimeout' = [rTimeout EXCEPT ![r] = @ + 1]
  /\ IF rTimeout[r] + 1 > TIMEOUT_MAX
     THEN rAt' = [rAt EXCEPT ![r] = "GAVE_UP"] /\ UNCHANGED attempt
     ELSE /\ rAt' = [rAt EXCEPT ![r] = "SEND_FILENAME"]
          /\ attempt' = [attempt EXCEPT ![r] = @ + 1]
AskAgain(r) ==
  /\ rTimeout' = [rTimeout EXCEPT ![r] = @ + 1]
  /\ IF rTimeout[r] + 1 >= TIMEOUT_MAX
     THEN rAt' = [rAt EXCEPT ![r] = "GAVE_UP"] /\ UNCHANGED attempt
     ELSE /\ rAt' = [rAt EXCEPT ![r] = "SEND_FILENAME"]
          /\ attempt' = [attempt EXCEPT ![r] = @ + 1]

\* Timers: the answer, or the first data, may still come.
AnswerMayCome(r) ==
  LET q == Socket(r) IN
  \/ q \in requests /\ MainRuns
  \/ asker = q \/ childAt[q] = "STARTED"
  \/ \E good \in BOOLEAN : <<q, good>> \in answers
DataMayCome(r) ==
  LET q == Socket(r) IN
  \/ \E k \in 1 .. Rounds : <<q, k>> \in data \/ <<q, k>> \in acks
  \/ childAt[q] = "SENDING" /\ ~stdinHup

WaitForFileNameAck(r) ==
  /\ rAt[r] = "WAIT_FOR_FILENAME_ACK"
  /\ \E good \in BOOLEAN :
       /\ <<Socket(r), good>> \in answers
       /\ answers' = answers \ {<<Socket(r), good>>}
       /\ rAt' = [rAt EXCEPT ![r] = IF good THEN "RECEIVE_FIRST_DATA" ELSE "NOT_FOUND"]
  /\ UNCHANGED <<mainVars, childVars, attempt, rTimeout, got, requests, data, acks>>

\* Data instead of the answer, or a damaged answer, is a timeout as well.
FileNameAckTimeout(r) ==
  /\ rAt[r] = "WAIT_FOR_FILENAME_ACK"
  /\ \/ ~AnswerMayCome(r) \/ "late" \in Faults
     \/ /\ "loss" \in Faults
        /\ \E good \in BOOLEAN : <<Socket(r), good>> \in answers
  /\ AskAgain(r)
  /\ UNCHANGED <<mainVars, childVars, got, wire>>

\* Data is acknowledged, new or not.
RecvData(r) ==
  /\ rAt[r] \in {"RECEIVE_FIRST_DATA", "RECEIVE_DATA"}
  /\ \E k \in 1 .. Rounds :
       /\ <<Socket(r), k>> \in data
       /\ data' = data \ {<<Socket(r), k>>}
       /\ got' = [got EXCEPT ![r] = IF k = @ + 1 THEN k ELSE @]
       /\ Send(acks, <<Socket(r), k>>, acks')
       /\ rAt' = [rAt EXCEPT ![r] = IF got'[r] = Rounds THEN "DONE" ELSE "RECEIVE_DATA"]
  /\ UNCHANGED <<mainVars, childVars, attempt, rTimeout, requests, answers>>

BadData(r) ==
  /\ "loss" \in Faults
  /\ rAt[r] \in {"RECEIVE_FIRST_DATA", "RECEIVE_DATA"}
  /\ \E k \in 1 .. Rounds :
       <<Socket(r), k>> \in data /\ data' = data \ {<<Socket(r), k>>}
  /\ rAt' = [rAt EXCEPT ![r] = "RECEIVE_DATA"]
  /\ UNCHANGED <<mainVars, childVars, attempt, rTimeout, got, requests, answers,
                 acks>>

\* Only an rcopy that waits for its first data asks again.
DataTimeoutOf_AsksAgain(r) == AskAgain(r)
DataTimeoutOf_NotCounted(r) ==
  IF rAt[r] = "RECEIVE_FIRST_DATA" THEN AskAgain(r)
  ELSE UNCHANGED <<rTimeout, rAt, attempt>>
DataTimeoutOf(r) ==
  IF rAt[r] = "RECEIVE_FIRST_DATA" THEN AskAgain(r)
  ELSE /\ rTimeout' = [rTimeout EXCEPT ![r] = @ + 1]
       /\ rAt' = [rAt EXCEPT ![r] =
            IF rTimeout[r] + 1 >= TIMEOUT_MAX THEN "GAVE_UP" ELSE @]
       /\ UNCHANGED attempt
DataTimeout(r) ==
  /\ rAt[r] \in {"RECEIVE_FIRST_DATA", "RECEIVE_DATA"}
  /\ ~DataMayCome(r) \/ "late" \in Faults
  /\ DataTimeoutOf(r)
  /\ UNCHANGED <<mainVars, childVars, got, wire>>

-----------------------------------------------------------------------------
Kill(r) ==
  /\ "kill" \in Faults /\ RcopyRuns(r)
  /\ rAt' = [rAt EXCEPT ![r] = "KILLED"]
  /\ UNCHANGED <<mainVars, childVars, attempt, rTimeout, got, wire>>

StdinHangsUp ==
  /\ "hangup" \in Faults /\ ~stdinHup
  /\ stdinHup' = TRUE
  /\ UNCHANGED <<mainAt, asker, openFiles, childVars, rcopyVars, wire>>

MainNext == WaitFileName \/ ProcessFileName
ChildNext(q) ==
  ChildAnswers(q) \/ ChildReceives(q) \/ RecvfromFails(q) \/ ChildTimesOut(q)
RcopyNext(r) ==
  \/ SendFileName(r) \/ WaitForFileNameAck(r) \/ FileNameAckTimeout(r)
  \/ RecvData(r) \/ BadData(r) \/ DataTimeout(r)

Next ==
  \/ MainNext \/ StdinHangsUp
  \/ \E q \in Requests : ChildNext(q)
  \/ \E r \in Rcopys : RcopyNext(r) \/ Kill(r)

Spec == Init /\ [][Next]_vars

\* Every process goes on; the user and the faults need not.
FairSpec ==
  /\ Spec /\ WF_vars(MainNext)
  /\ \A q \in Requests : WF_vars(ChildNext(q))
  /\ \A r \in Rcopys : WF_vars(RcopyNext(r))
-----------------------------------------------------------------------------
(* Properties.                                                             *)

\* "file not found" is never said of a file that is there: when fopen fails for
\* want of a descriptor, socket() fails in the child as well, and nothing is
\* said (processFileName).
NotFoundIsTrue == \A r \in Rcopys : rAt[r] = "NOT_FOUND" => r \notin Existing

\* Of the children of one rcopy at most one gets acknowledgements, although
\* several may send (rcopy.c:596).
OneChildAcknowledged ==
  \A q, q2 \in Requests :
    round[q] > 1 /\ round[q2] > 1 /\ q[1] = q2[1] => q = q2

\* The inductive invariant from which the two follow.
RetriesLeft ==
  \A r \in Rcopys :
    /\ attempt[r] <= rTimeout[r] + 1
    /\ RcopyRuns(r) => rTimeout[r] < TIMEOUT_MAX
AnswersTrue ==
  \A q \in Requests : q[1] \in Existing =>
    /\ childAt[q] = "STARTED" /\ childSocket[q] # 0 => goodFile[q]
    /\ <<q, FALSE>> \notin answers
Acknowledged ==
  \A q \in Requests :
    round[q] > 1 \/ (\E k \in 1 .. Rounds : <<q, k>> \in acks) =>
      /\ attempt[q[1]] = q[2]
      /\ rAt[q[1]] \in {"RECEIVE_DATA", "DONE", "GAVE_UP", "KILLED"}
\* What every step of the main server, the children and the rcopys keeps: who
\* has asked, how many retries are left, that answers are true, and that only
\* the current socket of an rcopy has ever acknowledged (stateMachine).
IInv ==
  /\ TypeOK
  /\ mainAt = "PROCESS_FILENAME" => asker \in Requests
  /\ RetriesLeft /\ AnswersTrue /\ NotFoundIsTrue /\ Acknowledged

\* Every child ends, whether its rcopy is there, gone or at another socket
\* (sendAndReceiveData, lastData), unless the server's standard input has hung
\* up, of which ChildPolled tells.
ChildrenEnd == []<>(stdinHup \/ \A q \in Requests : ~ChildRuns(q))

\* Every rcopy ends (stateMachine, timeout).
RcopysEnd == <>(\A r \in Rcopys : ~RcopyRuns(r))
=============================================================================
