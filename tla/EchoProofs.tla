----------------------------- MODULE EchoProofs -----------------------------
(***************************************************************************)
(* Proofs about pollLib's table and about the PDU server, and that all     *)
(* variables of p2's programs keep their types, for any number of clients, *)
(* of descriptors and of table entries, any sizes of messages and buffers, *)
(* and all faults.                                                         *)
(***************************************************************************)
EXTENDS Echo, FiniteSetTheorems, SequenceTheorems, NaturalsInduction,
        WellFoundedInduction, TLAPS

-----------------------------------------------------------------------------
(* The poll set.                                                           *)

LEMMA IntervalSize ==
  ASSUME NEW n \in Nat
  PROVE  IsFiniteSet(0 .. n - 1) /\ Cardinality(0 .. n - 1) = n
BY FS_Interval

\* A table of n entries, of which those from max on are not watched, is a poll set.
LEMMA PollSetIntro ==
  ASSUME NEW n \in Nat, NEW ps \in [watched : [0 .. n - 1 -> BOOLEAN], max : 0 .. n],
         \A i \in 0 .. n - 1 : ps.watched[i] => i < ps.max
  PROVE  IsPollSet(ps) /\ CurrentPollSetSize(ps) = n
BY IntervalSize DEF IsPollSet, CurrentPollSetSize

LEMMA PollSetElim ==
  ASSUME NEW ps, IsPollSet(ps)
  PROVE  LET n == CurrentPollSetSize(ps) IN
         /\ n \in Nat
         /\ ps \in [watched : [0 .. n - 1 -> BOOLEAN], max : 0 .. n]
         /\ \A i \in 0 .. n - 1 : ps.watched[i] => i < ps.max
         /\ Watched(ps) = {i \in 0 .. n - 1 : ps.watched[i]}
<1>1. CurrentPollSetSize(ps) \in Nat
  BY FS_CardinalityType DEF IsPollSet, CurrentPollSetSize
<1> QED BY <1>1 DEF IsPollSet, Watched

LEMMA TableUpdate ==
  ASSUME NEW W, NEW M, NEW ps \in [watched : W, max : M], NEW V, NEW w \in V,
         NEW N, NEW m \in N
  PROVE  /\ [ps EXCEPT !.watched = w, !.max = m] \in [watched : V, max : N]
         /\ [ps EXCEPT !.watched = w, !.max = m].watched = w
         /\ [ps EXCEPT !.watched = w, !.max = m].max = m
OBVIOUS

LEMMA SetupPollSetLemma == IsPollSet(SetupPollSet) /\ Watched(SetupPollSet) = {}
<1>1. /\ SetupPollSet \in [watched : [0 .. POLL_SET_SIZE - 1 -> BOOLEAN],
                           max : 0 .. POLL_SET_SIZE]
      /\ \A i \in 0 .. POLL_SET_SIZE - 1 : ~SetupPollSet.watched[i]
  BY PollSetSizeAssumption DEF SetupPollSet
<1>2. Watched(SetupPollSet) = {}
  BY DEF SetupPollSet, Watched
<1> QED BY <1>1, <1>2, PollSetIntro, PollSetSizeAssumption

\* Growing makes room and keeps what is watched.
LEMMA GrowPollSetLemma ==
  ASSUME NEW ps, IsPollSet(ps), NEW n \in Nat, n >= CurrentPollSetSize(ps)
  PROVE  /\ IsPollSet(GrowPollSet(ps, n))
         /\ CurrentPollSetSize(GrowPollSet(ps, n)) = n
         /\ Watched(GrowPollSet(ps, n)) = Watched(ps)
<1> DEFINE size == CurrentPollSetSize(ps)
           w == [i \in 0 .. n - 1 |-> i \in DOMAIN ps.watched /\ ps.watched[i]]
           grown == [ps EXCEPT !.watched = w, !.max = ps.max]
<1>1. /\ size \in Nat /\ n >= size
      /\ ps \in [watched : [0 .. size - 1 -> BOOLEAN], max : 0 .. size]
      /\ \A i \in 0 .. size - 1 : ps.watched[i] => i < ps.max
      /\ Watched(ps) = {i \in 0 .. size - 1 : ps.watched[i]}
  BY PollSetElim
<1> HIDE DEF size
<1>2. w \in [0 .. n - 1 -> BOOLEAN] /\ ps.max \in 0 .. n
  BY <1>1
<1>3. /\ grown \in [watched : [0 .. n - 1 -> BOOLEAN], max : 0 .. n]
      /\ grown.watched = w /\ grown.max = ps.max
  BY <1>1, <1>2, TableUpdate
<1>4. GrowPollSet(ps, n) = grown
  BY <1>1 DEF GrowPollSet
<1>5. \A i \in 0 .. n - 1 : w[i] <=> i \in Watched(ps)
  BY <1>1
<1> HIDE DEF w, grown
<1>6. IsPollSet(grown) /\ CurrentPollSetSize(grown) = n
  BY <1>1, <1>3, <1>5, PollSetIntro
<1>7. Watched(grown) = {i \in 0 .. n - 1 : w[i]}
  BY <1>3, <1>6, PollSetElim
<1>8. Watched(ps) \subseteq 0 .. n - 1
  BY <1>1
<1> QED BY <1>4, <1>5, <1>6, <1>7, <1>8

\* Adding a socket, whatever its number, watches it and all that were watched.
LEMMA AddToPollSetLemma ==
  ASSUME NEW ps, IsPollSet(ps), NEW s \in Nat
  PROVE  /\ IsPollSet(AddToPollSet(ps, s))
         /\ Watched(AddToPollSet(ps, s)) = Watched(ps) \cup {s}
<1> DEFINE grown == IF s >= CurrentPollSetSize(ps)
                    THEN GrowPollSet(ps, s + POLL_SET_SIZE) ELSE ps
           n == CurrentPollSetSize(grown)
           w == [grown.watched EXCEPT ![s] = TRUE]
           m == IF s + 1 >= ps.max THEN s + 1 ELSE grown.max
           added == [grown EXCEPT !.watched = w, !.max = m]
<1>1. IsPollSet(grown) /\ Watched(grown) = Watched(ps) /\ s < n
  <2>1. CurrentPollSetSize(ps) \in Nat /\ POLL_SET_SIZE \in Nat \ {0}
    BY PollSetElim, PollSetSizeAssumption
  <2>2. CASE s >= CurrentPollSetSize(ps)
    <3>1. s + POLL_SET_SIZE \in Nat /\ s + POLL_SET_SIZE >= CurrentPollSetSize(ps)
      BY <2>1, <2>2
    <3> QED BY <2>1, <2>2, <3>1, GrowPollSetLemma
  <2> QED BY <2>1, <2>2
<1>2. grown.max = ps.max
  BY PollSetElim DEF GrowPollSet
<1>3. /\ n \in Nat
      /\ grown \in [watched : [0 .. n - 1 -> BOOLEAN], max : 0 .. n]
      /\ \A i \in 0 .. n - 1 : grown.watched[i] => i < grown.max
      /\ Watched(grown) = {i \in 0 .. n - 1 : grown.watched[i]}
  BY <1>1, PollSetElim
<1>4. AddToPollSet(ps, s) = added
  BY <1>3 DEF AddToPollSet
<1> HIDE DEF grown, n
<1>5. /\ w \in [0 .. n - 1 -> BOOLEAN] /\ m \in 0 .. n
      /\ \A i \in 0 .. n - 1 : w[i] <=> i = s \/ grown.watched[i]
      /\ m > s /\ m >= grown.max
  BY <1>1, <1>2, <1>3
<1>6. /\ added \in [watched : [0 .. n - 1 -> BOOLEAN], max : 0 .. n]
      /\ added.watched = w /\ added.max = m
  BY <1>3, <1>5, TableUpdate
<1> HIDE DEF w, m, added
<1>7. \A i \in 0 .. n - 1 : w[i] => i < m
  BY <1>1, <1>3, <1>5
<1>8. IsPollSet(added) /\ CurrentPollSetSize(added) = n
  BY <1>3, <1>6, <1>7, PollSetIntro
<1>9. Watched(added) = {i \in 0 .. n - 1 : w[i]}
  BY <1>6, <1>8, PollSetElim
<1>10. s \in 0 .. n - 1
  BY <1>1, <1>3
<1> QED BY <1>1, <1>3, <1>4, <1>5, <1>8, <1>9, <1>10

LEMMA RemoveFromPollSetLemma ==
  ASSUME NEW ps, IsPollSet(ps), NEW s
  PROVE  /\ IsPollSet(RemoveFromPollSet(ps, s))
         /\ Watched(RemoveFromPollSet(ps, s)) = Watched(ps) \ {s}
<1> DEFINE n == CurrentPollSetSize(ps)
           w == [ps.watched EXCEPT ![s] = FALSE]
           removed == [ps EXCEPT !.watched = w, !.max = ps.max]
<1>1. /\ n \in Nat
      /\ ps \in [watched : [0 .. n - 1 -> BOOLEAN], max : 0 .. n]
      /\ \A i \in 0 .. n - 1 : ps.watched[i] => i < ps.max
      /\ Watched(ps) = {i \in 0 .. n - 1 : ps.watched[i]}
  BY PollSetElim
<1>2. RemoveFromPollSet(ps, s) = removed
  BY <1>1 DEF RemoveFromPollSet
<1> HIDE DEF n
<1>3. /\ w \in [0 .. n - 1 -> BOOLEAN]
      /\ \A i \in 0 .. n - 1 : w[i] <=> i # s /\ ps.watched[i]
  BY <1>1
<1>4. /\ removed \in [watched : [0 .. n - 1 -> BOOLEAN], max : 0 .. n]
      /\ removed.watched = w /\ removed.max = ps.max
  BY <1>1, <1>3, TableUpdate
<1> HIDE DEF w, removed
<1>5. IsPollSet(removed) /\ CurrentPollSetSize(removed) = n
  BY <1>1, <1>3, <1>4, PollSetIntro
<1>6. Watched(removed) = {i \in 0 .. n - 1 : w[i]}
  BY <1>4, <1>5, PollSetElim
<1> QED BY <1>1, <1>2, <1>3, <1>5, <1>6

\* pollCall's answer is a timeout, a watched descriptor that is ready, or, once
\* standard input has hung up, a descriptor that may not be watched at all.
LEMMA PollCallLemma ==
  ASSUME NEW ps, IsPollSet(ps), NEW ready, NEW hungUp \in BOOLEAN
  PROVE  LET fd == PollCall(ps, ready, hungUp) IN
         \/ fd = TimedOut
         \/ fd \in Watched(ps) /\ fd \in ready
         \/ hungUp /\ fd \notin Watched(ps)
<1> DEFINE reported == Reported(ps, ready, hungUp)
<1>1. CASE reported = {}
  BY <1>1 DEF PollCall
<1>2. CASE reported # {}
  <2>1. ps.max \in Nat
    BY PollSetElim
  <2>2. reported \subseteq Nat
    BY <2>1 DEF Reported
  <2> DEFINE less == OpToRel(<, Nat)
  <2>3. \E x \in reported : \A y \in reported : <<y, x>> \notin less
    BY <1>2, <2>2, NatLessThanWellFounded, WFMin
  <2>4. \A x, y \in Nat : <<y, x>> \in less <=> y < x
    BY DEF OpToRel
  <2> HIDE DEF reported, less
  <2>5. \E x \in reported : \A y \in reported : x <= y
    <3>1. PICK x \in reported : \A y \in reported : <<y, x>> \notin less
      BY <2>3
    <3>2. x \in Nat
      BY <2>2, <3>1
    <3>3. ASSUME NEW y \in reported PROVE x <= y
      <4>1. y \in Nat /\ <<y, x>> \notin less
        BY <2>2, <3>1
      <4>2. ~(y < x)
        BY <2>4, <3>2, <4>1
      <4> QED BY <3>2, <4>1, <4>2
    <3> QED BY <3>1, <3>3
  <2>6. PollCall(ps, ready, hungUp) \in reported
    BY <1>2, <2>5 DEF PollCall, Min, reported
  <2> QED BY <2>1, <2>2, <2>6 DEF Reported, Watched, reported
<1> QED BY <1>1, <1>2

-----------------------------------------------------------------------------
(* The server's sockets.                                                   *)

LEMMA SocketOfLemma ==
  ASSUME ConnectionTypes, NEW c \in Accepted
  PROVE  \E i \in DOMAIN accepted :
           /\ accepted[i] = c /\ SocketOf(c) = ServerSocket + i
           /\ i \in Nat \ {0} /\ c \in Clients
<1>1. \E i \in DOMAIN accepted : accepted[i] = c
  BY DEF Accepted, Range
<1> DEFINE i == CHOOSE k \in DOMAIN accepted : accepted[k] = c
<1>2. i \in DOMAIN accepted /\ accepted[i] = c
  BY <1>1
<1> HIDE DEF i
<1>3. i \in Nat \ {0} /\ c \in Clients
  BY <1>2 DEF ConnectionTypes
<1>4. SocketOf(c) = ServerSocket + i
  BY DEF SocketOf, i
<1> QED BY <1>2, <1>3, <1>4

\* pollCall names the server's socket only when a connection waits.
LEMMA PolledServerSocket ==
  ASSUME IInv, Polled = ServerSocket
  PROVE  backlog # <<>>
<1> USE DEF IInv
<1>1. ServerSocket \in ServerReady
  <2>1. IsPollSet(pollSet) /\ stdinHup \in BOOLEAN
    BY DEF ConnectionTypes
  <2>2. Polled # TimedOut
    BY DEF ServerSocket, TimedOut
  <2> QED BY <2>1, <2>2, PollCallLemma DEF Polled
<1>2. \A c \in Accepted : SocketOf(c) # ServerSocket
  BY SocketOfLemma DEF ServerSocket
<1> QED BY <1>1, <1>2 DEF ServerReady

\* pollCall names standard input only when it has hung up.
LEMMA PolledStdin ==
  ASSUME IInv, Polled = STDIN_FILENO
  PROVE  stdinHup
<1>1. IsPollSet(pollSet) /\ stdinHup \in BOOLEAN /\ STDIN_FILENO \notin Watched(pollSet)
  BY DEF IInv, ConnectionTypes
<1>2. Polled # TimedOut
  BY DEF STDIN_FILENO, TimedOut
<1> QED BY <1>1, <1>2, PollCallLemma DEF Polled

-----------------------------------------------------------------------------
(* The inductive invariant: the initial states, and one lemma per step.    *)

LEMMA InitIInv == Init => IInv
<1> SUFFICES ASSUME Init PROVE IInv
  OBVIOUS
<1> USE DEF Init, StreamInit, ServerInit, ClientInit
<1>1. IsPollSet(pollSet) /\ Watched(pollSet) = {ServerSocket}
  BY SetupPollSetLemma, AddToPollSetLemma DEF ServerSocket
<1>2. accepted = <<>> /\ backlog = <<>> /\ Accepted \cup Range(backlog) = {}
  BY DEF Accepted, Range
<1>3. ConnectionTypes
  <2>1. upEnd \in [Clients -> Ends] /\ broken \in [Clients -> BOOLEAN]
    BY DEF Ends
  <2>2. accepted \in Seq(Clients) /\ backlog \in Seq(Clients)
    BY <1>2
  <2>3. /\ cAt \in [Clients -> {"START", "POLL", "READ", "SEND", "PAYLOAD",
                                "TERMINATED", "FAILED", "KILLED"}]
        /\ sAt = "POLL" /\ stdinHup = FALSE
    OBVIOUS
  <2> QED BY <1>1, <2>1, <2>2, <2>3 DEF ConnectionTypes
<1>4. EndsKnown /\ AcceptedConnected /\ AcceptedWatched
  BY <1>2 DEF EndsKnown, AcceptedConnected, AcceptedWatched
<1>5. ServerEndsForACause
  BY DEF ServerEndsForACause
<1>6. ServerSocket \in Watched(pollSet) /\ STDIN_FILENO \notin Watched(pollSet)
  BY <1>1 DEF ServerSocket, STDIN_FILENO
<1> QED BY <1>3, <1>4, <1>5, <1>6 DEF IInv

\* Why the server may end of itself.
Cause ==
  \/ \E c \in Clients : cAt[c] = "KILLED" /\ broken[c]
  \/ NextSocket >= MAX_FD
  \/ stdinHup

LEMMA ServerEndsIInv ==
  ASSUME IInv, ServerRuns, NEW how \in {"STOPPED", "EXITED"}, ServerEnds(how),
         how = "EXITED" => Cause,
         UNCHANGED <<accepted, pollSet, stdinHup, cAt>>
  PROVE  IInv'
<1> USE DEF IInv
<1>1. /\ sAt' = how /\ backlog' = <<>> /\ UNCHANGED upEnd
      /\ broken' \in [Clients -> BOOLEAN]
      /\ \A c \in Clients : broken[c] => broken'[c]
  BY DEF ServerEnds, CloseServerEnds, ConnectionTypes
<1>2. Range(backlog') = {} /\ backlog' \in Seq(Clients)
  BY <1>1 DEF Range
<1>3. ConnectionTypes'
  BY <1>1, <1>2 DEF ConnectionTypes
<1>4. EndsKnown'
  BY <1>1 DEF EndsKnown, ServerRuns
<1>5. AcceptedConnected' /\ AcceptedWatched'
  BY <1>1, <1>2 DEF AcceptedConnected, AcceptedWatched, Accepted, Alive
<1>6. ServerEndsForACause'
  BY <1>1 DEF Cause, ServerEndsForACause, NextSocket, ServerSocket
<1> QED BY <1>3, <1>4, <1>5, <1>6

\* A new client is watched from then on, at the number accept has returned.
LEMMA AddNewSocketIInv == IInv /\ UNCHANGED clientVars /\ AddNewSocket => IInv'
<1> SUFFICES ASSUME IInv, UNCHANGED clientVars, AddNewSocket PROVE IInv'
  OBVIOUS
<1> USE DEF IInv
<1>1. sAt = "POLL" /\ Polled = ServerSocket /\ UNCHANGED <<stdinHup, cAt>>
  BY DEF AddNewSocket, clientVars
<1>2. accepted \in Seq(Clients) /\ backlog \in Seq(Clients) /\ backlog # <<>>
  BY <1>1, PolledServerSocket DEF ConnectionTypes
<1>3. CASE /\ accepted' = Append(accepted, Head(backlog))
           /\ backlog' = Tail(backlog)
           /\ pollSet' = AddToPollSet(pollSet, NextSocket)
           /\ UNCHANGED <<upEnd, broken, sAt, current>>
  <2>1. NextSocket \in Nat /\ NextSocket # STDIN_FILENO /\ Len(accepted) \in Nat
    BY <1>2 DEF NextSocket, ServerSocket, STDIN_FILENO
  <2>2. IsPollSet(pollSet') /\ Watched(pollSet') = Watched(pollSet) \cup {NextSocket}
    BY <1>3, <2>1, AddToPollSetLemma DEF ConnectionTypes
  <2>3. /\ accepted' \in Seq(Clients) /\ backlog' \in Seq(Clients)
        /\ DOMAIN accepted' = 1 .. Len(accepted) + 1
        /\ DOMAIN accepted = 1 .. Len(accepted)
        /\ \A i \in DOMAIN accepted : accepted'[i] = accepted[i]
        /\ Head(backlog) \in Range(backlog)
        /\ Range(backlog') \subseteq Range(backlog)
        /\ accepted'[Len(accepted) + 1] = Head(backlog)
    BY <1>2, <1>3 DEF Range
  <2>4. /\ Accepted \subseteq Accepted'
        /\ Accepted' \subseteq Accepted \cup {Head(backlog)}
    BY <2>3, <2>1 DEF Accepted, Range
  <2>5. ConnectionTypes'
    BY <1>1, <1>3, <2>2, <2>3 DEF ConnectionTypes
  <2>6. EndsKnown'
    BY <1>1, <1>3 DEF EndsKnown, ServerRuns
  <2>7. AcceptedConnected'
    BY <1>1, <1>3, <2>3, <2>4 DEF AcceptedConnected
  <2>8. AcceptedWatched'
    <3> SUFFICES ASSUME NEW i \in DOMAIN accepted',
                        cAt[accepted'[i]] \in {"POLL", "READ", "SEND", "PAYLOAD"}
                 PROVE  ServerSocket + i \in Watched(pollSet')
      BY <1>1 DEF AcceptedWatched, Alive, ServerSocket
    <3>1. CASE i \in DOMAIN accepted
      BY <2>2, <2>3, <3>1 DEF AcceptedWatched, Alive
    <3>2. CASE i = Len(accepted) + 1
      <4>1. ServerSocket + i = NextSocket
        BY <2>1, <3>2 DEF NextSocket, ServerSocket
      <4> QED BY <2>2, <4>1
    <3> QED BY <2>1, <2>3, <3>1, <3>2
  <2>9. ServerEndsForACause'
    BY <1>1, <1>3 DEF ServerEndsForACause
  <2>10. ServerSocket' \in Watched(pollSet)' /\ STDIN_FILENO \notin Watched(pollSet)'
    BY <2>1, <2>2 DEF ServerSocket, Watched
  <2> QED BY <2>5, <2>6, <2>7, <2>8, <2>9, <2>10
<1>4. CASE /\ NextSocket >= MAX_FD /\ ServerEnds("EXITED")
           /\ UNCHANGED <<accepted, pollSet>>
  BY <1>1, <1>4, ServerEndsIInv DEF Cause, ServerRuns
<1> QED BY <1>3, <1>4 DEF AddNewSocket

LEMMA ProcessStdinIInv == IInv /\ UNCHANGED clientVars /\ ProcessStdin => IInv'
BY PolledStdin, ServerEndsIInv DEF ProcessStdin, Cause, ServerRuns, clientVars

\* The steps that change neither connections nor the poll set.
LEMMA ServerFrame ==
  ASSUME IInv, UNCHANGED <<accepted, backlog, pollSet, stdinHup, upEnd, broken, cAt>>,
         sAt' \in {"POLL", "PAYLOAD", "SEND"}, ServerRuns,
         sAt' # "POLL" => current' \in Accepted
  PROVE  IInv'
BY DEF IInv, ConnectionTypes, EndsKnown, AcceptedConnected, Accepted, AcceptedWatched,
       Alive, ServerEndsForACause, ServerRuns, ServerSocket, STDIN_FILENO

\* The socket taken out of the poll set is that of a killed client.
LEMMA ClientClosedIInv ==
  ASSUME IInv, NEW c \in Accepted, upEnd[c] = "FIN", ServerRuns, ClientClosed(c),
         UNCHANGED <<accepted, backlog, stdinHup, upEnd, broken, cAt>>
  PROVE  IInv'
<1> USE DEF IInv
<1>1. PICK k \in DOMAIN accepted :
        /\ accepted[k] = c /\ SocketOf(c) = ServerSocket + k
        /\ k \in Nat \ {0} /\ c \in Clients
  BY SocketOfLemma
<1>2. ~Alive(c)
  BY <1>1 DEF EndsKnown, Alive
<1>3. IsPollSet(pollSet') /\ Watched(pollSet') = Watched(pollSet) \ {ServerSocket + k}
  BY <1>1, RemoveFromPollSetLemma DEF ClientClosed, ConnectionTypes
<1>4. AcceptedWatched'
  <2> SUFFICES ASSUME NEW i \in DOMAIN accepted, Alive(accepted[i])
               PROVE  ServerSocket + i \in Watched(pollSet')
    BY DEF AcceptedWatched, Alive, ServerSocket
  <2>1. i # k /\ i \in Nat
    BY <1>1, <1>2 DEF ConnectionTypes
  <2>2. ServerSocket + i # ServerSocket + k
    BY <1>1, <2>1 DEF ServerSocket
  <2> QED BY <1>3, <2>2 DEF AcceptedWatched
<1>5. ServerSocket # ServerSocket + k
  BY <1>1 DEF ServerSocket
<1>6. ServerSocket \in Watched(pollSet') /\ STDIN_FILENO \notin Watched(pollSet')
  BY <1>3, <1>5
<1>7. sAt' = "POLL"
  BY DEF ClientClosed
<1>8. ConnectionTypes' /\ EndsKnown' /\ AcceptedConnected' /\ ServerEndsForACause'
  BY <1>3, <1>7 DEF ConnectionTypes, EndsKnown, AcceptedConnected, Accepted,
    ServerEndsForACause, ServerRuns
<1> QED BY <1>4, <1>6, <1>8 DEF ServerSocket, Watched

\* A reset ends the server only because of a killed client.
LEMMA ResetIsACause ==
  ASSUME IInv, ServerRuns, NEW c \in Clients, upEnd[c] = "RST" \/ broken[c]
  PROVE  Cause
BY DEF IInv, EndsKnown, Cause

LEMMA RecvHeaderIInv ==
  ASSUME IInv, UNCHANGED clientVars, NEW c \in Clients, RecvHeader(c) PROVE IInv'
<1>1. /\ sAt = "POLL" /\ c \in Accepted /\ ServerRuns
      /\ UNCHANGED <<accepted, stdinHup, cAt>>
  BY DEF RecvHeader, PolledClient, ServerRuns, clientVars
<1>2. CASE /\ sAt' = "PAYLOAD" /\ current' = c
           /\ UNCHANGED <<backlog, upEnd, broken, pollSet>>
  BY <1>1, <1>2, ServerFrame DEF Accepted
<1>3. CASE upEnd[c] = "FIN" /\ ClientClosed(c) /\ UNCHANGED streamVars
  BY <1>1, <1>3, ClientClosedIInv DEF streamVars
<1>4. CASE upEnd[c] = "RST" /\ ServerEnds("EXITED") /\ UNCHANGED pollSet
  BY <1>1, <1>4, ResetIsACause, ServerEndsIInv
<1> QED BY <1>2, <1>3, <1>4 DEF RecvHeader

LEMMA RecvPayloadIInv ==
  ASSUME IInv, UNCHANGED clientVars, NEW c \in Clients, RecvPayload(c) PROVE IInv'
<1>1. /\ sAt = "PAYLOAD" /\ current = c /\ ServerRuns
      /\ UNCHANGED <<accepted, stdinHup, cAt>>
  BY DEF RecvPayload, ServerRuns, clientVars
<1>2. c \in Accepted
  BY <1>1 DEF IInv, AcceptedConnected
<1>3. CASE /\ sAt' \in {"PAYLOAD", "SEND"}
           /\ UNCHANGED <<current, backlog, upEnd, broken, pollSet>>
  BY <1>1, <1>2, <1>3, ServerFrame
<1>4. CASE upEnd[c] = "FIN" /\ ClientClosed(c) /\ UNCHANGED streamVars
  BY <1>1, <1>2, <1>4, ClientClosedIInv DEF streamVars
<1>5. CASE upEnd[c] = "RST" /\ ServerEnds("EXITED") /\ UNCHANGED pollSet
  BY <1>1, <1>5, ResetIsACause, ServerEndsIInv
<1> QED BY <1>1, <1>3, <1>4, <1>5 DEF RecvPayload, StartEcho, streamVars

LEMMA SendToClientIInv ==
  ASSUME IInv, UNCHANGED clientVars, NEW c \in Clients, SendToClient(c) PROVE IInv'
<1>1. /\ sAt = "SEND" /\ current = c /\ ServerRuns
      /\ UNCHANGED <<accepted, pollSet, stdinHup, cAt>>
  BY DEF SendToClient, ServerRuns, clientVars
<1>2. c \in Accepted
  BY <1>1 DEF IInv, AcceptedConnected
<1>3. CASE broken[c] /\ ServerEnds("EXITED")
  BY <1>1, <1>3, ResetIsACause, ServerEndsIInv
<1>4. CASE /\ UNCHANGED <<backlog, upEnd, broken>>
           /\ \/ sAt' = "POLL"
              \/ UNCHANGED <<sAt, current>>
  BY <1>1, <1>2, <1>4, ServerFrame
<1> QED BY <1>3, <1>4 DEF SendToClient

LEMMA ServerStepIInv == IInv /\ ServerStep => IInv'
<1> SUFFICES ASSUME IInv, ServerNext, UNCHANGED clientVars PROVE IInv'
  BY DEF ServerStep
<1> QED BY AddNewSocketIInv, ProcessStdinIInv, RecvHeaderIInv, RecvPayloadIInv,
           SendToClientIInv DEF ServerNext

LEMMA FaultStepIInv == IInv /\ FaultStep => IInv'
<1> SUFFICES ASSUME IInv, FaultStep PROVE IInv'
  OBVIOUS
<1>1. CASE ServerStopped /\ UNCHANGED clientVars
  BY <1>1, ServerEndsIInv DEF ServerStopped, clientVars
<1>2. CASE StdinHangsUp /\ UNCHANGED clientVars
  BY <1>2 DEF StdinHangsUp, clientVars, streamVars, IInv, ConnectionTypes, EndsKnown,
    AcceptedConnected, Accepted, AcceptedWatched, Alive, ServerEndsForACause, ServerRuns,
    ServerSocket, STDIN_FILENO, Watched
<1> QED BY <1>1, <1>2 DEF FaultStep

-----------------------------------------------------------------------------
(* The clients and the kernels.                                            *)

\* A client that has not been killed goes somewhere, and may have connected.
LEMMA ClientGoesIInv ==
  ASSUME IInv, NEW c \in Clients, cAt[c] \in {"START", "POLL", "READ", "SEND", "PAYLOAD"},
         NEW at \in {"POLL", "READ", "SEND", "PAYLOAD", "TERMINATED", "FAILED"},
         cAt' = [cAt EXCEPT ![c] = at],
         backlog' \in {backlog, Append(backlog, c)},
         UNCHANGED <<serverVars, upEnd, broken>>
  PROVE  IInv'
<1> USE DEF IInv
<1>1. /\ backlog' \in Seq(Clients)
      /\ Range(backlog') \subseteq Range(backlog) \cup {c}
  <2>1. backlog \in Seq(Clients)
    BY DEF ConnectionTypes
  <2>2. CASE backlog' = backlog
    BY <2>1, <2>2
  <2>3. CASE backlog' = Append(backlog, c)
    <3>1. /\ backlog' \in Seq(Clients) /\ DOMAIN backlog' = 1 .. Len(backlog) + 1
          /\ DOMAIN backlog = 1 .. Len(backlog) /\ Len(backlog) \in Nat
          /\ \A i \in DOMAIN backlog' :
               backlog'[i] = IF i = Len(backlog) + 1 THEN c ELSE backlog[i]
      BY <2>1, <2>3
    <3>2. Range(backlog') \subseteq Range(backlog) \cup {c}
      BY <3>1 DEF Range
    <3> QED BY <3>1, <3>2
  <2> QED BY <2>2, <2>3
<1>2. /\ cAt \in [Clients -> {"START", "POLL", "READ", "SEND", "PAYLOAD",
                              "TERMINATED", "FAILED", "KILLED"}]
      /\ UNCHANGED <<sAt, current, accepted, pollSet, stdinHup>>
  BY DEF ConnectionTypes, serverVars
<1>3. ConnectionTypes'
  BY <1>1, <1>2 DEF ConnectionTypes
<1>4. EndsKnown'
  BY <1>2 DEF EndsKnown, ServerRuns
<1>5. AcceptedConnected'
  BY <1>1, <1>2 DEF AcceptedConnected, Accepted, ConnectionTypes
<1>6. AcceptedWatched'
  <2>1. \A i \in DOMAIN accepted : accepted[i] \in Accepted /\ accepted[i] \in Clients
    BY DEF Accepted, Range, ConnectionTypes
  <2>2. \A d \in Accepted : d \in Clients =>
          (cAt'[d] \in {"POLL", "READ", "SEND", "PAYLOAD"} =>
             cAt[d] \in {"POLL", "READ", "SEND", "PAYLOAD"})
    BY <1>2 DEF AcceptedConnected
  <2> QED BY <1>2, <2>1, <2>2 DEF AcceptedWatched, Alive, ServerSocket
<1>7. ServerEndsForACause'
  BY <1>2 DEF ServerEndsForACause, NextSocket, ServerSocket
<1>8. ServerSocket' \in Watched(pollSet)' /\ STDIN_FILENO' \notin Watched(pollSet)'
  BY <1>2 DEF ServerSocket, STDIN_FILENO, Watched
<1> QED BY <1>3, <1>4, <1>5, <1>6, <1>7, <1>8

LEMMA ClientStepIInv ==
  ASSUME IInv, NEW c \in Clients, ClientStep(c) PROVE IInv'
<1> DEFINE from == {"START", "POLL", "READ", "SEND", "PAYLOAD"}
           to == {"POLL", "READ", "SEND", "PAYLOAD", "TERMINATED", "FAILED"}
<1>1. cAt = [cAt EXCEPT ![c] = cAt[c]]
  BY DEF IInv, ConnectionTypes
<1>2. UNCHANGED <<serverVars, upEnd, broken>>
  <2>1. UNCHANGED serverVars
    BY DEF ClientStep
  <2>2. UNCHANGED <<upEnd, broken>>
    BY DEF ClientStep, ClientNext, Connect, ReadPiece, ProcessInput, SendToServer,
       MsgFromServer, RecvMessage, RecvFails, ServerTerminated, streamVars
  <2> QED BY <2>1, <2>2
<1>3. /\ cAt[c] \in from
      /\ backlog' \in {backlog, Append(backlog, c)}
      /\ \E at \in to : cAt' = [cAt EXCEPT ![c] = at]
  <2>1. CASE Connect(c)
    BY <2>1 DEF Connect, Goto, streamVars
  <2>2. CASE ReadPiece(c) \/ ProcessInput(c)
    BY <2>2 DEF ReadPiece, ProcessInput, InProcessStdin, Goto, streamVars
  <2>3. CASE SendToServer(c)
    BY <2>3 DEF SendToServer, ClientEnds, Goto, streamVars
  <2>4. CASE MsgFromServer(c)
    BY <2>4 DEF MsgFromServer, RecvFails, ServerTerminated, ClientEnds, Goto, streamVars
  <2>5. CASE RecvMessage(c)
    BY <1>1, <2>5 DEF RecvMessage, RecvFails, ServerTerminated, PrintMessage, ClientEnds,
      Goto, streamVars
  <2> QED BY <2>1, <2>2, <2>3, <2>4, <2>5 DEF ClientStep, ClientNext
<1> QED BY <1>2, <1>3, ClientGoesIInv

\* What only the user does: of the connections nothing changes but a killed
\* client's end.
LEMMA UserStepIInv ==
  ASSUME IInv, NEW c \in Clients, UserStep(c) PROVE IInv'
<1> USE DEF IInv
<1>1. CASE TypeLine(c) \/ InputEnds(c)
  <2>1. UNCHANGED <<serverVars, streamVars, cAt>>
    BY <1>1 DEF UserStep, TypeLine, InputEnds, KillClient
  <2> QED BY <2>1 DEF serverVars, streamVars, ConnectionTypes, EndsKnown,
    AcceptedConnected, Accepted, AcceptedWatched, Alive, ServerEndsForACause, ServerRuns,
    NextSocket, ServerSocket, STDIN_FILENO, Watched
<1>2. CASE KillClient(c)
  <2>1. /\ Alive(c) /\ cAt' = [cAt EXCEPT ![c] = "KILLED"]
        /\ upEnd' = [upEnd EXCEPT ![c] = IF down[c] = <<>> THEN "FIN" ELSE @]
        /\ UNCHANGED <<backlog, broken>>
    BY <1>2 DEF KillClient, ClientEnds, Goto, CloseClientEnd
  <2>2. UNCHANGED <<sAt, current, accepted, pollSet, stdinHup>>
    BY DEF UserStep, serverVars
  <2>3. ConnectionTypes' /\ EndsKnown'
    BY <2>1, <2>2 DEF ConnectionTypes, Ends, EndsKnown, ServerRuns, Alive
  <2>4. AcceptedConnected' /\ AcceptedWatched'
    BY <2>1, <2>2 DEF ConnectionTypes, AcceptedConnected, Accepted, AcceptedWatched,
      Alive, ServerSocket
  <2>5. ServerEndsForACause'
    BY <2>1, <2>2 DEF ConnectionTypes, ServerEndsForACause, NextSocket, ServerSocket
  <2>6. ServerSocket' \in Watched(pollSet)' /\ STDIN_FILENO' \notin Watched(pollSet)'
    BY <2>2 DEF ServerSocket, STDIN_FILENO, Watched
  <2> QED BY <2>3, <2>4, <2>5, <2>6
<1> QED BY <1>1, <1>2 DEF UserStep

\* A reset reaches the server only from a killed client, and a client only when
\* the server has gone.
LEMMA ResetStepIInv ==
  ASSUME IInv, NEW c \in Clients, ResetStep(c) PROVE IInv'
<1> USE DEF IInv
<1>1. /\ cAt[c] = "KILLED" \/ ~ServerRuns
      /\ broken' = [broken EXCEPT ![c] = TRUE]
      /\ UNCHANGED <<backlog, serverVars, cAt>>
  BY DEF ResetStep, Resets, ResetServerEnd, ResetClientEnd, clientVars
<1>2. \/ UNCHANGED upEnd
      \/ /\ cAt[c] = "KILLED"
         /\ \E end \in Ends : upEnd' = [upEnd EXCEPT ![c] = end]
  BY DEF ResetStep, Resets, ResetServerEnd, ResetClientEnd, ConnectionTypes, Ends
<1>3. UNCHANGED <<sAt, current, accepted, pollSet, stdinHup>>
  BY <1>1 DEF serverVars
<1>4. ConnectionTypes' /\ EndsKnown'
  BY <1>1, <1>2, <1>3 DEF ConnectionTypes, EndsKnown, ServerRuns
<1>5. AcceptedConnected' /\ AcceptedWatched'
  BY <1>1, <1>3 DEF AcceptedConnected, Accepted, AcceptedWatched, Alive, ServerSocket
<1>6. ServerEndsForACause'
  BY <1>1, <1>3 DEF ConnectionTypes, ServerEndsForACause, NextSocket, ServerSocket
<1>7. ServerSocket' \in Watched(pollSet)' /\ STDIN_FILENO' \notin Watched(pollSet)'
  BY <1>3 DEF ServerSocket, STDIN_FILENO, Watched
<1> QED BY <1>4, <1>5, <1>6, <1>7

-----------------------------------------------------------------------------
(* The theorems.                                                           *)

LEMMA NextIInv == IInv /\ [Next]_vars => IInv'
<1> SUFFICES ASSUME IInv, [Next]_vars PROVE IInv'
  OBVIOUS
<1>1. CASE UNCHANGED vars
  BY <1>1 DEF vars, serverVars, streamVars, clientVars, IInv, ConnectionTypes, EndsKnown,
    AcceptedConnected, Accepted, AcceptedWatched, Alive, ServerEndsForACause, ServerRuns,
    NextSocket, ServerSocket, STDIN_FILENO, Watched
<1> QED BY <1>1, ServerStepIInv, FaultStepIInv, ClientStepIInv, UserStepIInv, ResetStepIInv
        DEF Next

\* The inductive invariant holds: the server's socket and those of live clients are
\* always in the poll set, and connections end only when clients are killed.
THEOREM Invariance == Spec => []IInv
<1> QED BY InitIInv, NextIInv, PTL DEF Spec

\* The PDU server ends of itself only because of a reset by a killed client, a lack
\* of descriptors or a hang-up of its standard input (recvPDU, tcpAccept, main).
THEOREM EndsForACause == Spec => []ServerEndsForACause
<1>1. IInv => ServerEndsForACause
  BY DEF IInv
<1> QED BY <1>1, Invariance, PTL

\* However the table grows and whoever leaves, the next poll watches every accepted
\* client that is alive (addToPollSet, growPollSet, removeFromPollSet).
THEOREM ClientsWatched == Spec => []OpenClientsWatched
<1>1. IInv => OpenClientsWatched
  <2> SUFFICES ASSUME IInv, NEW c \in Accepted, Alive(c)
               PROVE  SocketOf(c) \in Watched(pollSet)
    BY DEF OpenClientsWatched
  <2> QED BY SocketOfLemma DEF IInv, AcceptedWatched
<1> QED BY <1>1, Invariance, PTL

-----------------------------------------------------------------------------
(* Types.                                                                  *)

\* What is being sent is not yet sent: Head is asked of no empty sequence.
TypesInv ==
  /\ IInv /\ TypeOK
  /\ sAt = "SEND" => sBuf # <<>>
  /\ \A c \in Clients : cAt[c] = "SEND" => cBuf[c] # <<>>

LEMMA PayloadLenType == ASSUME NEW m \in Nat PROVE PayloadLen(m) \in Nat \ {0}
BY StreamAssumption DEF PayloadLen

LEMMA PayloadType ==
  ASSUME NEW c \in Clients, NEW m \in Nat
  PROVE  /\ Payload(c, m) \in Seq(Units) /\ Len(Payload(c, m)) = PayloadLen(m)
         /\ DOMAIN Payload(c, m) = 1 .. PayloadLen(m)
         /\ \A k \in 1 .. PayloadLen(m) :
              Payload(c, m)[k] = [of |-> c, msg |-> m, part |-> k, len |-> 0]
<1>1. PayloadLen(m) \in Nat
  BY PayloadLenType
<1>2. Payload(c, m) \in [1 .. PayloadLen(m) -> Units]
  BY <1>1 DEF Payload, Units
<1>3. Payload(c, m) \in Seq(Units)
  BY <1>1, <1>2, SeqDef
<1> QED BY <1>1, <1>2, <1>3, LenProperties DEF Payload

LEMMA PduType ==
  ASSUME NEW c \in Clients, NEW data \in Seq(Units)
  PROVE  /\ Pdu(c, data) \in Seq(Units) /\ Pdu(c, data) # <<>>
         /\ Len(Pdu(c, data)) = Len(data) + 1
         /\ Pdu(c, data)[1] = Header(c, Len(data))
         /\ \A i \in 1 .. Len(data) : Pdu(c, data)[i + 1] = data[i]
<1>1. Len(data) \in Nat
  OBVIOUS
<1>2. Header(c, Len(data)) \in Units
  BY <1>1 DEF Header, Units
<1>3. /\ <<Header(c, Len(data))>> \in Seq(Units)
      /\ Len(<<Header(c, Len(data))>>) = 1
      /\ <<Header(c, Len(data))>>[1] = Header(c, Len(data))
  BY <1>2
<1>4. /\ Pdu(c, data) \in Seq(Units) /\ Len(Pdu(c, data)) = 1 + Len(data)
      /\ \A i \in 1 .. 1 + Len(data) : Pdu(c, data)[i] =
           IF i <= 1 THEN <<Header(c, Len(data))>>[i] ELSE data[i - 1]
  BY <1>3, ConcatProperties, Zenon DEF Pdu
<1>5. \A i \in 1 .. Len(data) : i + 1 \in 1 .. 1 + Len(data) /\ ~(i + 1 <= 1) /\ i + 1 - 1 = i
  BY <1>1
<1>6. \A i \in 1 .. Len(data) : Pdu(c, data)[i + 1] = data[i]
  BY <1>4, <1>5
<1>7. Pdu(c, data)[1] = Header(c, Len(data))
  BY <1>1, <1>3, <1>4
<1>8. Pdu(c, data) # <<>>
  BY <1>1, <1>4, EmptySeq
<1> QED BY <1>1, <1>4, <1>6, <1>7, <1>8

\* recv's part of a queue and the rest.
LEMMA TakesType ==
  ASSUME NEW q \in Seq(Units), NEW b \in Seq(Units), NEW n \in Nat
  PROVE  /\ Takes(q, b, n) \in Seq(Units) /\ Leaves(q, b, n) \in Seq(Units)
         /\ Len(Takes(q, b, n)) =
              IF Len(q) <= n - Len(b) THEN Len(q)
              ELSE IF n - Len(b) >= 0 THEN n - Len(b) ELSE 0
         /\ Len(Leaves(q, b, n)) = Len(q) - Len(Takes(q, b, n))
         /\ \A i \in 1 .. Len(Takes(q, b, n)) : Takes(q, b, n)[i] = q[i]
         /\ \A i \in 1 .. Len(Leaves(q, b, n)) :
              Leaves(q, b, n)[i] = q[i + Len(Takes(q, b, n))]
<1> DEFINE t == Takes(q, b, n)
           k == n - Len(b)
<1>1. Len(q) \in Nat /\ k \in Int /\ \A i \in 1 .. Len(q) : q[i] \in Units
  OBVIOUS
<1>2. /\ t \in Seq(Units)
      /\ Len(t) = IF Len(q) <= k THEN Len(q) ELSE IF k >= 0 THEN k ELSE 0
      /\ \A i \in 1 .. Len(t) : t[i] = q[i]
  <2>1. CASE Len(q) <= k
    BY <2>1 DEF Takes
  <2>2. CASE ~(Len(q) <= k)
    <3>1. \A i \in 1 .. k : q[i] \in Units
      BY <1>1, <2>2
    <3>2. /\ SubSeq(q, 1, k) \in Seq(Units)
          /\ Len(SubSeq(q, 1, k)) = IF 1 <= k THEN k - 1 + 1 ELSE 0
          /\ \A i \in 1 .. k - 1 + 1 : SubSeq(q, 1, k)[i] = q[1 + i - 1]
      BY <1>1, <3>1, SubSeqProperties
    <3>3. t = SubSeq(q, 1, k)
      BY <2>2 DEF Takes
    <3> QED BY <1>1, <2>2, <3>2, <3>3
  <2> QED BY <2>1, <2>2
<1>3. Len(t) \in 0 .. Len(q)
  BY <1>1, <1>2
<1> HIDE DEF t
<1>4. \A i \in Len(t) + 1 .. Len(q) : q[i] \in Units
  BY <1>1, <1>3
<1>5. /\ SubSeq(q, Len(t) + 1, Len(q)) \in Seq(Units)
      /\ Len(SubSeq(q, Len(t) + 1, Len(q))) =
           IF Len(t) + 1 <= Len(q) THEN Len(q) - (Len(t) + 1) + 1 ELSE 0
      /\ \A i \in 1 .. Len(q) - (Len(t) + 1) + 1 :
           SubSeq(q, Len(t) + 1, Len(q))[i] = q[Len(t) + 1 + i - 1]
  BY <1>1, <1>3, <1>4, SubSeqProperties
<1>6. Leaves(q, b, n) = SubSeq(q, Len(t) + 1, Len(q))
  BY DEF Leaves, t
<1>7. /\ Len(Leaves(q, b, n)) = Len(q) - Len(t)
      /\ \A i \in 1 .. Len(q) - Len(t) : Leaves(q, b, n)[i] = q[i + Len(t)]
  BY <1>1, <1>3, <1>5, <1>6
<1> QED BY <1>2, <1>5, <1>6, <1>7 DEF t

LEMMA LeavesShorter ==
  ASSUME NEW q \in Seq(Units), NEW b \in Seq(Units), NEW n \in Nat
  PROVE  /\ Takes(q, b, n) \in Seq(Units) /\ Leaves(q, b, n) \in Seq(Units)
         /\ Len(Leaves(q, b, n)) <= Len(q)
         /\ Len(q) \in Nat /\ Len(Leaves(q, b, n)) \in Nat
<1> DEFINE t == Takes(q, b, n)
           r == Leaves(q, b, n)
<1>1. t \in Seq(Units) /\ r \in Seq(Units) /\ Len(r) = Len(q) - Len(t)
  BY TakesType
<1>2. Len(t) \in Nat /\ Len(r) \in Nat /\ Len(q) \in Nat
  BY <1>1, LenProperties
<1> HIDE DEF t, r
<1>3. Len(r) <= Len(q)
  BY <1>1, <1>2
<1> QED BY <1>1, <1>2, <1>3 DEF t, r

LEMMA InitTypes == Init => TypesInv
<1> SUFFICES ASSUME Init PROVE TypesInv
  OBVIOUS
<1>1. StreamTypeOK
  BY StreamAssumption DEF Init, StreamInit, StreamTypeOK, Ends
<1>2. ServerTypeOK
  <2>1. IInv
    BY InitIInv
  <2> QED BY <2>1 DEF IInv, ConnectionTypes, Init, ServerInit, ServerTypeOK
<1>3. ClientTypeOK
  BY StreamAssumption DEF Init, ClientInit, ClientTypeOK
<1> QED BY <1>1, <1>2, <1>3, InitIInv DEF TypesInv, TypeOK, Init, ServerInit, ClientInit

\* The process ends: what the kernel keeps of a connection is a part of it.
LEMMA ServerEndsTypes ==
  ASSUME TypesInv, NEW how \in {"STOPPED", "EXITED"}, ServerEnds(how)
  PROVE  /\ StreamTypeOK' /\ sAt' = how
         /\ current' = Nobody /\ need' = 0 /\ sBuf' = <<>>
         /\ \A c \in Clients : \E k \in 0 .. Len(down[c]) :
              down'[c] = SubSeq(down[c], 1, k)
         /\ UNCHANGED <<up, upEnd>>
<1> USE DEF TypesInv, TypeOK, StreamTypeOK
<1> DEFINE cs == Accepted \cup Range(backlog)
           reset == {c \in cs : up[c] # <<>> \/ c \in Range(backlog)}
<1>1. PICK kept \in [reset -> 0 .. Capacity] :
        /\ \A c \in reset : kept[c] <= Len(down[c])
        /\ down' = [c \in Clients |->
             IF c \in reset THEN SubSeq(down[c], 1, kept[c]) ELSE down[c]]
  BY DEF ServerEnds, CloseServerEnds
<1>2. /\ backlog' = <<>> /\ UNCHANGED <<up, upEnd>>
      /\ downEnd' = [c \in Clients |->
           IF c \in reset THEN "RST" ELSE IF c \in cs THEN "FIN" ELSE downEnd[c]]
      /\ broken' = [c \in Clients |-> broken[c] \/ c \in reset]
  BY DEF ServerEnds, CloseServerEnds
<1>3. \A c \in Clients : /\ down[c] \in Seq(Units) /\ Len(down[c]) \in Nat
                         /\ SubSeq(down[c], 1, Len(down[c])) = down[c]
  BY SubSeqFull
<1>4. \A c \in Clients : \E k \in 0 .. Len(down[c]) : down'[c] = SubSeq(down[c], 1, k)
  <2> SUFFICES ASSUME NEW c \in Clients
               PROVE  \E k \in 0 .. Len(down[c]) : down'[c] = SubSeq(down[c], 1, k)
    OBVIOUS
  <2>1. CASE c \in reset
    <3>1. kept[c] \in 0 .. Len(down[c])
      BY <1>1, <1>3, <2>1, StreamAssumption
    <3> QED BY <1>1, <2>1, <3>1
  <2>2. CASE c \notin reset
    <3>1. Len(down[c]) \in 0 .. Len(down[c])
      BY <1>3
    <3> QED BY <1>1, <1>3, <2>2, <3>1
  <2> QED BY <2>1, <2>2
<1>5. \A c \in Clients : down'[c] \in Seq(Units) /\ Len(down'[c]) <= Len(down[c])
  <2> SUFFICES ASSUME NEW c \in Clients, NEW k \in 0 .. Len(down[c])
               PROVE  /\ SubSeq(down[c], 1, k) \in Seq(Units)
                      /\ Len(SubSeq(down[c], 1, k)) <= Len(down[c])
    BY <1>4
  <2>1. \A i \in 1 .. k : down[c][i] \in Units
    BY <1>3
  <2>2. /\ SubSeq(down[c], 1, k) \in Seq(Units)
        /\ Len(SubSeq(down[c], 1, k)) = IF 1 <= k THEN k - 1 + 1 ELSE 0
    BY <2>1, SubSeqProperties
  <2> QED BY <1>3, <2>2
<1>6. \A c \in Clients : Len(down'[c]) \in Nat /\ Len(down'[c]) <= Capacity
  BY <1>3, <1>5, StreamAssumption, LenProperties
<1>7. down' \in [Clients -> Seq(Units)]
  BY <1>1, <1>5
<1>8. backlog' \in Seq(Clients)
  BY <1>2
<1>9. downEnd' \in [Clients -> Ends] /\ broken' \in [Clients -> BOOLEAN]
  BY <1>2 DEF Ends
<1> QED BY <1>2, <1>4, <1>6, <1>7, <1>8, <1>9 DEF ServerEnds

\* The parts of the types that a step of the server can disturb.
LEMMA ServerTypes ==
  ASSUME TypesInv, IInv', UNCHANGED clientVars, StreamTypeOK',
         current' \in Clients \cup {Nobody}, need' \in Nat, sBuf' \in Seq(Units),
         sAt' = "SEND" => sBuf' # <<>>
  PROVE  TypesInv'
<1>1. ServerTypeOK'
  BY DEF IInv, ConnectionTypes, ServerTypeOK
<1>2. ClientTypeOK' /\ UNCHANGED <<cAt, cBuf>>
  BY DEF TypesInv, TypeOK, ClientTypeOK, clientVars
<1> QED BY <1>1, <1>2 DEF TypesInv, TypeOK

LEMMA ServerEndsTypesInv ==
  ASSUME TypesInv, IInv', UNCHANGED clientVars,
         NEW how \in {"STOPPED", "EXITED"}, ServerEnds(how)
  PROVE  TypesInv'
<1>1. /\ StreamTypeOK' /\ sAt' = how
      /\ current' = Nobody /\ need' = 0 /\ sBuf' = <<>>
  BY ServerEndsTypes
<1>2. sBuf' \in Seq(Units)
  BY <1>1
<1> QED BY <1>1, <1>2, ServerTypes

LEMMA AddNewSocketTypes ==
  ASSUME TypesInv, IInv', UNCHANGED clientVars, AddNewSocket PROVE TypesInv'
<1> USE DEF TypesInv, TypeOK
<1>1. CASE backlog' = Tail(backlog) /\
           UNCHANGED <<up, down, upEnd, downEnd, broken, sAt, current, need, sBuf>>
  <2>1. backlog' \in Seq(Clients)
    BY DEF IInv, ConnectionTypes
  <2>2. StreamTypeOK'
    BY <1>1, <2>1 DEF StreamTypeOK
  <2> QED BY <1>1, <2>2, ServerTypes DEF ServerTypeOK
<1>2. CASE ServerEnds("EXITED")
  BY <1>2, ServerEndsTypesInv
<1> QED BY <1>1, <1>2 DEF AddNewSocket

LEMMA ProcessStdinTypes ==
  ASSUME TypesInv, IInv', UNCHANGED clientVars, ProcessStdin PROVE TypesInv'
BY ServerEndsTypesInv DEF ProcessStdin

LEMMA RecvHeaderTypes ==
  ASSUME TypesInv, IInv', UNCHANGED clientVars, NEW c \in Clients, RecvHeader(c)
  PROVE  TypesInv'
<1> USE DEF TypesInv, TypeOK
<1>1. CASE /\ up[c] # <<>> /\ up' = [up EXCEPT ![c] = Tail(@)]
           /\ need' = Head(up[c]).len
           /\ sAt' = "PAYLOAD" /\ current' = c /\ sBuf' = <<>>
           /\ UNCHANGED <<backlog, down, upEnd, downEnd, broken, pollSet>>
  <2>1. /\ Head(up[c]) \in Units /\ Tail(up[c]) \in Seq(Units)
        /\ Len(Tail(up[c])) = Len(up[c]) - 1 /\ Len(up[c]) \in Nat
    BY <1>1, HeadTailProperties, LenProperties DEF StreamTypeOK
  <2>2. StreamTypeOK'
    BY <1>1, <2>1, StreamAssumption DEF StreamTypeOK
  <2> QED BY <1>1, <2>1, <2>2, ServerTypes DEF Units
<1>2. CASE ClientClosed(c) /\ UNCHANGED streamVars
  BY <1>2, ServerTypes DEF ClientClosed, streamVars, StreamTypeOK
<1>3. CASE ServerEnds("EXITED")
  BY <1>3, ServerEndsTypesInv
<1> QED BY <1>1, <1>2, <1>3 DEF RecvHeader

LEMMA RecvPayloadTypes ==
  ASSUME TypesInv, IInv', UNCHANGED clientVars, NEW c \in Clients, RecvPayload(c)
  PROVE  TypesInv'
<1> USE DEF TypesInv, TypeOK
<1>1. current = c /\ need \in Nat /\ sBuf \in Seq(Units) /\ up[c] \in Seq(Units)
  BY DEF RecvPayload, ServerTypeOK, StreamTypeOK
<1>2. CASE /\ up' = [up EXCEPT ![c] = Leaves(@, sBuf, need)]
           /\ LET data == sBuf \o Takes(up[c], sBuf, need) IN
              IF Len(data) = need THEN StartEcho(c, data)
              ELSE sBuf' = data /\ UNCHANGED <<sAt, current, need, pollSet>>
           /\ UNCHANGED <<backlog, down, upEnd, downEnd, broken>>
           /\ sAt = "PAYLOAD"
  <2> DEFINE data == sBuf \o Takes(up[c], sBuf, need)
  <2>1. /\ Leaves(up[c], sBuf, need) \in Seq(Units) /\ Takes(up[c], sBuf, need) \in Seq(Units)
        /\ Len(Leaves(up[c], sBuf, need)) <= Len(up[c])
        /\ Len(up[c]) \in Nat /\ Len(Leaves(up[c], sBuf, need)) \in Nat
    BY <1>1, LeavesShorter
  <2>2. StreamTypeOK'
    <3>1. Len(Leaves(up[c], sBuf, need)) <= Capacity
      BY <2>1, StreamAssumption DEF StreamTypeOK
    <3> QED BY <1>2, <2>1, <3>1 DEF StreamTypeOK
  <2>3. data \in Seq(Units)
    BY <1>1, <2>1, ConcatProperties
  <2> HIDE DEF data
  <2>4. CASE StartEcho(c, data)
    BY <1>1, <2>2, <2>3, <2>4, PduType, ServerTypes DEF StartEcho
  <2>5. CASE sBuf' = data /\ UNCHANGED <<sAt, current, need, pollSet>>
    BY <1>1, <1>2, <2>2, <2>3, <2>5, ServerTypes
  <2> QED BY <1>2, <2>4, <2>5 DEF data
<1>3. CASE StartEcho(c, sBuf) /\ UNCHANGED streamVars
  BY <1>1, <1>3, PduType, ServerTypes DEF StartEcho, streamVars, StreamTypeOK
<1>4. CASE ClientClosed(c) /\ UNCHANGED streamVars
  BY <1>4, ServerTypes DEF ClientClosed, streamVars, StreamTypeOK
<1>5. CASE ServerEnds("EXITED")
  BY <1>5, ServerEndsTypesInv
<1> QED BY <1>2, <1>3, <1>4, <1>5 DEF RecvPayload

LEMMA SendToClientTypes ==
  ASSUME TypesInv, IInv', UNCHANGED clientVars, NEW c \in Clients, SendToClient(c)
  PROVE  TypesInv'
<1> USE DEF TypesInv, TypeOK
<1>1. sAt = "SEND" /\ current = c /\ sBuf # <<>> /\ sBuf \in Seq(Units) /\ need \in Nat
  BY DEF SendToClient, ServerTypeOK
<1>2. CASE /\ Len(down[c]) < Capacity
           /\ down' = [down EXCEPT ![c] = Append(@, Head(sBuf))]
           /\ sBuf' = Tail(sBuf)
           /\ IF Len(sBuf) = 1
              THEN sAt' = "POLL" /\ current' = Nobody /\ need' = 0
              ELSE UNCHANGED <<sAt, current, need>>
           /\ UNCHANGED <<backlog, up, upEnd, downEnd, broken>>
  <2>1. /\ Head(sBuf) \in Units /\ Tail(sBuf) \in Seq(Units)
        /\ Len(Tail(sBuf)) = Len(sBuf) - 1 /\ Len(sBuf) \in Nat \ {0}
    BY <1>1, HeadTailProperties, LenProperties, EmptySeq
  <2>2. /\ Append(down[c], Head(sBuf)) \in Seq(Units)
        /\ Len(Append(down[c], Head(sBuf))) <= Capacity
    <3>1. down[c] \in Seq(Units) /\ Len(down[c]) \in Nat
      BY LenProperties DEF StreamTypeOK
    <3> QED BY <1>2, <2>1, <3>1, AppendProperties, StreamAssumption
  <2>3. StreamTypeOK'
    BY <1>2, <2>2 DEF StreamTypeOK
  <2>4. sAt' = "SEND" => sBuf' # <<>>
    <3>1. Len(sBuf) # 1 => Len(sBuf') # 0
      BY <1>2, <2>1
    <3> QED BY <1>2, <3>1
  <2>5. current' \in Clients \cup {Nobody} /\ need' \in Nat
    BY <1>1, <1>2
  <2> QED BY <1>2, <2>1, <2>3, <2>4, <2>5, ServerTypes
<1>3. CASE ServerEnds("EXITED")
  BY <1>3, ServerEndsTypesInv
<1> QED BY <1>2, <1>3 DEF SendToClient

LEMMA ServerStepTypes == TypesInv /\ ServerStep => TypesInv'
<1> SUFFICES ASSUME TypesInv, ServerStep PROVE TypesInv'
  OBVIOUS
<1>1. IInv'
  BY ServerStepIInv DEF TypesInv
<1> QED BY <1>1, AddNewSocketTypes, ProcessStdinTypes, RecvHeaderTypes, RecvPayloadTypes,
           SendToClientTypes DEF ServerStep, ServerNext

LEMMA FaultStepTypes == TypesInv /\ FaultStep => TypesInv'
<1> SUFFICES ASSUME TypesInv, FaultStep PROVE TypesInv'
  OBVIOUS
<1>1. IInv' /\ UNCHANGED clientVars
  BY FaultStepIInv DEF TypesInv, FaultStep
<1>2. CASE ServerStopped
  BY <1>1, <1>2, ServerEndsTypesInv DEF ServerStopped
<1>3. CASE StdinHangsUp
  BY <1>1, <1>3, ServerTypes
     DEF StdinHangsUp, TypesInv, TypeOK, streamVars, StreamTypeOK, ServerTypeOK
<1> QED BY <1>2, <1>3 DEF FaultStep

-----------------------------------------------------------------------------
(* The types, continued: the clients.                                      *)

\* The parts of the types that a step of a client can disturb.
LEMMA ClientTypes ==
  ASSUME TypesInv, IInv', UNCHANGED serverVars, StreamTypeOK', ClientTypeOK',
         NEW c \in Clients,
         \A d \in Clients \ {c} : cAt'[d] = cAt[d] /\ cBuf'[d] = cBuf[d],
         cAt'[c] = "SEND" => cBuf'[c] # <<>>
  PROVE  TypesInv'
<1>1. ServerTypeOK' /\ UNCHANGED <<sAt, sBuf>>
  BY DEF TypesInv, TypeOK, ServerTypeOK, serverVars
<1> QED BY <1>1 DEF TypesInv, TypeOK

\* What a client holds of a PDU.
LEMMA HoldTypes ==
  ASSUME TypesInv, NEW c \in Clients, NEW n \in Nat, NEW units \in Seq(Units),
         Hold(c, n, units)
  PROVE  /\ cNeed' \in [Clients -> Nat] /\ cBuf' \in [Clients -> Seq(Units)]
         /\ cNeed'[c] = n /\ cBuf'[c] = units
         /\ \A d \in Clients \ {c} : cBuf'[d] = cBuf[d]
BY DEF TypesInv, TypeOK, ClientTypeOK, Hold

LEMMA EndHoldTypes ==
  ASSUME TypesInv, NEW c \in Clients, Hold(c, 0, <<>>)
  PROVE  /\ cNeed' \in [Clients -> Nat] /\ cBuf' \in [Clients -> Seq(Units)]
         /\ cNeed'[c] = 0 /\ cBuf'[c] = <<>>
         /\ \A d \in Clients \ {c} : cBuf'[d] = cBuf[d]
BY HoldTypes, EmptySeq

Places == {"START", "POLL", "READ", "SEND", "PAYLOAD", "TERMINATED", "FAILED", "KILLED"}

LEMMA GotoTypes ==
  ASSUME TypesInv, NEW c \in Clients, NEW at \in Places, Goto(c, at)
  PROVE  /\ cAt' \in [Clients -> Places] /\ cAt'[c] = at
         /\ \A d \in Clients \ {c} : cAt'[d] = cAt[d]
BY DEF TypesInv, TypeOK, ClientTypeOK, Goto, Places

LEMMA ClientEndsTypes ==
  ASSUME TypesInv, IInv', UNCHANGED serverVars, NEW c \in Clients,
         NEW how \in {"TERMINATED", "FAILED", "KILLED"}, ClientEnds(c, how),
         StreamTypeOK', UNCHANGED <<inputVars, sent, got>>
  PROVE  TypesInv'
<1>1. /\ cNeed' \in [Clients -> Nat] /\ cBuf' \in [Clients -> Seq(Units)]
      /\ \A d \in Clients \ {c} : cBuf'[d] = cBuf[d]
  BY EndHoldTypes DEF ClientEnds
<1>2. /\ cAt' \in [Clients -> Places] /\ cAt'[c] = how
      /\ \A d \in Clients \ {c} : cAt'[d] = cAt[d]
  BY GotoTypes DEF ClientEnds, Places
<1>3. ClientTypeOK'
  BY <1>1, <1>2 DEF TypesInv, TypeOK, ClientTypeOK, inputVars, Places
<1> QED BY <1>1, <1>2, <1>3, ClientTypes

LEMMA StreamFrame == TypesInv /\ UNCHANGED streamVars => StreamTypeOK'
BY DEF TypesInv, TypeOK, StreamTypeOK, streamVars

LEMMA ConnectTypes ==
  ASSUME TypesInv, IInv', UNCHANGED serverVars, NEW c \in Clients, Connect(c)
  PROVE  TypesInv'
<1>1. UNCHANGED <<inputVars, sent, cNeed, cBuf, got>>
  BY DEF Connect
<1>2. PICK at \in {"POLL", "FAILED"} : Goto(c, at)
  BY DEF Connect
<1>3. /\ cAt' \in [Clients -> Places] /\ cAt'[c] = at
      /\ \A d \in Clients \ {c} : cAt'[d] = cAt[d]
  BY <1>2, GotoTypes DEF Places
<1>4. ClientTypeOK'
  BY <1>1, <1>3 DEF TypesInv, TypeOK, ClientTypeOK, inputVars, Places
<1>5. StreamTypeOK'
  <2>1. backlog' \in Seq(Clients) /\ UNCHANGED <<up, down, upEnd, downEnd, broken>>
    BY DEF Connect, IInv, ConnectionTypes, streamVars
  <2> QED BY <2>1 DEF TypesInv, TypeOK, StreamTypeOK
<1> QED BY <1>1, <1>3, <1>4, <1>5, ClientTypes

\* A read that ends no chunk leaves the client in getchar.
LEMMA ReadPieceTypes ==
  ASSUME TypesInv, IInv', UNCHANGED serverVars, NEW c \in Clients, ReadPiece(c)
  PROVE  TypesInv'
<1>1. /\ UNCHANGED <<streamVars, stdio, stdinEof, typed, sent, cNeed, cBuf, got>>
      /\ Goto(c, "READ") /\ tty' = [tty EXCEPT ![c] = Tail(@)] /\ tty[c] # <<>>
  BY DEF ReadPiece
<1>2. /\ cAt' \in [Clients -> Places] /\ cAt'[c] = "READ"
      /\ \A d \in Clients \ {c} : cAt'[d] = cAt[d]
  BY <1>1, GotoTypes DEF Places
<1>3. tty' \in [Clients -> Seq(ReadSizes)]
  BY <1>1, HeadTailProperties DEF TypesInv, TypeOK, ClientTypeOK
<1>4. ClientTypeOK'
  BY <1>1, <1>2, <1>3 DEF TypesInv, TypeOK, ClientTypeOK, Places
<1> QED BY <1>1, <1>2, <1>4, StreamFrame, ClientTypes

LEMMA ProcessInputTypes ==
  ASSUME TypesInv, IInv', UNCHANGED serverVars, NEW c \in Clients, ProcessInput(c)
  PROVE  TypesInv'
<1>1. /\ UNCHANGED <<streamVars, stdinEof, typed, got>>
      /\ Goto(c, "SEND")
      /\ sent' = [sent EXCEPT ![c] = @ + 1]
      /\ Hold(c, 0, Pdu(c, Payload(c, sent[c] + 1)))
  BY DEF ProcessInput
<1>2. sent[c] \in 0 .. MaxMsgs /\ sent[c] + 1 \in 0 .. MaxMsgs /\ sent[c] + 1 \in Nat
  BY StreamAssumption DEF ProcessInput, InProcessStdin, TypesInv, TypeOK, ClientTypeOK
<1>3. /\ Pdu(c, Payload(c, sent[c] + 1)) \in Seq(Units)
      /\ Pdu(c, Payload(c, sent[c] + 1)) # <<>>
  BY <1>2, PayloadType, PduType
<1>4. stdio' \in [Clients -> Nat] /\ tty' \in [Clients -> Seq(ReadSizes)]
  <2>1. GetChunk(c) /\ stdio \in [Clients -> Nat] /\ tty \in [Clients -> Seq(ReadSizes)]
    BY DEF ProcessInput, TypesInv, TypeOK, ClientTypeOK
  <2>2. CASE stdio[c] > 0 /\ stdio' = [stdio EXCEPT ![c] = @ - 1] /\ UNCHANGED tty
    BY <2>1, <2>2
  <2>3. CASE /\ tty[c] # <<>> /\ Head(tty[c]) > 0
             /\ stdio' = [stdio EXCEPT ![c] = Head(tty[c]) - 1]
             /\ tty' = [tty EXCEPT ![c] = Tail(@)]
    <3>1. Head(tty[c]) \in ReadSizes /\ Tail(tty[c]) \in Seq(ReadSizes)
      BY <2>1, <2>3, HeadTailProperties
    <3>2. Head(tty[c]) \in Nat
      BY <3>1, ClientAssumption
    <3>3. Head(tty[c]) - 1 \in Nat
      BY <2>3, <3>2
    <3> QED BY <2>1, <2>3, <3>1, <3>2, <3>3
  <2> QED BY <2>1, <2>2, <2>3 DEF GetChunk
<1>5. /\ cNeed' \in [Clients -> Nat] /\ cBuf' \in [Clients -> Seq(Units)]
      /\ cBuf'[c] # <<>>
      /\ \A d \in Clients \ {c} : cBuf'[d] = cBuf[d]
  BY <1>1, <1>3, HoldTypes
<1>6. cAt' \in [Clients -> Places] /\ \A d \in Clients \ {c} : cAt'[d] = cAt[d]
  BY <1>1, GotoTypes DEF Places
<1>7. ClientTypeOK'
  BY <1>1, <1>2, <1>4, <1>5, <1>6 DEF TypesInv, TypeOK, ClientTypeOK, Places
<1>8. StreamTypeOK'
  BY <1>1 DEF TypesInv, TypeOK, StreamTypeOK, streamVars
<1> QED BY <1>5, <1>6, <1>7, <1>8, ClientTypes

LEMMA SendToServerTypes ==
  ASSUME TypesInv, IInv', UNCHANGED serverVars, NEW c \in Clients, SendToServer(c)
  PROVE  TypesInv'
<1>1. UNCHANGED <<inputVars, sent, got>> /\ cAt[c] = "SEND"
  BY DEF SendToServer
<1>2. CASE ClientEnds(c, "FAILED") /\ UNCHANGED streamVars
  BY <1>1, <1>2, StreamFrame, ClientEndsTypes
<1>3. CASE /\ Len(up[c]) < Capacity
           /\ up' = [up EXCEPT ![c] = Append(@, Head(cBuf[c]))]
           /\ Hold(c, 0, Tail(cBuf[c]))
           /\ Goto(c, IF Len(cBuf[c]) = 1 THEN "POLL" ELSE "SEND")
           /\ UNCHANGED <<backlog, down, upEnd, downEnd, broken>>
  <2>1. cBuf[c] \in Seq(Units) /\ cBuf[c] # <<>>
    BY <1>1 DEF TypesInv, TypeOK, ClientTypeOK
  <2>2. /\ Head(cBuf[c]) \in Units /\ Tail(cBuf[c]) \in Seq(Units)
        /\ Len(Tail(cBuf[c])) = Len(cBuf[c]) - 1 /\ Len(cBuf[c]) \in Nat \ {0}
    BY <2>1, HeadTailProperties, EmptySeq
  <2>3. up[c] \in Seq(Units) /\ Len(up[c]) \in Nat
    BY LenProperties DEF TypesInv, TypeOK, StreamTypeOK
  <2>4. /\ Append(up[c], Head(cBuf[c])) \in Seq(Units)
        /\ Len(Append(up[c], Head(cBuf[c]))) <= Capacity
    BY <1>3, <2>2, <2>3, AppendProperties, StreamAssumption
  <2>5. StreamTypeOK'
    BY <1>3, <2>4 DEF TypesInv, TypeOK, StreamTypeOK
  <2>6. /\ cNeed' \in [Clients -> Nat] /\ cBuf' \in [Clients -> Seq(Units)]
        /\ cBuf'[c] = Tail(cBuf[c])
        /\ \A d \in Clients \ {c} : cBuf'[d] = cBuf[d]
    BY <1>3, <2>2, HoldTypes
  <2>7. /\ cAt' \in [Clients -> Places]
        /\ cAt'[c] = IF Len(cBuf[c]) = 1 THEN "POLL" ELSE "SEND"
        /\ \A d \in Clients \ {c} : cAt'[d] = cAt[d]
    BY <1>3, GotoTypes DEF Places
  <2>8. ClientTypeOK'
    BY <1>1, <2>6, <2>7 DEF TypesInv, TypeOK, ClientTypeOK, inputVars, Places
  <2>9. cAt'[c] = "SEND" => cBuf'[c] # <<>>
    <3>1. Len(cBuf[c]) # 1 => Len(cBuf'[c]) # 0
      BY <2>2, <2>6
    <3> QED BY <2>7, <3>1
  <2> QED BY <2>5, <2>6, <2>7, <2>8, <2>9, ClientTypes
<1> QED BY <1>2, <1>3 DEF SendToServer

\* The client prints a message or takes a part of it.
LEMMA MessageOfType ==
  ASSUME NEW c \in Clients, NEW data PROVE MessageOf(c, data) \in 0 .. MaxMsgs
BY StreamAssumption DEF MessageOf, CutShort

LEMMA PrintMessageTypes ==
  ASSUME TypesInv, IInv', UNCHANGED serverVars, NEW c \in Clients, NEW data,
         PrintMessage(c, data), StreamTypeOK', UNCHANGED <<inputVars, sent>>
  PROVE  TypesInv'
<1>1. /\ cNeed' \in [Clients -> Nat] /\ cBuf' \in [Clients -> Seq(Units)]
      /\ \A d \in Clients \ {c} : cBuf'[d] = cBuf[d]
  BY EndHoldTypes DEF PrintMessage
<1>2. /\ cAt' \in [Clients -> Places] /\ cAt'[c] = "POLL"
      /\ \A d \in Clients \ {c} : cAt'[d] = cAt[d]
  BY GotoTypes DEF PrintMessage, Places
<1>3. got' \in [Clients -> Seq(0 .. MaxMsgs)]
  <2>1. got[c] \in Seq(0 .. MaxMsgs) /\ got \in [Clients -> Seq(0 .. MaxMsgs)]
    BY DEF TypesInv, TypeOK, ClientTypeOK
  <2>2. Append(got[c], MessageOf(c, data)) \in Seq(0 .. MaxMsgs)
    BY <2>1, MessageOfType, AppendProperties
  <2> QED BY <2>1, <2>2 DEF PrintMessage
<1>4. ClientTypeOK'
  BY <1>1, <1>2, <1>3 DEF TypesInv, TypeOK, ClientTypeOK, inputVars, Places
<1> QED BY <1>1, <1>2, <1>4, ClientTypes

LEMMA MsgFromServerTypes ==
  ASSUME TypesInv, IInv', UNCHANGED serverVars, NEW c \in Clients, MsgFromServer(c)
  PROVE  TypesInv'
<1>1. UNCHANGED <<inputVars, sent>>
  BY DEF MsgFromServer
<1>2. CASE /\ down[c] # <<>> /\ down' = [down EXCEPT ![c] = Tail(@)]
           /\ Hold(c, Head(down[c]).len, <<>>) /\ Goto(c, "PAYLOAD")
           /\ UNCHANGED <<backlog, up, upEnd, downEnd, broken, got>>
  <2>1. /\ Head(down[c]) \in Units /\ Tail(down[c]) \in Seq(Units)
        /\ Len(Tail(down[c])) = Len(down[c]) - 1 /\ Len(down[c]) \in Nat
    BY <1>2, HeadTailProperties, LenProperties DEF TypesInv, TypeOK, StreamTypeOK
  <2>2. StreamTypeOK'
    BY <1>2, <2>1, StreamAssumption DEF TypesInv, TypeOK, StreamTypeOK
  <2>3. /\ cNeed' \in [Clients -> Nat] /\ cBuf' \in [Clients -> Seq(Units)]
        /\ \A d \in Clients \ {c} : cBuf'[d] = cBuf[d]
    <3>1. Head(down[c]).len \in Nat /\ <<>> \in Seq(Units)
      BY <2>1, EmptySeq DEF Units
    <3> QED BY <1>2, <3>1, HoldTypes
  <2>4. /\ cAt' \in [Clients -> Places] /\ cAt'[c] = "PAYLOAD"
        /\ \A d \in Clients \ {c} : cAt'[d] = cAt[d]
    BY <1>2, GotoTypes DEF Places
  <2>5. ClientTypeOK'
    BY <1>1, <1>2, <2>3, <2>4 DEF TypesInv, TypeOK, ClientTypeOK, inputVars, Places
  <2> QED BY <2>2, <2>3, <2>4, <2>5, ClientTypes
<1>3. CASE RecvFails(c) \/ ServerTerminated(c)
  BY <1>1, <1>3, StreamFrame, ClientEndsTypes DEF RecvFails, ServerTerminated
<1> QED BY <1>2, <1>3 DEF MsgFromServer

LEMMA RecvMessageTypes ==
  ASSUME TypesInv, IInv', UNCHANGED serverVars, NEW c \in Clients, RecvMessage(c)
  PROVE  TypesInv'
<1>1. UNCHANGED <<inputVars, sent>> /\ cAt[c] = "PAYLOAD"
  BY DEF RecvMessage
<1>2. /\ down[c] \in Seq(Units) /\ Len(down[c]) <= Capacity
      /\ cBuf[c] \in Seq(Units) /\ cNeed[c] \in Nat
  BY DEF TypesInv, TypeOK, StreamTypeOK, ClientTypeOK
<1> DEFINE data == cBuf[c] \o Takes(down[c], cBuf[c], cNeed[c])
<1>3. /\ Leaves(down[c], cBuf[c], cNeed[c]) \in Seq(Units)
      /\ Len(Leaves(down[c], cBuf[c], cNeed[c])) <= Capacity
      /\ data \in Seq(Units)
  <2>1. /\ Leaves(down[c], cBuf[c], cNeed[c]) \in Seq(Units)
        /\ Takes(down[c], cBuf[c], cNeed[c]) \in Seq(Units)
        /\ Len(Leaves(down[c], cBuf[c], cNeed[c])) <= Len(down[c])
        /\ Len(down[c]) \in Nat /\ Len(Leaves(down[c], cBuf[c], cNeed[c])) \in Nat
    BY <1>2, LeavesShorter
  <2>2. Len(Leaves(down[c], cBuf[c], cNeed[c])) <= Capacity
    BY <1>2, <2>1, StreamAssumption
  <2>3. data \in Seq(Units)
    BY <1>2, <2>1, ConcatProperties
  <2> QED BY <2>1, <2>2, <2>3
<1> HIDE DEF data
<1>4. CASE /\ down' = [down EXCEPT ![c] = Leaves(@, cBuf[c], cNeed[c])]
           /\ IF Len(data) = cNeed[c] THEN PrintMessage(c, data)
              ELSE Hold(c, cNeed[c], data) /\ UNCHANGED <<cAt, got>>
           /\ UNCHANGED <<backlog, up, upEnd, downEnd, broken>>
  <2>1. StreamTypeOK'
    BY <1>3, <1>4 DEF TypesInv, TypeOK, StreamTypeOK
  <2>2. CASE PrintMessage(c, data)
    BY <1>1, <2>1, <2>2, PrintMessageTypes
  <2>3. CASE Hold(c, cNeed[c], data) /\ UNCHANGED <<cAt, got>>
    <3>1. /\ cNeed' \in [Clients -> Nat] /\ cBuf' \in [Clients -> Seq(Units)]
          /\ \A d \in Clients \ {c} : cBuf'[d] = cBuf[d]
      BY <1>2, <1>3, <2>3, HoldTypes
    <3>2. ClientTypeOK'
      BY <1>1, <2>3, <3>1 DEF TypesInv, TypeOK, ClientTypeOK, inputVars
    <3> QED BY <1>1, <2>1, <2>3, <3>1, <3>2, ClientTypes
  <2> QED BY <1>4, <2>2, <2>3
<1>5. CASE PrintMessage(c, cBuf[c]) /\ UNCHANGED streamVars
  BY <1>1, <1>5, StreamFrame, PrintMessageTypes
<1>6. CASE RecvFails(c) \/ ServerTerminated(c)
  BY <1>1, <1>6, StreamFrame, ClientEndsTypes DEF RecvFails, ServerTerminated
<1> QED BY <1>4, <1>5, <1>6 DEF RecvMessage, data

LEMMA ClientStepTypes ==
  ASSUME TypesInv, NEW c \in Clients, ClientStep(c) PROVE TypesInv'
<1>1. IInv' /\ UNCHANGED serverVars
  BY ClientStepIInv DEF TypesInv, ClientStep
<1> QED BY <1>1, ConnectTypes, ReadPieceTypes, ProcessInputTypes, SendToServerTypes,
           MsgFromServerTypes, RecvMessageTypes DEF ClientStep, ClientNext

LEMMA UserStepTypes ==
  ASSUME TypesInv, NEW c \in Clients, UserStep(c) PROVE TypesInv'
<1>1. IInv' /\ UNCHANGED serverVars
  BY UserStepIInv DEF TypesInv, UserStep
<1>2. CASE TypeLine(c)
  <2>1. PICK n \in ReadSizes :
          /\ typed[c] + n <= MaxMsgs
          /\ typed' = [typed EXCEPT ![c] = @ + n]
          /\ tty' = [tty EXCEPT ![c] = Append(@, n)]
    BY <1>2 DEF TypeLine
  <2>2. UNCHANGED <<streamVars, stdio, stdinEof, cAt, sent, cNeed, cBuf, got>>
    BY <1>2 DEF TypeLine
  <2>3. /\ typed[c] + n \in 0 .. MaxMsgs
        /\ Append(tty[c], n) \in Seq(ReadSizes)
    BY <2>1, AppendProperties, StreamAssumption, ClientAssumption
       DEF TypesInv, TypeOK, ClientTypeOK
  <2>4. ClientTypeOK'
    BY <2>1, <2>2, <2>3 DEF TypesInv, TypeOK, ClientTypeOK
  <2> QED BY <1>1, <2>2, <2>4, StreamFrame, ClientTypes DEF TypesInv
<1>3. CASE InputEnds(c)
  <2>1. /\ stdinEof' = [stdinEof EXCEPT ![c] = TRUE]
        /\ UNCHANGED <<streamVars, tty, stdio, typed, cAt, sent, cNeed, cBuf, got>>
    BY <1>3 DEF InputEnds
  <2>2. ClientTypeOK'
    BY <2>1 DEF TypesInv, TypeOK, ClientTypeOK
  <2> QED BY <1>1, <2>1, <2>2, StreamFrame, ClientTypes DEF TypesInv
<1>4. CASE KillClient(c)
  <2>1. upEnd' \in [Clients -> Ends]
    BY <1>1 DEF IInv, ConnectionTypes
  <2>2. StreamTypeOK'
    BY <1>4, <2>1 DEF KillClient, CloseClientEnd, TypesInv, TypeOK, StreamTypeOK
  <2> QED BY <1>1, <1>4, <2>2, ClientEndsTypes DEF KillClient
<1> QED BY <1>2, <1>3, <1>4 DEF UserStep

LEMMA ResetStepTypes ==
  ASSUME TypesInv, NEW c \in Clients, ResetStep(c) PROVE TypesInv'
<1>1. IInv' /\ UNCHANGED <<serverVars, clientVars>>
  BY ResetStepIInv DEF TypesInv, ResetStep
<1>2. /\ backlog' \in Seq(Clients) /\ upEnd' \in [Clients -> Ends]
      /\ broken' \in [Clients -> BOOLEAN] /\ UNCHANGED downEnd
  BY <1>1 DEF IInv, ConnectionTypes, ResetStep, Resets, ResetServerEnd, ResetClientEnd
<1>3. up[c] \in Seq(Units) /\ Len(up[c]) \in Nat /\ Len(up[c]) <= Capacity
  BY LenProperties DEF TypesInv, TypeOK, StreamTypeOK
<1>4. \A k \in 0 .. Len(up[c]) :
        SubSeq(up[c], 1, k) \in Seq(Units) /\ Len(SubSeq(up[c], 1, k)) <= Capacity
  <2> SUFFICES ASSUME NEW k \in 0 .. Len(up[c])
               PROVE  /\ SubSeq(up[c], 1, k) \in Seq(Units)
                      /\ Len(SubSeq(up[c], 1, k)) <= Capacity
    OBVIOUS
  <2>1. \A i \in 1 .. k : up[c][i] \in Units
    BY <1>3
  <2>2. /\ SubSeq(up[c], 1, k) \in Seq(Units)
        /\ Len(SubSeq(up[c], 1, k)) = IF 1 <= k THEN k - 1 + 1 ELSE 0
    BY <1>3, <2>1, SubSeqProperties
  <2> QED BY <1>3, <2>2, StreamAssumption
<1>5. <<>> \in Seq(Units) /\ Len(<<>>) <= Capacity
  BY EmptySeq, StreamAssumption
<1>6. /\ \E q \in Seq(Units) : Len(q) <= Capacity /\ up' = [up EXCEPT ![c] = q]
      /\ \/ UNCHANGED down
         \/ down' = [down EXCEPT ![c] = <<>>]
  BY <1>4, <1>5 DEF ResetStep, Resets, ResetServerEnd, ResetClientEnd
<1>7. StreamTypeOK'
  BY <1>2, <1>5, <1>6 DEF TypesInv, TypeOK, StreamTypeOK
<1>8. ClientTypeOK' /\ UNCHANGED <<cAt, cBuf>>
  BY <1>1 DEF TypesInv, TypeOK, ClientTypeOK, clientVars
<1> QED BY <1>1, <1>7, <1>8, ClientTypes DEF TypesInv

LEMMA NextTypes == TypesInv /\ [Next]_vars => TypesInv'
<1> SUFFICES ASSUME TypesInv, [Next]_vars PROVE TypesInv'
  OBVIOUS
<1>1. CASE UNCHANGED vars
  <2>1. IInv'
    BY <1>1, NextIInv DEF TypesInv
  <2> QED BY <1>1, <2>1 DEF vars, serverVars, streamVars, clientVars, TypesInv, TypeOK,
    StreamTypeOK, ServerTypeOK, ClientTypeOK
<1> QED BY <1>1, ServerStepTypes, FaultStepTypes, ClientStepTypes, UserStepTypes,
           ResetStepTypes DEF Next

\* All variables of the server, of its clients and of the connections keep their
\* types, and no stream exceeds its buffers (sendPDU, recvPDU).
THEOREM TypeCorrect == Spec => []TypeOK
<1>1. TypesInv => TypeOK
  BY DEF TypesInv
<1> QED BY <1>1, InitTypes, NextTypes, PTL DEF Spec
=============================================================================
