--------------------------- MODULE ListenerProofs ---------------------------
(***************************************************************************)
(* Proofs about Listener, for every set of rcopys, every number of         *)
(* retries, exchanges, descriptors and processes, and all faults.          *)
(***************************************************************************)
EXTENDS Listener, FiniteSetTheorems, TLAPS

-----------------------------------------------------------------------------
(* Requests and what is on its way.                                        *)

LEMMA RequestType ==
  \A q \in Requests : /\ q[1] \in Rcopys /\ q[2] \in 1 .. TIMEOUT_MAX
                      /\ q = <<q[1], q[2]>>
BY DEF Requests

LEMMA RequestsFinite == IsFiniteSet(Requests)
<1>1. IsFiniteSet(Rcopys) /\ IsFiniteSet(1 .. TIMEOUT_MAX)
  BY ListenerAssumption, FS_Interval
<1> QED BY <1>1, FS_Product DEF Requests

LEMMA SocketType ==
  ASSUME TypeOK, NEW r \in Rcopys
  PROVE  Socket(r) \in Requests /\ Socket(r)[1] = r /\ Socket(r)[2] = attempt[r]
BY DEF TypeOK, Socket, Requests

\* A datagram that joins those under way adds at most itself.
LEMMA SendAdds ==
  ASSUME NEW under, NEW d, NEW underNext, Send(under, d, underNext)
  PROVE  underNext \subseteq under \cup {d}
BY DEF Send

-----------------------------------------------------------------------------
(* How many children there are.                                            *)

Children == {q \in Requests : childAt[q] # "NONE"}

LEMMA ChildrenFinite == IsFiniteSet(Children)
BY RequestsFinite, FS_Subset DEF Children

\* A fork adds at most one, and only below the limit.
LEMMA ForkAdds ==
  ASSUME TypeOK, NEW q \in Requests, Cardinality(Children) < MAX_PROC,
         childAt' = [childAt EXCEPT ![q] = "STARTED"]
  PROVE  Cardinality(Children') <= MAX_PROC
<1>1. Children' = Children \cup {q}
  BY DEF Children, TypeOK
<1>2. Cardinality(Children) \in Nat
  BY ChildrenFinite, FS_CardinalityType
<1>3. Cardinality(Children \cup {q}) \in {Cardinality(Children), Cardinality(Children) + 1}
  BY ChildrenFinite, FS_AddElement
<1> QED BY <1>1, <1>2, <1>3, ListenerAssumption

\* A child that goes on or ends stays one.
LEMMA ChildStays ==
  ASSUME TypeOK, NEW q \in Requests, ChildRuns(q), NEW state \in {"SENDING", "ENDED"},
         childAt' = [childAt EXCEPT ![q] = state]
  PROVE  Children' = Children
BY DEF Children, TypeOK, ChildRuns

-----------------------------------------------------------------------------
(* The inductive invariant: the initial states, and one lemma per process. *)

LEMMA InitIInv == Init => IInv
<1> SUFFICES ASSUME Init PROVE IInv
  OBVIOUS
<1>1. TypeOK
  <2>1. {q \in Requests : childAt[q] # "NONE"} = {}
    BY DEF Init
  <2>2. Cardinality({q \in Requests : childAt[q] # "NONE"}) = 0
    BY <2>1, FS_EmptySet
  <2>3. 0 \in 0 .. MAX_FD - 1 /\ 0 \in 0 .. TIMEOUT_MAX /\ 1 \in 1 .. TIMEOUT_MAX
        /\ 1 \in 1 .. Rounds /\ 0 \in 0 .. Rounds /\ 0 <= MAX_PROC
    BY ListenerAssumption
  <2>4. openFiles \in Nat /\ NextDescriptor <= MAX_FD
    BY ListenerAssumption DEF Init, NextDescriptor, MainSocket
  <2> QED BY <2>2, <2>3, <2>4 DEF Init, TypeOK
<1>2. RetriesLeft
  BY ListenerAssumption DEF Init, RetriesLeft
<1>3. AnswersTrue /\ NotFoundIsTrue /\ Acknowledged
  BY RequestType DEF Init, AnswersTrue, NotFoundIsTrue, Acknowledged
<1> QED BY <1>1, <1>2, <1>3 DEF IInv, Init

LEMMA WaitFileNameIInv == IInv /\ WaitFileName => IInv'
<1> SUFFICES ASSUME IInv, WaitFileName PROVE IInv'
  OBVIOUS
<1>1. /\ asker' \in Requests \cup {NoRequest} /\ requests' \subseteq Requests
      /\ mainAt' \in {"PROCESS_FILENAME", "ENDED"}
      /\ mainAt' = "PROCESS_FILENAME" => asker' \in Requests
  BY DEF WaitFileName, IInv, TypeOK
<1>2. UNCHANGED <<openFiles, stdinHup, childVars, rcopyVars, answers, data, acks>>
  BY DEF WaitFileName
<1>3. TypeOK'
  BY <1>1, <1>2 DEF IInv, TypeOK, childVars, rcopyVars, NextDescriptor
<1> QED BY <1>1, <1>2, <1>3
        DEF IInv, childVars, rcopyVars, RetriesLeft, RcopyRuns, AnswersTrue,
            NotFoundIsTrue, Acknowledged

\* When fopen fails for want of a descriptor, so does the child's socket().
LEMMA ProcessFileNameIInv == IInv /\ ProcessFileName => IInv'
<1> SUFFICES ASSUME IInv, ProcessFileName PROVE IInv'
  OBVIOUS
<1> USE DEF IInv
<1>1. /\ asker \in Requests /\ asker' = NoRequest
      /\ openFiles' = openFiles + (IF Fopen(asker) THEN 1 ELSE 0)
      /\ UNCHANGED <<stdinHup, round, timeout, rcopyVars, wire>>
  BY DEF ProcessFileName
<1>2. openFiles' \in Nat /\ NextDescriptor' \in Nat /\ NextDescriptor' <= MAX_FD
  BY <1>1, ListenerAssumption DEF TypeOK, NextDescriptor, MainSocket, Fopen
<1>3. RetriesLeft' /\ NotFoundIsTrue' /\ Acknowledged'
  BY <1>1 DEF rcopyVars, wire, RetriesLeft, RcopyRuns, NotFoundIsTrue, Acknowledged
<1>4. CASE /\ Cardinality(Children) < MAX_PROC
           /\ childAt' = [childAt EXCEPT ![asker] = "STARTED"]
           /\ goodFile' = [goodFile EXCEPT ![asker] = Fopen(asker)]
           /\ childSocket' = [childSocket EXCEPT ![asker] = ChildDescriptor]
           /\ mainAt' = "WAIT_FILENAME"
  <2>1. ChildDescriptor \in 0 .. MAX_FD - 1
    BY <1>2, ListenerAssumption DEF ChildDescriptor
  <2>2. Cardinality(Children') <= MAX_PROC
    BY <1>1, <1>4, ForkAdds
  <2>3. TypeOK'
    BY <1>1, <1>2, <1>4, <2>1, <2>2 DEF TypeOK, rcopyVars, wire, Children, Fopen
  <2>4. asker[1] \in Existing /\ ChildDescriptor # 0 => Fopen(asker)
    BY <1>1, ListenerAssumption
       DEF Fopen, ChildDescriptor, NextDescriptor, MainSocket, TypeOK
  <2>5. AnswersTrue'
    BY <1>1, <1>4, <2>4 DEF AnswersTrue, TypeOK, wire
  <2> QED BY <1>3, <1>4, <2>3, <2>5
<1>5. CASE mainAt' = "EXITED" /\ UNCHANGED <<childAt, goodFile, childSocket>>
  <2>1. TypeOK' /\ AnswersTrue'
    BY <1>1, <1>2, <1>5 DEF TypeOK, rcopyVars, wire, AnswersTrue
  <2> QED BY <1>3, <1>5, <2>1
<1> QED BY <1>4, <1>5 DEF ProcessFileName, Children

-----------------------------------------------------------------------------
(* The children.                                                           *)

\* What an answer or data added to those under way leaves true.
LEMMA ChildAnswersIInv ==
  ASSUME IInv, NEW q \in Requests, ChildAnswers(q) PROVE IInv'
<1> USE DEF IInv
<1>1. /\ childAt[q] = "STARTED"
      /\ UNCHANGED <<mainVars, childSocket, goodFile, round, timeout, rcopyVars,
                     requests, acks>>
  BY DEF ChildAnswers, ChildEnds
<1>2. PICK state \in {"SENDING", "ENDED"} : childAt' = [childAt EXCEPT ![q] = state]
  BY DEF ChildAnswers, ChildEnds
<1>3. data' \subseteq data \cup {<<q, 1>>}
  BY SendAdds DEF ChildAnswers, SendData
<1>4. \/ answers' \subseteq answers \cup {<<q, TRUE>>}
      \/ /\ answers' \subseteq answers \cup {<<q, FALSE>>}
         /\ childSocket[q] # 0 /\ ~goodFile[q]
  BY SendAdds DEF ChildAnswers
<1>5. Children' = Children
  BY <1>1, <1>2, ChildStays DEF ChildRuns
<1>6. TypeOK'
  <2>1. 1 \in 1 .. Rounds
    BY ListenerAssumption
  <2>2. data' \subseteq Requests \X (1 .. Rounds)
    BY <1>3, <2>1 DEF TypeOK
  <2>3. <<q, TRUE>> \in Requests \X BOOLEAN /\ <<q, FALSE>> \in Requests \X BOOLEAN
    OBVIOUS
  <2>4. answers \subseteq Requests \X BOOLEAN
    BY DEF TypeOK
  <2>5. answers' \subseteq Requests \X BOOLEAN
    BY <1>4, <2>3, <2>4
  <2> QED BY <1>1, <1>2, <1>5, <2>2, <2>5
          DEF TypeOK, Children, mainVars, rcopyVars, NextDescriptor
<1>7. AnswersTrue'
  BY <1>1, <1>2, <1>4 DEF AnswersTrue, TypeOK
<1> QED BY <1>1, <1>6, <1>7
        DEF mainVars, rcopyVars, RetriesLeft, RcopyRuns, NotFoundIsTrue, Acknowledged

LEMMA ChildReceivesIInv ==
  ASSUME IInv, NEW q \in Requests, ChildReceives(q) PROVE IInv'
<1> USE DEF IInv
<1>1. /\ childAt[q] = "SENDING"
      /\ UNCHANGED <<mainVars, childSocket, goodFile, rcopyVars, requests, answers>>
  BY DEF ChildReceives
<1>2. PICK k \in 1 .. Rounds :
        /\ <<q, k>> \in acks
        /\ acks' = acks \ {<<q, k>>}
        /\ \/ /\ k = round[q] /\ k = Rounds
              /\ ChildEnds(q)
              /\ UNCHANGED data
           \/ /\ k = round[q] /\ k < Rounds
              /\ round' = [round EXCEPT ![q] = @ + 1]
              /\ timeout' = [timeout EXCEPT ![q] = 0]
              /\ Send(data, <<q, k + 1>>, data')
              /\ UNCHANGED childAt
           \/ /\ k < round[q]
              /\ timeout' = [timeout EXCEPT ![q] = IF round[q] = Rounds THEN @ ELSE 0]
              /\ UNCHANGED <<childAt, round, data>>
  BY DEF ChildReceives, SendData
<1>3. \/ UNCHANGED childAt
      \/ childAt' = [childAt EXCEPT ![q] = "ENDED"]
  BY <1>2 DEF ChildEnds
<1>4. Children' = Children
  <2>1. CASE UNCHANGED childAt
    BY <2>1 DEF Children
  <2>2. CASE childAt' = [childAt EXCEPT ![q] = "ENDED"]
    BY <1>1, <2>2, ChildStays DEF ChildRuns
  <2> QED BY <1>3, <2>1, <2>2
<1>5. \/ UNCHANGED round
      \/ /\ round[q] < Rounds
         /\ round' = [round EXCEPT ![q] = @ + 1]
  BY <1>2 DEF ChildEnds
<1>6. timeout' \in [Requests -> 0 .. TIMEOUT_MAX]
  BY <1>2, ListenerAssumption DEF ChildEnds, TypeOK
<1>7. data' \subseteq Requests \X (1 .. Rounds)
  <2>1. CASE UNCHANGED data
    BY <2>1 DEF TypeOK
  <2>2. CASE k < Rounds /\ Send(data, <<q, k + 1>>, data')
    <3>1. k + 1 \in 1 .. Rounds
      BY <2>2, ListenerAssumption
    <3>2. data' \subseteq data \cup {<<q, k + 1>>}
      BY <2>2, SendAdds
    <3> QED BY <3>1, <3>2 DEF TypeOK
  <2> QED BY <1>2, <2>1, <2>2
<1>8. TypeOK'
  <2>1. round' \in [Requests -> 1 .. Rounds]
    BY <1>5, ListenerAssumption DEF TypeOK
  <2>2. acks' \subseteq Requests \X (1 .. Rounds)
    BY <1>2 DEF TypeOK
  <2> QED BY <1>1, <1>3, <1>4, <1>6, <1>7, <2>1, <2>2
          DEF TypeOK, Children, mainVars, rcopyVars, NextDescriptor
<1>9. AnswersTrue'
  BY <1>1, <1>3 DEF AnswersTrue, TypeOK
\* A child moves on only when it has been acknowledged.
<1>10. Acknowledged'
  <2>1. \A p \in Requests : p # q => round'[p] = round[p]
    BY <1>5 DEF TypeOK
  <2>2. acks' \subseteq acks
    BY <1>2
  <2>3. UNCHANGED <<attempt, rAt>>
    BY <1>1 DEF rcopyVars
  <2> QED BY <1>2, <2>1, <2>2, <2>3 DEF Acknowledged
<1> QED BY <1>1, <1>8, <1>9, <1>10
        DEF mainVars, rcopyVars, RetriesLeft, RcopyRuns, NotFoundIsTrue

\* A child that ends takes nothing with it.
LEMMA ChildEndsIInv ==
  ASSUME IInv, NEW q \in Requests, childAt[q] = "SENDING", ChildEnds(q),
         UNCHANGED <<mainVars, childSocket, goodFile, rcopyVars, wire>>
  PROVE  IInv'
<1> USE DEF IInv
<1>1. childAt' = [childAt EXCEPT ![q] = "ENDED"] /\ UNCHANGED <<round, timeout>>
  BY DEF ChildEnds
<1>2. Children' = Children
  BY <1>1, ChildStays DEF ChildRuns
<1>3. TypeOK' /\ AnswersTrue'
  BY <1>1, <1>2 DEF TypeOK, AnswersTrue, Children, mainVars, rcopyVars, wire,
                    NextDescriptor
<1> QED BY <1>1, <1>3 DEF mainVars, rcopyVars, wire, RetriesLeft, RcopyRuns,
                          NotFoundIsTrue, Acknowledged

LEMMA RecvfromFailsIInv ==
  ASSUME IInv, NEW q \in Requests, RecvfromFails(q) PROVE IInv'
BY ChildEndsIInv DEF RecvfromFails

LEMMA ChildTimesOutIInv ==
  ASSUME IInv, NEW q \in Requests, ChildTimesOut(q) PROVE IInv'
<1> USE DEF IInv
<1>1. /\ childAt[q] = "SENDING"
      /\ UNCHANGED <<mainVars, childSocket, goodFile, round, rcopyVars, requests,
                     answers, acks>>
  BY DEF ChildTimesOut, ChildEnds
<1>2. CASE ChildEnds(q) /\ UNCHANGED data
  BY <1>1, <1>2, ChildEndsIInv DEF wire
<1>3. CASE /\ TimeoutsOf(q) <= TimeoutsAllowed(q)
           /\ timeout' = [timeout EXCEPT ![q] = TimeoutsOf(q)]
           /\ Send(data, <<q, round[q]>>, data')
           /\ UNCHANGED childAt
  <2>1. timeout' \in [Requests -> 0 .. TIMEOUT_MAX]
    BY <1>3, ListenerAssumption DEF TypeOK, TimeoutsOf, TimeoutsAllowed
  <2>2. data' \subseteq Requests \X (1 .. Rounds)
    <3>1. data' \subseteq data \cup {<<q, round[q]>>}
      BY <1>3, SendAdds
    <3> QED BY <3>1 DEF TypeOK
  <2>3. TypeOK' /\ AnswersTrue'
    BY <1>1, <1>3, <2>1, <2>2
       DEF TypeOK, AnswersTrue, mainVars, rcopyVars, NextDescriptor
  <2> QED BY <1>1, <2>3
          DEF mainVars, rcopyVars, RetriesLeft, RcopyRuns, NotFoundIsTrue, Acknowledged
<1> QED BY <1>2, <1>3 DEF ChildTimesOut, SendData

-----------------------------------------------------------------------------
(* The rcopys.                                                             *)

\* An rcopy that asks again has retries left, or has given up.
LEMMA AskAgainKeeps ==
  ASSUME IInv, NEW r \in Rcopys, RcopyRuns(r), AskAgain(r)
  PROVE  /\ attempt' \in [Rcopys -> 1 .. TIMEOUT_MAX]
         /\ rTimeout' \in [Rcopys -> 0 .. TIMEOUT_MAX]
         /\ \/ rAt' = [rAt EXCEPT ![r] = "GAVE_UP"] /\ UNCHANGED attempt
            \/ rAt' = [rAt EXCEPT ![r] = "SEND_FILENAME"]
         /\ RetriesLeft'
<1> USE DEF IInv
<1>1. /\ attempt[r] \in 1 .. TIMEOUT_MAX /\ rTimeout[r] \in 0 .. TIMEOUT_MAX
      /\ rTimeout[r] < TIMEOUT_MAX /\ attempt[r] <= rTimeout[r] + 1
  BY DEF TypeOK, RetriesLeft
<1>2. rTimeout' = [rTimeout EXCEPT ![r] = @ + 1]
  BY DEF AskAgain
<1>3. rTimeout' \in [Rcopys -> 0 .. TIMEOUT_MAX]
  BY <1>1, <1>2, ListenerAssumption DEF TypeOK
<1>4. CASE /\ rTimeout[r] + 1 >= TIMEOUT_MAX
           /\ rAt' = [rAt EXCEPT ![r] = "GAVE_UP"] /\ UNCHANGED attempt
  BY <1>1, <1>2, <1>3, <1>4, ListenerAssumption DEF TypeOK, RetriesLeft, RcopyRuns
<1>5. CASE /\ ~(rTimeout[r] + 1 >= TIMEOUT_MAX)
           /\ rAt' = [rAt EXCEPT ![r] = "SEND_FILENAME"]
           /\ attempt' = [attempt EXCEPT ![r] = @ + 1]
  <2>1. attempt' \in [Rcopys -> 1 .. TIMEOUT_MAX]
    BY <1>1, <1>5, ListenerAssumption DEF TypeOK
  <2>2. RetriesLeft'
    BY <1>1, <1>2, <1>5, ListenerAssumption DEF TypeOK, RetriesLeft, RcopyRuns
  <2> QED BY <1>3, <1>5, <2>1, <2>2
<1> QED BY <1>4, <1>5 DEF AskAgain

\* The steps that leave what has been acknowledged and the answers as they are,
\* or have one answer fewer.
LEMMA AnswersKept ==
  ASSUME AnswersTrue, UNCHANGED childVars, answers' \subseteq answers
  PROVE  AnswersTrue'
BY DEF AnswersTrue, childVars

LEMMA SendFileNameIInv ==
  ASSUME IInv, NEW r \in Rcopys, SendFileName(r) PROVE IInv'
<1> USE DEF IInv
<1>1. /\ rAt[r] = "SEND_FILENAME"
      /\ rAt' = [rAt EXCEPT ![r] = "WAIT_FOR_FILENAME_ACK"]
      /\ UNCHANGED <<mainVars, childVars, attempt, rTimeout, got, answers, data, acks>>
  BY DEF SendFileName
<1>2. requests' \subseteq requests \cup {Socket(r)}
  BY SendAdds DEF SendFileName
<1>3. TypeOK'
  BY <1>1, <1>2, SocketType DEF TypeOK, mainVars, childVars, NextDescriptor
<1>4. RetriesLeft' /\ NotFoundIsTrue'
  BY <1>1 DEF TypeOK, RetriesLeft, RcopyRuns, NotFoundIsTrue
<1>5. Acknowledged'
  BY <1>1, RequestType DEF TypeOK, Acknowledged, childVars
<1> QED BY <1>1, <1>3, <1>4, <1>5, AnswersKept DEF mainVars

LEMMA WaitForFileNameAckIInv ==
  ASSUME IInv, NEW r \in Rcopys, WaitForFileNameAck(r) PROVE IInv'
<1> USE DEF IInv
<1>1. /\ rAt[r] = "WAIT_FOR_FILENAME_ACK"
      /\ UNCHANGED <<mainVars, childVars, attempt, rTimeout, got, requests, data, acks>>
  BY DEF WaitForFileNameAck
<1>2. PICK good \in BOOLEAN :
        /\ <<Socket(r), good>> \in answers
        /\ answers' = answers \ {<<Socket(r), good>>}
        /\ rAt' = [rAt EXCEPT ![r] = IF good THEN "RECEIVE_FIRST_DATA" ELSE "NOT_FOUND"]
  BY DEF WaitForFileNameAck
<1>3. TypeOK'
  BY <1>1, <1>2 DEF TypeOK, mainVars, childVars, NextDescriptor
<1>4. RetriesLeft'
  BY <1>1, <1>2 DEF TypeOK, RetriesLeft, RcopyRuns
<1>5. NotFoundIsTrue'
  <2>1. CASE good
    BY <1>2, <2>1 DEF TypeOK, NotFoundIsTrue
  <2>2. CASE good = FALSE
    <3>1. r \notin Existing
      BY <1>2, <2>2, SocketType DEF AnswersTrue
    <3> QED BY <1>2, <3>1 DEF TypeOK, NotFoundIsTrue
  <2> QED BY <2>1, <2>2
<1>6. Acknowledged'
  BY <1>1, <1>2, RequestType DEF TypeOK, Acknowledged, childVars
<1> QED BY <1>1, <1>2, <1>3, <1>4, <1>5, <1>6, AnswersKept DEF mainVars

\* Nothing has been acknowledged from any socket when an rcopy asks again.
LEMMA AskAgainIInv ==
  ASSUME IInv, NEW r \in Rcopys, AskAgain(r),
         rAt[r] \in {"WAIT_FOR_FILENAME_ACK", "RECEIVE_FIRST_DATA"},
         UNCHANGED <<mainVars, childVars, got, wire>>
  PROVE  IInv'
<1> USE DEF IInv
<1>1. /\ attempt' \in [Rcopys -> 1 .. TIMEOUT_MAX]
      /\ rTimeout' \in [Rcopys -> 0 .. TIMEOUT_MAX]
      /\ \/ rAt' = [rAt EXCEPT ![r] = "GAVE_UP"] /\ UNCHANGED attempt
         \/ rAt' = [rAt EXCEPT ![r] = "SEND_FILENAME"]
      /\ RetriesLeft'
  BY AskAgainKeeps DEF RcopyRuns
<1>2. TypeOK'
  BY <1>1 DEF TypeOK, mainVars, childVars, wire, NextDescriptor
<1>3. NotFoundIsTrue'
  BY <1>1 DEF TypeOK, NotFoundIsTrue
<1>4. \A s \in Rcopys : s # r => attempt'[s] = attempt[s] /\ rAt'[s] = rAt[s]
  BY DEF AskAgain, TypeOK
<1>5. Acknowledged'
  BY <1>4, RequestType DEF Acknowledged, childVars, wire
<1> QED BY <1>1, <1>2, <1>3, <1>5, AnswersKept DEF mainVars, wire

\* An rcopy acknowledges at its current socket only, and goes on from there.
LEMMA RecvDataIInv ==
  ASSUME IInv, NEW r \in Rcopys, RecvData(r) PROVE IInv'
<1> USE DEF IInv
<1>1. /\ rAt[r] \in {"RECEIVE_FIRST_DATA", "RECEIVE_DATA"}
      /\ UNCHANGED <<mainVars, childVars, attempt, rTimeout, requests, answers>>
  BY DEF RecvData
<1>2. PICK k \in 1 .. Rounds :
        /\ <<Socket(r), k>> \in data
        /\ data' = data \ {<<Socket(r), k>>}
        /\ got' = [got EXCEPT ![r] = IF k = @ + 1 THEN k ELSE @]
        /\ Send(acks, <<Socket(r), k>>, acks')
        /\ rAt' = [rAt EXCEPT ![r] = IF got'[r] = Rounds THEN "DONE" ELSE "RECEIVE_DATA"]
  BY DEF RecvData
<1>3. acks' \subseteq acks \cup {<<Socket(r), k>>}
  BY <1>2, SendAdds
<1>4. PICK state \in {"DONE", "RECEIVE_DATA"} : rAt' = [rAt EXCEPT ![r] = state]
  BY <1>2
<1>5. TypeOK'
  <2>1. got' \in [Rcopys -> 0 .. Rounds]
    BY <1>2, ListenerAssumption DEF TypeOK
  <2>2. acks' \subseteq Requests \X (1 .. Rounds)
    BY <1>3, SocketType DEF TypeOK
  <2>3. data' \subseteq Requests \X (1 .. Rounds)
    BY <1>2 DEF TypeOK
  <2> QED BY <1>1, <1>4, <2>1, <2>2, <2>3
          DEF TypeOK, mainVars, childVars, NextDescriptor
<1>6. RetriesLeft' /\ NotFoundIsTrue'
  BY <1>1, <1>4 DEF TypeOK, RetriesLeft, RcopyRuns, NotFoundIsTrue
<1>7. Acknowledged'
  <2> SUFFICES ASSUME NEW q \in Requests,
                      round[q] > 1 \/ (\E n \in 1 .. Rounds : <<q, n>> \in acks')
               PROVE  /\ attempt[q[1]] = q[2]
                      /\ rAt'[q[1]] \in {"RECEIVE_DATA", "DONE", "GAVE_UP", "KILLED"}
    BY <1>1 DEF Acknowledged, childVars
  <2>1. CASE q = Socket(r)
    BY <1>4, <2>1, SocketType DEF TypeOK
  <2>2. CASE q # Socket(r)
    <3>1. /\ attempt[q[1]] = q[2]
          /\ rAt[q[1]] \in {"RECEIVE_DATA", "DONE", "GAVE_UP", "KILLED"}
      BY <1>3, <2>2 DEF Acknowledged
    <3> QED BY <1>4, <3>1, RequestType DEF TypeOK
  <2> QED BY <2>1, <2>2
<1> QED BY <1>1, <1>5, <1>6, <1>7, AnswersKept DEF mainVars

LEMMA BadDataIInv ==
  ASSUME IInv, NEW r \in Rcopys, BadData(r) PROVE IInv'
<1> USE DEF IInv
<1>1. /\ rAt[r] \in {"RECEIVE_FIRST_DATA", "RECEIVE_DATA"}
      /\ rAt' = [rAt EXCEPT ![r] = "RECEIVE_DATA"]
      /\ data' \subseteq data
      /\ UNCHANGED <<mainVars, childVars, attempt, rTimeout, got, requests,
                     answers, acks>>
  BY DEF BadData
<1>2. TypeOK'
  BY <1>1 DEF TypeOK, mainVars, childVars, NextDescriptor
<1>3. RetriesLeft' /\ NotFoundIsTrue'
  BY <1>1 DEF TypeOK, RetriesLeft, RcopyRuns, NotFoundIsTrue
<1>4. Acknowledged'
  BY <1>1, RequestType DEF TypeOK, Acknowledged, childVars
<1> QED BY <1>1, <1>2, <1>3, <1>4, AnswersKept DEF mainVars

LEMMA DataTimeoutIInv ==
  ASSUME IInv, NEW r \in Rcopys, DataTimeout(r) PROVE IInv'
<1> USE DEF IInv
<1>1. /\ rAt[r] \in {"RECEIVE_FIRST_DATA", "RECEIVE_DATA"}
      /\ UNCHANGED <<mainVars, childVars, got, wire>>
  BY DEF DataTimeout
<1>2. CASE rAt[r] = "RECEIVE_FIRST_DATA"
  BY <1>1, <1>2, AskAgainIInv DEF DataTimeout, DataTimeoutOf
<1>3. CASE rAt[r] = "RECEIVE_DATA"
  <2>1. /\ rTimeout' = [rTimeout EXCEPT ![r] = @ + 1]
        /\ rAt' = [rAt EXCEPT ![r] =
             IF rTimeout[r] + 1 >= TIMEOUT_MAX THEN "GAVE_UP" ELSE @]
        /\ UNCHANGED attempt
    BY <1>3 DEF DataTimeout, DataTimeoutOf
  <2>2. rTimeout[r] \in 0 .. TIMEOUT_MAX /\ rTimeout[r] < TIMEOUT_MAX
    BY <1>3 DEF TypeOK, RetriesLeft, RcopyRuns
  <2>3. TypeOK'
    <3>1. rTimeout' \in [Rcopys -> 0 .. TIMEOUT_MAX]
      BY <2>1, <2>2, ListenerAssumption DEF TypeOK
    <3> QED BY <1>1, <2>1, <3>1
            DEF TypeOK, mainVars, childVars, wire, NextDescriptor
  <2>4. RetriesLeft'
    BY <2>1, <2>2, <1>3, ListenerAssumption DEF TypeOK, RetriesLeft, RcopyRuns
  <2>5. NotFoundIsTrue'
    BY <1>3, <2>1 DEF TypeOK, NotFoundIsTrue
  <2>6. Acknowledged'
    BY <1>1, <1>3, <2>1, RequestType DEF TypeOK, Acknowledged, childVars, wire
  <2> QED BY <1>1, <2>3, <2>4, <2>5, <2>6, AnswersKept DEF mainVars, wire
<1> QED BY <1>1, <1>2, <1>3

LEMMA RcopyIInv ==
  ASSUME IInv, NEW r \in Rcopys, RcopyNext(r) PROVE IInv'
<1>1. CASE FileNameAckTimeout(r)
  BY <1>1, AskAgainIInv DEF FileNameAckTimeout
<1> QED BY <1>1, SendFileNameIInv, WaitForFileNameAckIInv, RecvDataIInv, BadDataIInv,
           DataTimeoutIInv DEF RcopyNext

LEMMA KillIInv ==
  ASSUME IInv, NEW r \in Rcopys, Kill(r) PROVE IInv'
<1> USE DEF IInv
<1>1. /\ rAt' = [rAt EXCEPT ![r] = "KILLED"]
      /\ UNCHANGED <<mainVars, childVars, attempt, rTimeout, got, wire>>
  BY DEF Kill
<1>2. TypeOK'
  BY <1>1 DEF TypeOK, mainVars, childVars, wire, NextDescriptor
<1>3. RetriesLeft' /\ NotFoundIsTrue' /\ Acknowledged'
  BY <1>1, RequestType
     DEF TypeOK, RetriesLeft, RcopyRuns, NotFoundIsTrue, Acknowledged, childVars, wire
<1> QED BY <1>1, <1>2, <1>3, AnswersKept DEF mainVars, wire

LEMMA StdinHangsUpIInv == IInv /\ StdinHangsUp => IInv'
<1> SUFFICES ASSUME IInv, StdinHangsUp PROVE IInv'
  OBVIOUS
<1>1. /\ stdinHup' = TRUE
      /\ UNCHANGED <<mainAt, asker, openFiles, childVars, rcopyVars, wire>>
  BY DEF StdinHangsUp
<1>2. TypeOK'
  BY <1>1 DEF IInv, TypeOK, childVars, rcopyVars, wire, NextDescriptor
<1> QED BY <1>1, <1>2
        DEF IInv, childVars, rcopyVars, wire, RetriesLeft, RcopyRuns, AnswersTrue,
            NotFoundIsTrue, Acknowledged

-----------------------------------------------------------------------------
(* The theorems.                                                           *)

LEMMA NextIInv == IInv /\ [Next]_vars => IInv'
<1> SUFFICES ASSUME IInv, [Next]_vars PROVE IInv'
  OBVIOUS
<1>1. CASE MainNext
  BY <1>1, WaitFileNameIInv, ProcessFileNameIInv DEF MainNext
<1>2. CASE StdinHangsUp
  BY <1>2, StdinHangsUpIInv
<1>3. CASE \E q \in Requests : ChildNext(q)
  BY <1>3, ChildAnswersIInv, ChildReceivesIInv, RecvfromFailsIInv, ChildTimesOutIInv
     DEF ChildNext
<1>4. CASE \E r \in Rcopys : RcopyNext(r) \/ Kill(r)
  BY <1>4, RcopyIInv, KillIInv
<1>5. CASE UNCHANGED vars
  BY <1>5 DEF vars, mainVars, childVars, rcopyVars, wire, IInv, TypeOK, NextDescriptor,
    RetriesLeft, RcopyRuns, AnswersTrue, NotFoundIsTrue, Acknowledged
<1> QED BY <1>1, <1>2, <1>3, <1>4, <1>5 DEF Next

\* The inductive invariant holds: for any number of rcopys and children no answer
\* is false and no child but an rcopy's current one has been acknowledged.
THEOREM Invariance == Spec => []IInv
<1> QED BY InitIInv, NextIInv, PTL DEF Spec

\* Every variable keeps its type: no counter leaves its range, descriptors and
\* processes stay within their limits (processFileName, stateMachine).
THEOREM TypeCorrect == Spec => []TypeOK
<1>1. IInv => TypeOK
  BY DEF IInv
<1> QED BY <1>1, Invariance, PTL

\* No rcopy is ever told that a file that is there was not found, although fopen
\* fails when the main server has run out of descriptors (processFileName).
THEOREM AnswersAreTrue == Spec => []NotFoundIsTrue
<1>1. IInv => NotFoundIsTrue
  BY DEF IInv
<1> QED BY <1>1, Invariance, PTL

\* However often an rcopy has asked, at most one of its children gets beyond its
\* first exchange (SEND_FILENAME_TIMEOUT, setupUdpClientToServer).
THEOREM OneChildServes == Spec => []OneChildAcknowledged
<1>1. IInv => OneChildAcknowledged
  <2> SUFFICES ASSUME Acknowledged, NEW q \in Requests, NEW q2 \in Requests,
                      round[q] > 1, round[q2] > 1, q[1] = q2[1]
               PROVE  q = q2
    BY DEF IInv, OneChildAcknowledged
  <2>1. q[2] = attempt[q[1]] /\ q2[2] = attempt[q[1]]
    BY DEF Acknowledged
  <2> QED BY <2>1, RequestType
<1> QED BY <1>1, Invariance, PTL
=============================================================================
