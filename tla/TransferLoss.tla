---------------------------- MODULE TransferLoss ----------------------------
(***************************************************************************)
(* Proofs of what holds without damage (FlipOn = FALSE) when the datagrams *)
(* of one direction, or of both, keep their order: every SREJ can be       *)
(* answered, rcopy never finds its buffer full, and what it waits for is   *)
(* never taken for a duplicate.  Losses and timeouts are unrestricted.     *)
(***************************************************************************)
EXTENDS TransferSafety

\* r is s with packets of P sent after it.
Grows(s, r, P) ==
  /\ r \in Seq(Packets)
  /\ Len(s) <= Len(r)
  /\ \A j \in 1 .. Len(s) : r[j] = s[j]
  /\ \A j \in Len(s) + 1 .. Len(r) : r[j] \in P

LEMMA GrowsSame ==
  ASSUME NEW s \in Seq(Packets), NEW P
  PROVE  Grows(s, s, P)
BY DEF Grows

LEMMA GrowsMore ==
  ASSUME NEW s, NEW r, NEW P, NEW Q, P \subseteq Q, Grows(s, r, P)
  PROVE  Grows(s, r, Q)
BY DEF Grows

\* Each of r's packets is one of s or of P.
LEMMA GrowsWhere ==
  ASSUME NEW s \in Seq(Packets), NEW r, NEW P, Grows(s, r, P), NEW j \in 1 .. Len(r)
  PROVE  \/ j \in 1 .. Len(s) /\ r[j] = s[j]
         \/ j \notin 1 .. Len(s) /\ r[j] \in P
<1>1. CASE j \in 1 .. Len(s)
  BY <1>1 DEF Grows
<1>2. CASE j \notin 1 .. Len(s)
  <2>1. j \in Len(s) + 1 .. Len(r)
    BY <1>2 DEF Grows
  <2> QED BY <1>2, <2>1 DEF Grows
<1> QED BY <1>1, <1>2

-----------------------------------------------------------------------------
(* Sending, when nothing is damaged.                                       *)

LEMMA ProcessEventsDrops ==
  ASSUME ~FlipOn, NEW p \in Packets, NEW out \in ProcessEvents(p)
  PROVE  /\ out \in Seq(Packets)
         /\ \A j \in 1 .. Len(out) : out[j] = p
<1>1. out = <<>> \/ out = <<p>>
  BY DEF ProcessEvents
<1>2. CASE out = <<>>
  BY <1>2
<1>3. CASE out = <<p>>
  BY <1>3
<1> QED BY <1>1, <1>2, <1>3

LEMMA ConcatGrows ==
  ASSUME NEW s \in Seq(Packets), NEW t \in Seq(Packets), NEW P,
         \A j \in 1 .. Len(t) : t[j] \in P
  PROVE  Grows(s, s \o t, P)
<1>1. /\ s \o t \in Seq(Packets) /\ Len(s \o t) = Len(s) + Len(t)
      /\ \A j \in 1 .. Len(s) : (s \o t)[j] = s[j]
      /\ \A j \in Len(s) + 1 .. Len(s) + Len(t) : (s \o t)[j] = t[j - Len(s)]
  OBVIOUS
<1>2. \A j \in Len(s) + 1 .. Len(s) + Len(t) : j - Len(s) \in 1 .. Len(t)
  OBVIOUS
<1> QED BY <1>1, <1>2 DEF Grows

LEMMA SendToGrows ==
  ASSUME ~FlipOn, NEW s \in Seq(Packets), NEW p \in Packets, NEW r, SendTo(s, p, r)
  PROVE  Grows(s, r, {p})
<1>1. PICK out \in ProcessEvents(p) : r = s \o out
  BY DEF SendTo
<1>2. out \in Seq(Packets) /\ \A j \in 1 .. Len(out) : out[j] \in {p}
  BY ProcessEventsDrops
<1> QED BY <1>1, <1>2, ConcatGrows

LEMMA SendBothToGrows ==
  ASSUME ~FlipOn, NEW s \in Seq(Packets), NEW p \in Packets, NEW q \in Packets, NEW r,
         SendBothTo(s, p, q, r)
  PROVE  Grows(s, r, {p, q})
<1>1. PICK out1 \in ProcessEvents(p), out2 \in ProcessEvents(q) : r = s \o out1 \o out2
  BY DEF SendBothTo
<1>2. /\ out1 \in Seq(Packets) /\ \A j \in 1 .. Len(out1) : out1[j] \in {p}
      /\ out2 \in Seq(Packets) /\ \A j \in 1 .. Len(out2) : out2[j] \in {q}
  BY ProcessEventsDrops
<1>3. Grows(s, s \o out1, {p}) /\ s \o out1 \in Seq(Packets)
  BY <1>2, ConcatGrows DEF Grows
<1>4. Grows(s \o out1, (s \o out1) \o out2, {q})
  BY <1>2, <1>3, ConcatGrows
<1> QED BY <1>1, <1>3, <1>4 DEF Grows

\* rcopy's answers when it expects n.
LEMMA SendAckGrows ==
  ASSUME ~FlipOn, toServer \in Seq(Packets), NEW n \in Nat
  PROVE  /\ SendRR(n) => Grows(toServer, toServer', {BuildRrPacket(n)})
         /\ SendSREJ(n) \/ SendSREJAndRR(n) => Grows(toServer, toServer', Acks(n))
<1> USE BuildTypes
<1>1. ASSUME SendRR(n) PROVE Grows(toServer, toServer', {BuildRrPacket(n)})
  <2>1. SendTo(toServer, BuildRrPacket(n), toServer')
    BY <1>1 DEF SendRR, SendAck
  <2> QED BY <2>1, SendToGrows
<1>2. ASSUME SendSREJ(n) PROVE Grows(toServer, toServer', Acks(n))
  <2>1. SendTo(toServer, BuildSrejPacket(n), toServer')
    BY <1>2 DEF SendSREJ, SendAck
  <2>2. Grows(toServer, toServer', {BuildSrejPacket(n)})
    BY <2>1, SendToGrows
  <2> QED BY <2>2, GrowsMore DEF Acks
<1>3. ASSUME SendSREJAndRR(n) PROVE Grows(toServer, toServer', Acks(n))
  <2>1. SendBothTo(toServer, BuildSrejPacket(n), BuildRrPacket(n), toServer')
    BY <1>3 DEF SendSREJAndRR
  <2>2. Grows(toServer, toServer', {BuildSrejPacket(n), BuildRrPacket(n)})
    BY <2>1, SendBothToGrows
  <2> QED BY <2>2 DEF Acks, Grows
<1> QED BY <1>1, <1>2, <1>3

-----------------------------------------------------------------------------
(* What rcopy asks for.                                                    *)

\* rcopy's answers when it expects n: it asks for n only if n has been sent.
Answers(n) == IF n < seqNum THEN Acks(n) ELSE {BuildRrPacket(n)}

LEMMA AnswersSay ==
  ASSUME NEW n
  PROVE  /\ BuildRrPacket(n) \in Answers(n)
         /\ n < seqNum => Answers(n) = Acks(n)
         /\ \A q \in Answers(n) : /\ q.ok
                                  /\ q.flag \in Asks => q.seq = n
                                  /\ q.flag = "SREJ" => n < seqNum
BY DEF Answers, Acks, BuildRrPacket, BuildSrejPacket, Asks

\* While rcopy buffers, it waits for a packet below one that it has received.
Waits == buffering => expected < highest /\ highest < seqNum

LEMMA ProcessAsks ==
  ASSUME ~FlipOn, IInv, Waits, NEW p \in Packets, NEW next,
         Genuine(p), p.seq < seqNum, ProcessPacket(p, next), seqNum' = seqNum,
         expected' \in Nat
  PROVE  Grows(toServer, toServer', Answers(expected')) /\ Waits'
<1>1. /\ toServer \in Seq(Packets) /\ expected \in Nat /\ seqNum \in Nat
      /\ p.seq \in Nat /\ highest \in Nat
  BY ServerFacts DEF TypeOK, RcopyTypeOK, Packets
<1>2. ASSUME SendRR(expected') PROVE Grows(toServer, toServer', Answers(expected'))
  <2>1. Grows(toServer, toServer', {BuildRrPacket(expected')})
    BY <1>1, <1>2, SendAckGrows
  <2> QED BY <2>1, AnswersSay, GrowsMore
<1>3. ASSUME expected' < seqNum, SendSREJ(expected') \/ SendSREJAndRR(expected')
      PROVE  Grows(toServer, toServer', Answers(expected'))
  <2>1. Grows(toServer, toServer', Acks(expected'))
    BY <1>1, <1>3, SendAckGrows
  <2> QED BY <1>3, <2>1, AnswersSay
<1>4. CASE ~buffering /\ WriteInOrder(p, next)
  <2>1. SendRR(expected') /\ ~buffering'
    BY <1>4 DEF WriteInOrder
  <2> QED BY <1>2, <2>1 DEF Waits
<1>5. CASE EnterBuffering(p, next)
  <2>1. /\ SendSREJ(expected') /\ expected' = expected /\ expected' < seqNum
        /\ expected < p.seq /\ highest' = p.seq
    BY <1>1, <1>5 DEF EnterBuffering
  <2> QED BY <1>3, <2>1 DEF Waits
<1>6. CASE ~buffering /\ AckLower(p, next)
  <2>1. SendRR(expected') /\ ~buffering'
    BY <1>6 DEF AckLower, transferVars
  <2> QED BY <1>2, <2>1 DEF Waits
<1>7. CASE buffering /\ ReplaceAndFlush(p, next)
  <2>1. /\ buffering' = (expected' < highest) /\ highest' = highest
        /\ IF expected' < highest THEN SendSREJAndRR(expected')
           ELSE SendRR(expected')
    BY <1>7 DEF ReplaceAndFlush
  <2>2. highest < seqNum
    BY <1>7 DEF Waits
  <2>3. CASE expected' < highest
    <3>1. expected' < seqNum
      BY <1>1, <2>2, <2>3
    <3> QED BY <1>3, <2>1, <2>2, <2>3, <3>1 DEF Waits
  <2>4. CASE ~(expected' < highest)
    BY <1>2, <2>1, <2>4 DEF Waits
  <2> QED BY <2>3, <2>4
<1>8. CASE buffering /\ BufferHigher(p, next)
  <2>1. /\ toServer' = toServer /\ expected' = expected /\ expected < p.seq
        /\ highest' = p.seq
    BY <1>1, <1>8 DEF BufferHigher
  <2> QED BY <1>1, <2>1, GrowsSame DEF Waits
<1>9. CASE buffering /\ AskAgain(next)
  <2>1. SendSREJAndRR(expected') /\ UNCHANGED <<expected, highest, buffering>>
    BY <1>9 DEF AskAgain, transferVars
  <2>2. expected < highest /\ highest < seqNum /\ expected' < seqNum
    BY <1>1, <1>9, <2>1 DEF Waits
  <2> QED BY <1>3, <2>1, <2>2 DEF Waits
<1> QED BY <1>4, <1>5, <1>6, <1>7, <1>8, <1>9
        DEF ProcessPacket, ProcessData, ProcessDataBuffering

\* What every step of rcopy but the change of socket comes to.
LEMMA RcopyAsks ==
  ASSUME SrejInv, IInv', UNCHANGED serverVars,
         NEW P, Grows(toServer, toServer', P),
         \A q \in P : /\ q.ok
                      /\ q.flag \in Asks => q.seq = expected'
                      /\ q.flag = "SREJ" => expected' < seqNum,
         \A j \in 1 .. Len(toClient') :
           \E k \in 1 .. Len(toClient) : toClient'[j] = toClient[k],
         expected <= expected', Waits'
  PROVE  Undamaged' /\ AskInv'
<1>1. /\ IInv /\ AckInv /\ Undamaged /\ AskInv /\ toServer \in Seq(Packets)
      /\ sWindow' = sWindow /\ seqNum' = seqNum
      /\ expected \in Nat /\ sWindow.lower \in Nat /\ sWindow.lower <= expected
  BY ServerFacts DEF SrejInv, IInv, serverVars
<1>2. expected' \in Nat
  BY DEF IInv, CommonInv, TypeInv, TypeOK, RcopyTypeOK
<1>3. ASSUME NEW j \in 1 .. Len(toServer')
      PROVE  \/ j \in 1 .. Len(toServer) /\ toServer'[j] = toServer[j]
             \/ j \notin 1 .. Len(toServer) /\ toServer'[j] \in P
  BY <1>1, GrowsWhere
<1>4. Undamaged'
  <2>1. \A j \in 1 .. Len(toServer') : toServer'[j].ok
    BY <1>1, <1>3 DEF Undamaged
  <2>2. \A j \in 1 .. Len(toClient') : toClient'[j].ok
    BY <1>1 DEF Undamaged
  <2> QED BY <1>1, <2>1, <2>2 DEF Undamaged
<1>5. ASSUME NEW j \in 1 .. Len(toServer), toServer[j].flag \in Asks
      PROVE  /\ toServer[j].seq \in Nat
             /\ sWindow.lower <= toServer[j].seq /\ toServer[j].seq <= expected
  <2>1. toServer[j].seq \in Nat
    <3>1. toServer[j] \in Packets
      BY <1>1
    <3> QED BY <3>1 DEF Packets
  <2>2. toServer[j].ok
    BY <1>1 DEF Undamaged
  <2> QED BY <1>1, <1>5, <2>1, <2>2 DEF AckInv, AskInv, Asks
<1>6. ASSUME NEW j \in 1 .. Len(toServer'), toServer'[j].flag \in Asks
      PROVE  /\ toServer'[j].seq \in Nat
             /\ sWindow.lower <= toServer'[j].seq /\ toServer'[j].seq <= expected'
             /\ j \notin 1 .. Len(toServer) => toServer'[j].seq = expected'
  BY <1>1, <1>2, <1>3, <1>5, <1>6
<1>7. ASSUME NEW j \in 1 .. Len(toServer'), toServer'[j].flag = "SREJ"
      PROVE  toServer'[j].seq < seqNum
  BY <1>1, <1>3, <1>7 DEF AskInv, Asks
<1>8. ASSUME NEW i \in 1 .. Len(toServer'), NEW j \in 1 .. Len(toServer'),
             j < i, toServer'[i].flag \in Asks, toServer'[j].flag \in Asks
      PROVE  toServer'[j].seq <= toServer'[i].seq
  <2>1. CASE i \in 1 .. Len(toServer)
    <3>1. j \in 1 .. Len(toServer)
      BY <1>8, <2>1
    <3>2. toServer'[i] = toServer[i] /\ toServer'[j] = toServer[j]
      BY <1>3, <2>1, <3>1
    <3> QED BY <1>1, <1>8, <2>1, <3>1, <3>2 DEF AskInv
  <2>2. CASE i \notin 1 .. Len(toServer)
    BY <1>2, <1>6, <1>8, <2>2
  <2> QED BY <2>1, <2>2
<1>9. \A j \in 1 .. Len(toServer') : toServer'[j].flag = "SREJ" =>
        LET n == toServer'[j].seq
        IN  sWindow.lower <= n /\ n <= expected' /\ n < seqNum
  BY <1>6, <1>7 DEF Asks
<1> QED BY <1>1, <1>4, <1>8, <1>9 DEF AskInv, Waits

\* A step of rcopy that sends nothing and writes nothing.
LEMMA QuietAsks ==
  ASSUME SrejInv, IInv', UNCHANGED <<serverVars, toServer, transferVars>>,
         highest' = highest \/ ~buffering,
         \A j \in 1 .. Len(toClient') :
           \E k \in 1 .. Len(toClient) : toClient'[j] = toClient[k]
  PROVE  Undamaged' /\ AskInv'
<1>1. Grows(toServer, toServer', {})
  BY GrowsSame, ServerFacts DEF SrejInv
<1>2. expected \in Nat /\ seqNum' = seqNum /\ UNCHANGED <<expected, buffering>>
  BY ServerFacts DEF SrejInv, serverVars, transferVars
<1>3. Waits'
  BY <1>2 DEF SrejInv, AskInv, Waits
<1> QED BY <1>1, <1>2, <1>3, RcopyAsks

LEMMA ReceiveAsks ==
  ASSUME ~FlipOn, SrejInv, IInv', UNCHANGED serverVars,
         NEW i \in Arrivals(toClient, DataReorder),
         toClient' = RemoveAt(toClient, i),
         \/ /\ IsValidPacket(toClient[i]) /\ toClient[i].flag \in DataFlags
            /\ \E next : ProcessPacket(toClient[i], next)
         \/ UNCHANGED <<toServer, highest, transferVars>>
  PROVE  Undamaged' /\ AskInv'
<1>1. /\ IInv /\ Waits /\ toClient \in Seq(Packets) /\ toServer \in Seq(Packets)
      /\ TypeOK /\ ServerInv /\ RcopyInv /\ seqNum' = seqNum
  BY ServerFacts DEF SrejInv, AskInv, Waits, serverVars
<1>2. i \in 1 .. Len(toClient) /\ toClient[i] \in Packets
  BY <1>1, ArrivalsLemma
<1>3. \A j \in 1 .. Len(toClient') :
        \E k \in 1 .. Len(toClient) : toClient'[j] = toClient[k]
  BY <1>1, <1>2, RemovedAreOld
<1>4. CASE /\ IsValidPacket(toClient[i]) /\ toClient[i].flag \in DataFlags
           /\ \E next : ProcessPacket(toClient[i], next)
  <2>1. PICK next : ProcessPacket(toClient[i], next)
    BY <1>4
  <2>2. Genuine(toClient[i]) /\ toClient[i].seq < seqNum
    BY <1>1, <1>2, <1>4, ServerFacts, DataIsGenuine
  <2>3. expected <= expected'
    BY <1>1, <2>1, ExpectsMore
  <2>4. expected' \in Nat
    BY DEF IInv, CommonInv, TypeInv, TypeOK, RcopyTypeOK
  <2>5. Grows(toServer, toServer', Answers(expected')) /\ Waits'
    BY <1>1, <1>2, <2>1, <2>2, <2>4, ProcessAsks
  <2> QED BY <1>1, <1>3, <2>3, <2>5, AnswersSay, RcopyAsks
<1>5. CASE UNCHANGED <<toServer, highest, transferVars>>
  BY <1>3, <1>5, QuietAsks
<1> QED BY <1>4, <1>5

LEMMA RcopyStepAsks ==
  ASSUME ~FlipOn, SrejInv, IInv', RcopyNext
  PROVE  Undamaged' /\ AskInv'
<1>1. /\ IInv /\ toClient \in Seq(Packets) /\ toServer \in Seq(Packets)
      /\ expected \in Nat /\ Undamaged
  BY ServerFacts DEF SrejInv
<1>2. ASSUME rState # "SEND_FILENAME_TIMEOUT" PROVE UNCHANGED serverVars
  BY <1>2 DEF RcopyNext
<1>3. CASE WaitForFileNameAck
  <2>1. PICK i \in Arrivals(toClient, DataReorder) : toClient' = RemoveAt(toClient, i)
    BY <1>3 DEF WaitForFileNameAck
  <2>2. /\ UNCHANGED <<serverVars, toServer, transferVars>>
        /\ ~buffering
    BY <1>1, <1>2, <1>3 DEF WaitForFileNameAck, IInv, CommonInv, NotBegun, Handshaking
  <2>3. i \in 1 .. Len(toClient)
    BY <1>1, ArrivalsLemma
  <2> QED BY <1>1, <2>1, <2>2, <2>3, RemovedAreOld, QuietAsks
<1>4. CASE RecvData
  <2>1. UNCHANGED serverVars
    BY <1>2, <1>4 DEF RecvData
  <2>2. PICK i \in Arrivals(toClient, DataReorder) :
          /\ toClient' = RemoveAt(toClient, i)
          /\ \/ /\ IsValidPacket(toClient[i]) /\ toClient[i].flag \in DataFlags
                /\ \E next : ProcessPacket(toClient[i], next)
             \/ UNCHANGED <<toServer, highest, transferVars>>
    BY <1>4 DEF RecvData
  <2> QED BY <2>1, <2>2, ReceiveAsks
<1>5. CASE RecvLastData
  <2>1. UNCHANGED serverVars
    BY <1>2, <1>5 DEF RecvLastData
  <2>2. PICK i \in Arrivals(toClient, DataReorder) :
          /\ toClient' = RemoveAt(toClient, i)
          /\ \/ ~IsValidPacket(toClient[i])
             \/ /\ IsValidPacket(toClient[i]) /\ toClient[i].flag \in DataFlags
                /\ \E next : ProcessPacket(toClient[i], next)
             \/ UNCHANGED <<toServer, highest, transferVars>>
    BY <1>5 DEF RecvLastData
  <2>3. IsValidPacket(toClient[i])
    BY <1>1, ArrivalsLemma DEF Undamaged, IsValidPacket
  <2> QED BY <2>1, <2>2, <2>3, ReceiveAsks
<1>6. CASE SendFileName \/ RcopyTimesOut
  <2>1. /\ rState # "SEND_FILENAME_TIMEOUT"
        /\ UNCHANGED <<toServer, toClient, highest, transferVars>>
    BY <1>6 DEF SendFileName, RcopyTimesOut, FileNameAckTimeout, FirstDataTimeout,
       RecvDataTimeout, LastDataTimeout, networkVars
  <2> QED BY <1>2, <2>1, QuietAsks
<1>7. CASE SendEofAck
  <2> DEFINE p == Reflag(BuildRrPacket(expected), "EOF_ACK")
  <2>1. /\ UNCHANGED <<toClient, highest, transferVars>>
        /\ rState # "SEND_FILENAME_TIMEOUT"
        /\ SendTo(toServer, p, toServer')
    BY <1>7 DEF SendEofAck, SendAck
  <2>2. p \in Packets /\ p.ok /\ p.flag = "EOF_ACK"
    BY <1>1, BuildTypes DEF Reflag, BuildRrPacket
  <2> HIDE DEF p
  <2>3. Grows(toServer, toServer', {p})
    BY <1>1, <2>1, <2>2, SendToGrows
  <2>4. /\ seqNum' = seqNum /\ UNCHANGED <<expected, buffering>>
        /\ UNCHANGED serverVars
    BY <1>2, <2>1 DEF serverVars, transferVars
  <2>5. Waits'
    BY <2>1, <2>4 DEF SrejInv, AskInv, Waits
  <2> QED BY <1>1, <2>1, <2>2, <2>3, <2>4, <2>5, RcopyAsks DEF Asks
<1>8. CASE SendFileNameTimeout
  <2>1. /\ toServer' = <<>> /\ toClient' = <<>> /\ ~buffering /\ buffering' = buffering
        /\ sWindow' = NewWindow
    BY <1>1, <1>8 DEF SendFileNameTimeout, NewSocket, transferVars, IInv, CommonInv, NotBegun,
       Handshaking, RcopyNext, ServerReset
  <2> QED BY <2>1, NewWindowEmpty DEF Undamaged, AskInv
<1> QED BY <1>3, <1>4, <1>5, <1>6, <1>7, <1>8
        DEF RcopyNext, RcopyReceives, RcopySends

-----------------------------------------------------------------------------
(* What the child is asked for, and sends.                                 *)

\* Every SREJ under way can be answered.
LEMMA SrejHeld ==
  ASSUME SrejInv, NEW i \in 1 .. Len(toServer), toServer[i].flag = "SREJ"
  PROVE  Held(toServer[i].seq) /\ toServer[i].seq \in Nat /\ toServer[i].seq <= expected
<1> DEFINE n == toServer[i].seq
<1>1. toServer[i] \in Packets /\ WindowInv /\ sWindow.lower \in Nat /\ seqNum \in Nat
  BY ServerFacts DEF SrejInv, IInv
<1>2. n \in Nat /\ sWindow.lower <= n /\ n <= expected /\ n < seqNum
  BY <1>1 DEF SrejInv, AskInv, Packets
<1>3. n \in sWindow.lower .. seqNum - 1
  BY <1>1, <1>2
<1> QED BY <1>1, <1>2, <1>3 DEF WindowInv

\* Sending once sends one packet at most.
LEMMA SendToOnce ==
  ASSUME NEW s \in Seq(Packets), NEW p \in Packets, NEW r, SendTo(s, p, r)
  PROVE  Len(r) <= Len(s) + 1
<1>1. PICK out \in ProcessEvents(p) : r = s \o out
  BY DEF SendTo
<1>2. out \in Seq(Packets) /\ Len(out) <= 1
  <2>1. out = <<>> \/ \E q \in Packets : out = <<q>>
    BY FlipsLemma DEF ProcessEvents
  <2>2. CASE out = <<>>
    BY <2>2
  <2>3. CASE \E q \in Packets : out = <<q>>
    BY <2>3
  <2> QED BY <2>1, <2>2, <2>3
<1>3. Len(s \o out) = Len(s) + Len(out)
  BY <1>2, JoinLemma
<1> QED BY <1>1, <1>2, <1>3

\* What one step of the child puts under way: nothing, or a packet that rcopy
\* has written or asked for, or the next one.
Sends(P) ==
  /\ Grows(toClient, toClient', P)
  /\ Len(toClient') <= Len(toClient) + 1
  /\ \A q \in P : /\ q.ok
                  /\ q.seq <= expected \/ (q.seq = seqNum /\ seqNum' = seqNum + 1)

LEMMA SendsNothing ==
  ASSUME toClient \in Seq(Packets), UNCHANGED toClient
  PROVE  Sends({})
BY GrowsSame DEF Sends

LEMMA SendsOne ==
  ASSUME ~FlipOn, toClient \in Seq(Packets), NEW p \in Packets,
         SendTo(toClient, p, toClient'), p.ok,
         p.seq <= expected \/ (p.seq = seqNum /\ seqNum' = seqNum + 1)
  PROVE  Sends({p})
BY SendToGrows, SendToOnce DEF Sends

\* Sending again what slot n holds.
LEMMA SendsElement ==
  ASSUME ~FlipOn, SrejInv, NEW n \in Nat, NEW flag \in DataFlags, NEW next,
         SendElement(GetPacket(sWindow, n), flag, next),
         GetPacket(sWindow, n).dataSize = 1 => GetPacket(sWindow, n).packet.seq <= expected
  PROVE  \E P : Sends(P)
<1> DEFINE e == GetPacket(sWindow, n)
           p == Reflag(e.packet, flag)
<1>1. /\ toClient \in Seq(Packets) /\ e \in Elements /\ Slot(n) \in Slots
  BY ServerFacts, GetPacketType, SlotType DEF SrejInv
<1>2. e.dataSize = 1 => e.packet.ok
  BY <1>1 DEF SrejInv, Undamaged, GetPacket
<1>3. /\ e.packet \in Packets /\ e.dataSize \in {0, 1}
      /\ e.dataSize = 1 => e.packet.seq <= expected
  BY <1>1 DEF Elements
<1>4. p \in Packets /\ p.seq = e.packet.seq /\ p.ok = e.packet.ok
  <2>1. p \in Packets
    BY <1>3, BuildTypes
  <2>2. \A q \in Packets : Reflag(q, flag).seq = q.seq /\ Reflag(q, flag).ok = q.ok
    BY DEF Reflag, Packets
  <2> QED BY <1>3, <2>1, <2>2
<1>5. CASE e.dataSize = 0
  BY <1>1, <1>5, SendsNothing DEF SendElement
<1>6. CASE e.dataSize = 1
  <2>1. SendTo(toClient, p, toClient')
    BY <1>6 DEF SendElement, SendToClient
  <2> HIDE DEF p, e
  <2> QED BY <1>1, <1>2, <1>3, <1>4, <1>6, <2>1, SendsOne
<1> QED BY <1>3, <1>5, <1>6

LEMMA ChildReceives ==
  ASSUME AckReorder = 0, ServerReceives, toServer \in Seq(Packets)
  PROVE  /\ 1 \in 1 .. Len(toServer) /\ Len(toServer) > 0
         /\ toServer' = RemoveAt(toServer, 1)
         /\ \E next : ProcessRrSrej(toServer[1], next)
         /\ UNCHANGED <<toMain, seqNum, filePos>>
<1>1. PICK i \in Arrivals(toServer, AckReorder) :
        /\ toServer' = RemoveAt(toServer, i)
        /\ \E next : ProcessRrSrej(toServer[i], next)
  BY DEF ServerReceives, DrainRrSrej, ClosedRrSrej, LastDataRrSrej
<1>2. i = 1 /\ i \in 1 .. Len(toServer) /\ Len(toServer) > 0
  BY DEF Arrivals
<1>3. UNCHANGED <<toMain, seqNum, filePos>>
  BY DEF ServerReceives, DrainRrSrej, ClosedRrSrej, LastDataRrSrej
<1> QED BY <1>1, <1>2, <1>3

LEMMA ChildSends ==
  ASSUME AckReorder = 0, ~FlipOn, SrejInv, ServerNext
  PROVE  \E P : Sends(P)
<1>1. /\ IInv /\ toClient \in Seq(Packets) /\ toServer \in Seq(Packets)
      /\ expected \in Nat \ {0} /\ seqNum \in Nat /\ sWindow.lower \in Nat
      /\ sWindow.lower <= expected /\ expected <= seqNum /\ sWindow.lower <= seqNum
      /\ WindowInv /\ ServerInv
  BY ServerFacts DEF SrejInv
<1>2. CASE ServerReceives
  <2>1. PICK next : ProcessRrSrej(toServer[1], next)
    BY <1>1, <1>2, ChildReceives
  <2>2. 1 \in 1 .. Len(toServer)
    BY <1>1, <1>2, ChildReceives
  <2> DEFINE e == GetPacket(sWindow, toServer[1].seq)
  <2>3. CASE toClient' = toClient
    BY <1>1, <2>3, SendsNothing
  <2>4. CASE /\ toServer[1].flag = "SREJ"
             /\ SendElement(e, ResendFlag(e, "SREJ_DATA"), next)
    <3>1. Held(toServer[1].seq) /\ toServer[1].seq \in Nat /\ toServer[1].seq <= expected
      BY <2>2, <2>4, SrejHeld
    <3>2. e.packet.seq = toServer[1].seq
      BY <3>1 DEF Held, Original, Reflag, BuildDataPacket
    <3>3. ResendFlag(e, "SREJ_DATA") \in DataFlags
      BY DEF ResendFlag, DataFlags
    <3> QED BY <2>4, <3>1, <3>2, <3>3, SendsElement
  <2> QED BY <2>1, <2>3, <2>4 DEF ProcessRrSrej
<1>3. CASE ProcessFileName
  <2>1. PICK goodFile \in FopenResults :
          SendTo(toClient, BuildFileNameRespPacket(goodFile), toClient')
    BY <1>3 DEF ProcessFileName, SendToClient
  <2> DEFINE p == BuildFileNameRespPacket(goodFile)
  <2>2. p \in Packets /\ p.ok /\ p.seq = 0
    BY BuildTypes, ServerAssumption DEF BuildFileNameRespPacket
  <2> HIDE DEF p
  <2>3. SendTo(toClient, p, toClient')
    BY <2>1 DEF p
  <2>4. p.seq <= expected
    BY <1>1, <2>2
  <2>5. Sends({p})
    BY <1>1, <2>2, <2>3, <2>4, SendsOne
  <2> QED BY <2>5
<1>4. CASE ReadFromDiskAndSend
  <2> DEFINE p == Reflag(BuildDataPacket(seqNum, filePos + 1),
                         IF filePos + 1 = NumChunks THEN "EOF" ELSE "DATA")
  <2>1. SendTo(toClient, p, toClient') /\ seqNum' = seqNum + 1
    BY <1>4 DEF ReadFromDiskAndSend, SendToClient
  <2>2. filePos + 1 \in Nat
    BY <1>1, ServerFacts
  <2>3. p \in Packets /\ p.ok /\ p.seq = seqNum
    BY <1>1, <2>2 DEF Reflag, BuildDataPacket, Packets, DataFlags
  <2> HIDE DEF p
  <2> QED BY <1>1, <2>1, <2>3, SendsOne
<1>5. CASE WindowClosed
  BY <1>1, <1>5, SendsNothing DEF WindowClosed, networkVars
<1>6. CASE ServerTimesOut
  <2> DEFINE e == GetPacket(sWindow, sWindow.lower)
  <2>1. \E flag \in DataFlags : \E next : SendElement(e, flag, next)
    BY <1>6 DEF ServerTimesOut, ClosedTimeout, LastDataResend, GetLowestPacket,
       ResendFlag, DataFlags
  <2>2. e.dataSize = 1 => e.packet.seq <= expected
    <3>1. CASE sWindow.lower < seqNum
      <4>1. Held(sWindow.lower)
        BY <1>1, <3>1 DEF WindowInv
      <4> QED BY <1>1, <4>1 DEF Held, Original, Reflag, BuildDataPacket
    <3>2. CASE sWindow.lower = seqNum
      <4>1. expected = seqNum /\ Slot(sWindow.lower) \in Slots
        BY <1>1, <3>2, SlotType
      <4>2. e.dataSize = 1 => Genuine(e.packet) /\ e.packet.seq < seqNum
        BY <1>1, <4>1 DEF ServerInv, GetPacket
      <4> QED BY <1>1, <4>1, <4>2 DEF Genuine
    <3> QED BY <1>1, <3>1, <3>2
  <2> HIDE DEF e
  <2>3. PICK flag \in DataFlags : \E next :
           SendElement(GetPacket(sWindow, sWindow.lower), flag, next)
    BY <2>1 DEF e
  <2>4. GetPacket(sWindow, sWindow.lower).dataSize = 1 =>
          GetPacket(sWindow, sWindow.lower).packet.seq <= expected
    BY <2>2 DEF e
  <2> QED BY <1>1, <2>3, <2>4, SendsElement
<1> QED BY <1>2, <1>3, <1>4, <1>5, <1>6 DEF ServerNext, ServerSends

LEMMA RemoveKeepsSlots ==
  ASSUME NEW w \in Windows, NEW n \in Nat, NEW i \in Slots
  PROVE  /\ RemovePacket(w, n).elements[i].packet = w.elements[i].packet
         /\ RemovePacket(w, n).elements[i].dataSize = w.elements[i].dataSize
BY RemovePacketLemma

\* What the child keeps and sends is undamaged.
LEMMA ChildUndamaged ==
  ASSUME AckReorder = 0, ~FlipOn, SrejInv, ServerNext
  PROVE  Undamaged'
<1>1. /\ IInv /\ Undamaged /\ ServerInv /\ toClient \in Seq(Packets)
      /\ toServer \in Seq(Packets) /\ sWindow \in Windows /\ seqNum \in Nat
      /\ filePos \in Nat /\ sWindow.current \in Nat
  BY ServerFacts DEF SrejInv
<1>2. \A j \in 1 .. Len(toClient') : toClient'[j].ok
  <2>1. PICK P : Sends(P)
    BY ChildSends
  <2>2. SUFFICES ASSUME NEW j \in 1 .. Len(toClient') PROVE toClient'[j].ok
    OBVIOUS
  <2>3. CASE j \in 1 .. Len(toClient) /\ toClient'[j] = toClient[j]
    BY <1>1, <2>3 DEF Undamaged
  <2>4. CASE toClient'[j] \in P
    BY <2>1, <2>4 DEF Sends
  <2> QED BY <1>1, <2>1, <2>3, <2>4, GrowsWhere DEF Sends
<1>3. \A j \in 1 .. Len(toServer') : toServer'[j].ok
  <2>1. CASE toServer' = toServer
    BY <1>1, <2>1 DEF Undamaged
  <2>2. CASE toServer' = RemoveAt(toServer, 1) /\ 1 \in 1 .. Len(toServer)
    BY <1>1, <2>2, RemovedAreOld DEF Undamaged
  <2>3. \/ toServer' = toServer
        \/ toServer' = RemoveAt(toServer, 1) /\ 1 \in 1 .. Len(toServer)
    BY <1>1, ChildReceives DEF ServerNext, ServerSends, ServerTimesOut,
       ProcessFileName, ReadFromDiskAndSend, WindowClosed, ClosedTimeout,
       LastDataResend, networkVars
  <2> QED BY <2>1, <2>2, <2>3
<1>4. \A i \in Slots : sWindow'.elements[i].dataSize = 1 =>
        sWindow'.elements[i].packet.ok
  <2>1. CASE sWindow' = sWindow
    BY <1>1, <2>1 DEF Undamaged
  <2>2. CASE sWindow' = NewWindow
    BY <2>2, NewWindowEmpty
  <2>3. CASE ServerReceives
    <3>1. PICK next : ProcessRrSrej(toServer[1], next)
      BY <1>1, <2>3, ChildReceives
    <3>2. toServer[1].seq \in Nat
      <4>1. toServer[1] \in Packets
        BY <1>1, <2>3, ChildReceives
      <4> QED BY <4>1 DEF Packets
    <3>3. \/ sWindow' = sWindow
          \/ sWindow' = RemovePacket(sWindow, toServer[1].seq)
      BY <3>1 DEF ProcessRrSrej
    <3>4. CASE sWindow' = RemovePacket(sWindow, toServer[1].seq)
      <4> DEFINE w == RemovePacket(sWindow, toServer[1].seq)
      <4>2. \A i \in Slots :
              /\ w.elements[i].packet = sWindow.elements[i].packet
              /\ w.elements[i].dataSize = sWindow.elements[i].dataSize
        BY <1>1, <3>2, RemoveKeepsSlots
      <4>3. sWindow' = w
        BY <3>4
      <4> HIDE DEF w
      <4> QED BY <1>1, <4>2, <4>3 DEF Undamaged
    <3> QED BY <2>1, <3>3, <3>4
  <2>4. CASE ReadFromDiskAndSend
    <3> DEFINE p == Reflag(BuildDataPacket(seqNum, filePos + 1),
                           IF filePos + 1 = NumChunks THEN "EOF" ELSE "DATA")
    <3>1. sWindow' = AddPacket(sWindow, p)
      BY <2>4 DEF ReadFromDiskAndSend
    <3>0. filePos + 1 \in Nat
      BY <1>1
    <3>2. p \in Packets /\ p.ok /\ p.seq = seqNum
      BY <1>1, <3>0 DEF Reflag, BuildDataPacket, Packets, DataFlags
    <3> HIDE DEF p
    <3>3. SlotsFrom(sWindow.current, p.seq) = {}
      BY <1>1, <3>2 DEF SlotsFrom, ServerInv
    <3>4. \A i \in Slots : sWindow'.elements[i] =
            IF i = Slot(p.seq) THEN Stored(p) ELSE sWindow.elements[i]
      BY <1>1, <3>1, <3>2, <3>3, AddPacketLemma
    <3>5. Stored(p).packet.ok
      BY <3>2 DEF Stored
    <3> QED BY <1>1, <3>4, <3>5 DEF Undamaged
  <2> QED BY <2>1, <2>2, <2>3, <2>4
          DEF ServerNext, ServerSends, ServerTimesOut, ProcessFileName,
              WindowClosed, ClosedTimeout, LastDataResend, ServerReset
<1> QED BY <1>2, <1>3, <1>4 DEF Undamaged

\* The child takes the oldest RR or SREJ: those behind it name no less.
LEMMA AsksRemoved ==
  ASSUME SrejInv, IInv', Len(toServer) > 0, toServer' = RemoveAt(toServer, 1),
         UNCHANGED <<seqNum, expected, highest, buffering>>,
         \/ sWindow'.lower = sWindow.lower
         \/ toServer[1].flag = "RR" /\ sWindow'.lower = toServer[1].seq
  PROVE  AskInv'
<1>1. /\ IInv /\ AckInv /\ Undamaged /\ AskInv /\ toServer \in Seq(Packets)
      /\ 1 \in 1 .. Len(toServer)
  BY ServerFacts DEF SrejInv, IInv
<1>2. /\ Len(toServer') = Len(toServer) - 1
      /\ \A j \in 1 .. Len(toServer') : toServer'[j] = toServer[j + 1]
  <2>1. /\ Len(RemoveAt(toServer, 1)) = Len(toServer) - 1
        /\ \A j \in 1 .. Len(toServer) - 1 : RemoveAt(toServer, 1)[j] =
             IF j < 1 THEN toServer[j] ELSE toServer[j + 1]
    BY <1>1, RemoveAtLemma
  <2> QED BY <2>1
<1>3. \A j \in 1 .. Len(toServer') : j + 1 \in 1 .. Len(toServer) /\ 1 < j + 1
  BY <1>2
<1>4. ASSUME NEW j \in 1 .. Len(toServer'), toServer'[j].flag = "SREJ"
      PROVE  LET n == toServer'[j].seq
             IN  sWindow'.lower <= n /\ n <= expected /\ n < seqNum
  <2>1. toServer'[j] = toServer[j + 1] /\ j + 1 \in 1 .. Len(toServer) /\ 1 < j + 1
    BY <1>2, <1>3
  <2>2. toServer[1].flag = "RR" => toServer[1].seq <= toServer[j + 1].seq
    BY <1>1, <1>4, <2>1 DEF AskInv, Asks
  <2> QED BY <1>1, <1>4, <2>1, <2>2 DEF AskInv
<1>5. ASSUME NEW i \in 1 .. Len(toServer'), NEW j \in 1 .. Len(toServer'), j < i,
             toServer'[i].flag \in Asks, toServer'[j].flag \in Asks
      PROVE  toServer'[j].seq <= toServer'[i].seq
  <2>1. /\ i + 1 \in 1 .. Len(toServer) /\ j + 1 \in 1 .. Len(toServer)
        /\ j + 1 < i + 1
    BY <1>3, <1>5
  <2>2. toServer'[i] = toServer[i + 1] /\ toServer'[j] = toServer[j + 1]
    BY <1>2
  <2> QED BY <1>1, <1>5, <2>1, <2>2 DEF AskInv
<1> QED BY <1>1, <1>4, <1>5 DEF AskInv

LEMMA ChildAsks ==
  ASSUME AckReorder = 0, ~FlipOn, SrejInv, IInv', ServerNext
  PROVE  AskInv'
<1>1. /\ IInv /\ AskInv /\ toServer \in Seq(Packets) /\ sWindow \in Windows
      /\ seqNum \in Nat /\ UNCHANGED <<expected, highest, buffering>>
  BY ServerFacts DEF SrejInv, ServerNext, rcopyVars
<1>2. CASE ServerReceives
  <2>1. /\ Len(toServer) > 0 /\ 1 \in 1 .. Len(toServer)
        /\ toServer' = RemoveAt(toServer, 1) /\ seqNum' = seqNum
        /\ \E next : ProcessRrSrej(toServer[1], next)
    BY <1>1, <1>2, ChildReceives
  <2>2. toServer[1].seq \in Nat
    <3>1. toServer[1] \in Packets
      BY <1>1, <2>1
    <3> QED BY <3>1 DEF Packets
  <2>3. \/ sWindow' = sWindow
        \/ /\ toServer[1].flag = "RR"
           /\ sWindow' = RemovePacket(sWindow, toServer[1].seq)
    BY <2>1 DEF ProcessRrSrej
  <2>4. \/ sWindow'.lower = sWindow.lower
        \/ toServer[1].flag = "RR" /\ sWindow'.lower = toServer[1].seq
    BY <1>1, <2>2, <2>3, RemovePacketLemma
  <2> QED BY <1>1, <2>1, <2>4, AsksRemoved
<1>3. CASE ProcessFileName
  <2>1. /\ sWindow = NewWindow /\ seqNum = 1 /\ toServer' = toServer
        /\ sWindow' = NewWindow /\ seqNum' = 1
    BY <1>1, <1>3 DEF ProcessFileName, ServerReset, SEQ_NUM_START, IInv, CommonInv, NoChild
  <2> QED BY <1>1, <2>1 DEF AskInv
<1>4. CASE ReadFromDiskAndSend
  <2>1. /\ toServer' = toServer /\ seqNum' = seqNum + 1
        /\ sWindow'.lower = sWindow.lower
    BY <1>4 DEF ReadFromDiskAndSend, AddPacket
  <2>2. highest \in Nat /\ \A i \in 1 .. Len(toServer) : toServer[i].seq \in Nat
    <3>1. \A i \in 1 .. Len(toServer) : toServer[i] \in Packets
      BY <1>1
    <3> QED BY <1>1, <3>1 DEF IInv, CommonInv, TypeInv, TypeOK, RcopyTypeOK, Packets
  <2> QED BY <1>1, <2>1, <2>2 DEF AskInv
<1>5. CASE WindowClosed \/ ServerTimesOut
  <2>1. UNCHANGED <<toServer, sWindow, seqNum>>
    BY <1>5 DEF WindowClosed, ServerTimesOut, ClosedTimeout, LastDataResend, networkVars
  <2> QED BY <1>1, <2>1 DEF AskInv
<1> QED BY <1>2, <1>3, <1>4, <1>5 DEF ServerNext, ServerSends

-----------------------------------------------------------------------------
(* rcopy's buffer, when the data keep their order too.                     *)

\* addPacket of a packet above all that have come: there is room for it, and it
\* skips nothing that rcopy has.
LEMMA BufferPacketInOrder ==
  ASSUME SrejInv, BufferInv, NEW p \in Packets, NEW next, Genuine(p), p.seq < seqNum,
         expected < p.seq, rWindow.current <= p.seq, BufferPacket(p, next),
         ~PacketValidInWindow(rWindow, expected)
  PROVE  /\ rState' = next
         /\ rWindow'.current = p.seq + 1
         /\ \A i \in Slots : rWindow'.elements[i].valid =>
              rWindow'.elements[i].packet.seq < rWindow'.current
         /\ ~PacketValidInWindow(rWindow', expected)
<1>1. /\ rWindow \in Windows /\ rWindow.current \in Nat /\ p.seq \in Nat
      /\ expected \in Nat \ {0} /\ seqNum \in Nat /\ WindowSize \in Nat \ {0}
      /\ seqNum <= expected + WindowSize /\ rWindow.upper = expected + WindowSize
      /\ Slot(expected) \in Slots
  BY ServerFacts, SlotType
     DEF SrejInv, TypeOK, RcopyTypeOK, RcopyInv, Windows, Packets
<1>2. p.seq < expected + WindowSize /\ IsWindowOpen(rWindow)
  BY <1>1 DEF IsWindowOpen
<1> DEFINE w == AddPacket(rWindow, p)
<1>3. rWindow' = w /\ rState' = next
  BY <1>2 DEF BufferPacket
<1>4. /\ w.current = p.seq + 1
      /\ \A i \in Slots :
           /\ w.elements[i].packet =
                IF i = Slot(p.seq) THEN p ELSE rWindow.elements[i].packet
           /\ w.elements[i].valid => i = Slot(p.seq) \/ rWindow.elements[i].valid
  BY <1>1, AddPacketLemma
<1> HIDE DEF w
<1>5. ASSUME NEW i \in Slots, w.elements[i].valid
      PROVE  w.elements[i].packet.seq < w.current
  <2>1. CASE i = Slot(p.seq)
    BY <1>1, <1>4, <2>1
  <2>2. CASE i # Slot(p.seq)
    <3>1. /\ rWindow.elements[i].valid
          /\ w.elements[i].packet = rWindow.elements[i].packet
      BY <1>4, <1>5, <2>2
    <3>2. rWindow.elements[i].packet \in Packets
      BY <1>1 DEF Windows, Elements
    <3>3. /\ rWindow.elements[i].packet.seq \in Nat
          /\ rWindow.elements[i].packet.seq < rWindow.current
      BY <3>1, <3>2 DEF BufferInv, Packets
    <3> QED BY <1>1, <1>4, <3>1, <3>3
  <2> QED BY <2>1, <2>2
<1>6. Slot(expected) # Slot(p.seq)
  BY <1>1, <1>2, SlotInjective
<1>7. ~PacketValidInWindow(w, expected)
  BY <1>1, <1>4, <1>6 DEF PacketValidInWindow
<1> QED BY <1>3, <1>4, <1>5, <1>7

LEMMA InSlotsFrom ==
  ASSUME NEW from, NEW to, NEW i \in from .. (to - 1)
  PROVE  Slot(i) \in SlotsFrom(from, to)
BY DEF SlotsFrom

\* checkWindowState finds the packet just stored, and all behind it up to the
\* first one missing: rcopy leaves buffer mode with an empty buffer.
LEMMA FlushInOrder ==
  ASSUME SrejInv, IInv', BufferInv, NEW p \in Packets, NEW next, Genuine(p),
         buffering, ReplaceAndFlush(p, next)
  PROVE  BufferInv' /\ rState' = next
<1> DEFINE w == ReplacePacket(rWindow, p)
<1>1. /\ rWindow \in Windows /\ rWindow.current \in Nat /\ p.seq = expected
      /\ expected \in Nat \ {0} /\ highest \in Nat /\ Slot(expected) \in Slots
      /\ rWindow.lower = expected /\ expected < highest
      /\ rWindow.current = highest + 1 /\ highest' = highest /\ rState' = next
  BY ServerFacts, SlotType
     DEF SrejInv, AskInv, BufferInv, TypeOK, RcopyTypeOK, RcopyInv, Windows,
         ReplaceAndFlush
<1>2. /\ w \in Windows /\ w.lower = expected /\ w.current = highest + 1
      /\ \A i \in Slots : w.elements[i] =
           IF i = Slot(expected) THEN Stored(p) ELSE rWindow.elements[i]
  BY <1>1, ReplacePacketLemma
<1>3. PICK n \in InorderValidPackets(w) :
        /\ expected' = expected + n
        /\ rWindow' = IF n > 0 THEN RemovePacket(w, expected + n) ELSE w
        /\ buffering' <=> expected + n < highest
  BY DEF ReplaceAndFlush
<1> HIDE DEF w
<1>4. /\ Span(w) = (highest + 1) - expected
      /\ n \in Nat /\ n <= Span(w)
      /\ n = Span(w) \/ ~PacketValidInWindow(w, expected + n)
  BY <1>1, <1>2 DEF Span, InorderValidPackets
<1>5. n > 0
  <2>1. Stored(p).valid
    BY DEF Stored
  <2>2. PacketValidInWindow(w, expected + 0)
    BY <1>1, <1>2, <2>1 DEF PacketValidInWindow
  <2> QED BY <1>1, <1>4, <2>2
<1> DEFINE r == RemovePacket(w, expected + n)
<1>6. rWindow' = r /\ expected + n \in Nat /\ Slot(expected + n) \in Slots
  <2>1. expected + n \in Nat
    BY <1>1, <1>4
  <2> QED BY <1>3, <1>5, <2>1, SlotType
<1>7. /\ r.current = highest + 1
      /\ \A i \in Slots :
           /\ r.elements[i].packet = w.elements[i].packet
           /\ r.elements[i].valid =>
                w.elements[i].valid /\ i \notin SlotsFrom(expected, expected + n)
  BY <1>2, <1>6, RemovePacketLemma
<1> HIDE DEF r
<1>8. Slot(expected) \in SlotsFrom(expected, expected + n)
  <2>1. expected \in expected .. ((expected + n) - 1)
    BY <1>1, <1>4, <1>5
  <2> QED BY <2>1, InSlotsFrom
<1>9. ASSUME NEW i \in Slots, r.elements[i].valid
      PROVE  /\ r.elements[i].packet.seq < r.current
             /\ w.elements[i].valid
             /\ r.elements[i].packet.seq \in Nat
  <2>1. /\ i # Slot(expected) /\ w.elements[i].valid
        /\ r.elements[i].packet = w.elements[i].packet
    BY <1>7, <1>8, <1>9
  <2>2. w.elements[i] = rWindow.elements[i]
    BY <1>2, <2>1
  <2>3. rWindow.elements[i].packet.seq < rWindow.current
    BY <2>1, <2>2 DEF BufferInv
  <2>4. rWindow.elements[i].packet.seq \in Nat
    <3>1. rWindow.elements[i].packet \in Packets
      BY <1>1 DEF Windows, Elements
    <3> QED BY <3>1 DEF Packets
  <2> QED BY <1>1, <1>7, <2>1, <2>2, <2>3, <2>4
<1>10. buffering' =>
         /\ rWindow'.current = highest' + 1
         /\ ~PacketValidInWindow(rWindow', expected')
  <2> SUFFICES ASSUME expected + n < highest
               PROVE  ~PacketValidInWindow(r, expected + n)
    BY <1>1, <1>3, <1>6, <1>7
  <2>1. ~PacketValidInWindow(w, expected + n)
    BY <1>1, <1>4
  <2> QED BY <1>6, <1>7, <2>1 DEF PacketValidInWindow
<1>11. ~buffering' => rWindow'.current <= expected' + 1
  <2> SUFFICES ASSUME ~(expected + n < highest)
               PROVE  r.current <= (expected + n) + 1
    BY <1>3, <1>6
  <2> QED BY <1>1, <1>4, <1>7
<1>12. ASSUME ~buffering', NEW i \in Slots PROVE ~rWindow'.elements[i].valid
  <2> SUFFICES ASSUME r.elements[i].valid PROVE FALSE
    BY <1>6
  <2> DEFINE q == r.elements[i].packet
  <2>1. expected + n <= q.seq /\ Slot(q.seq) = i
    BY <1>3, <1>6 DEF IInv, CommonInv, RcopyInv
  <2>2. q.seq \in Nat /\ q.seq < highest + 1 /\ w.elements[i].valid
    BY <1>7, <1>9
  <2>3. highest <= expected + n
    <3>1. ~(expected + n < highest)
      BY <1>3, <1>12
    <3> QED BY <1>1, <1>4, <3>1
  <2> HIDE DEF q
  <2>4. q.seq = expected + n /\ expected + n = highest
    BY <1>1, <1>6, <2>1, <2>2, <2>3
  <2>5. n # Span(w)
    BY <1>1, <1>4, <2>4
  <2> QED BY <1>4, <2>1, <2>2, <2>4, <2>5 DEF PacketValidInWindow
<1> QED BY <1>1, <1>6, <1>9, <1>10, <1>11, <1>12 DEF BufferInv

\* Each branch for a data packet that is one rcopy asked for, or above all.
LEMMA ProcessInOrder ==
  ASSUME SrejInv, IInv', BufferInv, NEW p \in Packets, NEW next,
         Genuine(p), p.seq < seqNum, p.seq <= expected \/ rWindow.current <= p.seq,
         ProcessPacket(p, next)
  PROVE  BufferInv' /\ rState' = next
<1>1. /\ rWindow \in Windows /\ rWindow.current \in Nat /\ p.seq \in Nat
      /\ expected \in Nat /\ rWindow.lower = expected
  BY ServerFacts DEF SrejInv, TypeOK, RcopyTypeOK, RcopyInv, Windows, Packets
<1>2. CASE ~buffering /\ WriteInOrder(p, next)
  <2> DEFINE w == RemovePacket(rWindow, expected + 1)
  <2>1. /\ rWindow' = w /\ expected' = expected + 1 /\ ~buffering' /\ rState' = next
    BY <1>2 DEF WriteInOrder
  <2>2. expected + 1 \in Nat
    BY <1>1
  <2>3. /\ w.current = rWindow.current
        /\ \A i \in Slots : w.elements[i].valid => rWindow.elements[i].valid
    BY <1>1, <2>2, RemovePacketLemma
  <2> HIDE DEF w
  <2>4. rWindow.current <= expected + 1 /\ \A i \in Slots : ~rWindow.elements[i].valid
    BY <1>2 DEF BufferInv
  <2> QED BY <1>1, <2>1, <2>3, <2>4 DEF BufferInv
<1>3. CASE ~buffering /\ EnterBuffering(p, next)
  <2>1. /\ expected < p.seq /\ highest' = p.seq /\ buffering' /\ expected' = expected
        /\ BufferPacket(p, next)
    BY <1>1, <1>3 DEF EnterBuffering
  <2>2. ~PacketValidInWindow(rWindow, expected)
    BY <1>1, <1>3, SlotType DEF BufferInv, PacketValidInWindow
  <2>3. rWindow.current <= p.seq
    BY <1>1, <2>1
  <2>4. /\ rState' = next /\ rWindow'.current = p.seq + 1
        /\ \A i \in Slots : rWindow'.elements[i].valid =>
             rWindow'.elements[i].packet.seq < rWindow'.current
        /\ ~PacketValidInWindow(rWindow', expected)
    BY <2>1, <2>2, <2>3, BufferPacketInOrder
  <2> QED BY <2>1, <2>4 DEF BufferInv
<1>4. CASE AckLower(p, next) \/ AskAgain(next)
  BY <1>4 DEF AckLower, AskAgain, transferVars, BufferInv, PacketValidInWindow
<1>5. CASE buffering /\ ReplaceAndFlush(p, next)
  BY <1>5, FlushInOrder
<1>6. CASE buffering /\ BufferHigher(p, next)
  <2>1. /\ expected < p.seq /\ highest' = p.seq /\ buffering' /\ expected' = expected
        /\ BufferPacket(p, next)
    BY <1>1, <1>6 DEF BufferHigher
  <2>2. ~PacketValidInWindow(rWindow, expected)
    BY <1>6 DEF BufferInv
  <2>3. rWindow.current <= p.seq
    BY <1>1, <2>1
  <2>4. /\ rState' = next /\ rWindow'.current = p.seq + 1
        /\ \A i \in Slots : rWindow'.elements[i].valid =>
             rWindow'.elements[i].packet.seq < rWindow'.current
        /\ ~PacketValidInWindow(rWindow', expected)
    BY <2>1, <2>2, <2>3, BufferPacketInOrder
  <2> QED BY <2>1, <2>4 DEF BufferInv
<1> QED BY <1>2, <1>3, <1>4, <1>5, <1>6
        DEF ProcessPacket, ProcessData, ProcessDataBuffering

-----------------------------------------------------------------------------
(* The order of the data.                                                  *)

\* rcopy takes the oldest datagram: those behind it are asked for, or higher.
LEMMA DataTaken ==
  ASSUME DataInOrder, toClient \in Seq(Packets), Len(toClient) > 0,
         toClient' = RemoveAt(toClient, 1), expected \in Nat, expected' \in Nat,
         rWindow.current \in Nat, expected <= expected',
         rWindow'.current \in {rWindow.current, toClient[1].seq + 1}
  PROVE  DataInOrder'
<1>1. /\ 1 \in 1 .. Len(toClient)
      /\ \A j \in 1 .. Len(toClient) : toClient[j].seq \in Nat
  <2>1. ASSUME NEW j \in 1 .. Len(toClient) PROVE toClient[j].seq \in Nat
    <3>1. toClient[j] \in Packets
      OBVIOUS
    <3> QED BY <3>1 DEF Packets
  <2>2. 1 \in 1 .. Len(toClient)
    OBVIOUS
  <2> QED BY <2>1, <2>2
<1>2. /\ Len(toClient') = Len(toClient) - 1
      /\ \A j \in 1 .. Len(toClient') : toClient'[j] = toClient[j + 1]
  <2>1. /\ Len(RemoveAt(toClient, 1)) = Len(toClient) - 1
        /\ \A j \in 1 .. Len(toClient) - 1 : RemoveAt(toClient, 1)[j] =
             IF j < 1 THEN toClient[j] ELSE toClient[j + 1]
    BY <1>1, RemoveAtLemma
  <2> QED BY <2>1
<1>3. \A j \in 1 .. Len(toClient') : j + 1 \in 1 .. Len(toClient) /\ 1 < j + 1
  BY <1>2
<1>4. ASSUME NEW i \in 1 .. Len(toClient')
      PROVE  toClient'[i].seq <= expected' \/ rWindow'.current <= toClient'[i].seq
  <2>1. toClient'[i] = toClient[i + 1] /\ i + 1 \in 1 .. Len(toClient) /\ 1 < i + 1
    BY <1>2, <1>3
  <2>2. \/ toClient[i + 1].seq <= expected
        \/ /\ rWindow.current <= toClient[i + 1].seq
           /\ toClient[1].seq < toClient[i + 1].seq
    BY <1>1, <2>1 DEF DataInOrder
  <2> QED BY <1>1, <2>1, <2>2
<1>5. ASSUME NEW i \in 1 .. Len(toClient'), NEW j \in 1 .. Len(toClient'),
             j < i, toClient'[i].seq > expected'
      PROVE  toClient'[j].seq < toClient'[i].seq
  <2>1. /\ i + 1 \in 1 .. Len(toClient) /\ j + 1 \in 1 .. Len(toClient)
        /\ j + 1 < i + 1
    BY <1>3, <1>5
  <2>2. toClient'[i] = toClient[i + 1] /\ toClient'[j] = toClient[j + 1]
    BY <1>2
  <2>3. toClient[i + 1].seq > expected
    BY <1>1, <1>5, <2>1, <2>2
  <2> QED BY <2>1, <2>2, <2>3 DEF DataInOrder
<1> QED BY <1>4, <1>5 DEF DataInOrder

LEMMA ReceivesFirst ==
  ASSUME DataReorder = 0, toClient \in Seq(Packets),
         NEW i \in Arrivals(toClient, DataReorder)
  PROVE  i = 1 /\ Len(toClient) > 0 /\ i \in 1 .. Len(toClient) /\ toClient[i] \in Packets
BY DEF Arrivals

LEMMA RcopyInOrder ==
  ASSUME DataReorder = 0, LossInv, SrejInv', RcopyNext
  PROVE  LossInv'
<1>1. /\ SrejInv /\ IInv /\ IInv' /\ DataInOrder /\ BufferInv /\ rState # "ABORT"
      /\ TypeOK /\ ServerInv /\ RcopyInv /\ toClient \in Seq(Packets)
      /\ expected \in Nat /\ rWindow.current \in Nat /\ expected' \in Nat
  BY ServerFacts DEF LossInv, SrejInv, IInv, CommonInv, TypeInv, TypeOK, RcopyTypeOK, Windows
<1>2. ASSUME NEW i \in Arrivals(toClient, DataReorder), NEW next,
             next # "ABORT",
             toClient' = RemoveAt(toClient, i),
             \/ /\ IsValidPacket(toClient[i]) /\ toClient[i].flag \in DataFlags
                /\ ProcessPacket(toClient[i], next)
             \/ rState' = next /\ UNCHANGED <<highest, transferVars>>
             \/ rState' = next /\ ~buffering /\ UNCHANGED transferVars
      PROVE  DataInOrder' /\ BufferInv' /\ rState' # "ABORT"
  <2>1. i = 1 /\ Len(toClient) > 0 /\ i \in 1 .. Len(toClient) /\ toClient[i] \in Packets
    BY <1>1, <1>2, ReceivesFirst
  <2>2. CASE UNCHANGED transferVars /\ (UNCHANGED highest \/ ~buffering) /\ rState' = next
    <3>1. BufferInv'
      BY <1>1, <2>2 DEF BufferInv, transferVars, PacketValidInWindow
    <3>2. DataInOrder'
      <4>1. expected <= expected' /\ rWindow'.current = rWindow.current
        BY <1>1, <2>2 DEF transferVars
      <4> QED BY <1>1, <1>2, <2>1, <4>1, DataTaken
    <3> QED BY <1>2, <2>2, <3>1, <3>2
  <2>3. CASE /\ IsValidPacket(toClient[i]) /\ toClient[i].flag \in DataFlags
             /\ ProcessPacket(toClient[i], next)
    <3>1. Genuine(toClient[i]) /\ toClient[i].seq < seqNum
      BY <1>1, <2>1, <2>3, ServerFacts, DataIsGenuine
    <3>2. toClient[i].seq <= expected \/ rWindow.current <= toClient[i].seq
      BY <1>1, <2>1 DEF DataInOrder
    <3>3. BufferInv' /\ rState' = next
      BY <1>1, <2>1, <2>3, <3>1, <3>2, ProcessInOrder
    <3>4. expected <= expected'
      BY <1>1, <2>3, ExpectsMore
    <3>5. rWindow'.current \in {rWindow.current, toClient[i].seq + 1}
      BY <1>1, <2>1, <2>3, CurrentMoves
    <3>6. DataInOrder'
      BY <1>1, <1>2, <2>1, <3>4, <3>5, DataTaken
    <3> QED BY <1>2, <3>3, <3>6
  <2> QED BY <1>2, <2>2, <2>3
<1>3. CASE WaitForFileNameAck
  <2>1. PICK i \in Arrivals(toClient, DataReorder) :
          /\ toClient' = RemoveAt(toClient, i)
          /\ rState' \in {"SEND_FILENAME_TIMEOUT", "KILL", "RECEIVE_FIRST_DATA"}
    BY <1>3 DEF WaitForFileNameAck
  <2>2. UNCHANGED transferVars /\ ~buffering
    BY <1>1, <1>3 DEF WaitForFileNameAck, IInv, CommonInv, NotBegun, Handshaking
  <2>3. rState' # "ABORT"
    BY <2>1
  <2> QED BY <1>2, <2>1, <2>2, <2>3 DEF LossInv
<1>4. CASE RecvData
  <2>1. PICK i \in Arrivals(toClient, DataReorder), next \in {"LAST_DATA", "RECEIVE_DATA"} :
          /\ toClient' = RemoveAt(toClient, i)
          /\ \/ /\ IsValidPacket(toClient[i]) /\ toClient[i].flag \in DataFlags
                /\ ProcessPacket(toClient[i], next)
             \/ rState' = next /\ UNCHANGED <<highest, transferVars>>
    BY <1>4 DEF RecvData
  <2>2. next # "ABORT"
    BY <2>1
  <2> QED BY <1>2, <2>1, <2>2 DEF LossInv
<1>5. CASE RecvLastData
  <2>1. PICK i \in Arrivals(toClient, DataReorder) :
          /\ toClient' = RemoveAt(toClient, i)
          /\ \/ /\ IsValidPacket(toClient[i]) /\ toClient[i].flag \in DataFlags
                /\ ProcessPacket(toClient[i], "LAST_DATA")
             \/ rState' = rState /\ UNCHANGED <<highest, transferVars>>
    BY <1>5 DEF RecvLastData
  <2>2. rState = "LAST_DATA"
    BY <1>5 DEF RecvLastData
  <2> QED BY <1>2, <2>1, <2>2 DEF LossInv
<1>6. CASE SendFileName \/ RcopyTimesOut \/ SendEofAck
  <2>1. /\ UNCHANGED <<toClient, highest, transferVars>>
        /\ rState' # "ABORT"
    BY <1>6 DEF SendFileName, RcopyTimesOut, FileNameAckTimeout, FirstDataTimeout,
       RecvDataTimeout, LastDataTimeout, SendEofAck, networkVars, LoopHead
  <2> QED BY <1>1, <2>1
          DEF LossInv, DataInOrder, BufferInv, transferVars, PacketValidInWindow
<1>7. CASE SendFileNameTimeout
  <2>1. /\ toClient' = <<>> /\ UNCHANGED <<highest, transferVars>>
        /\ rState' # "ABORT"
    BY <1>7 DEF SendFileNameTimeout, NewSocket, LoopHead
  <2> QED BY <1>1, <2>1
          DEF LossInv, DataInOrder, BufferInv, transferVars, PacketValidInWindow
<1> QED BY <1>3, <1>4, <1>5, <1>6, <1>7
        DEF RcopyNext, RcopyReceives, RcopySends

\* The child sends what rcopy has written or asked for, or what is new.
LEMMA ChildInOrder ==
  ASSUME AckReorder = 0, ~FlipOn, LossInv, SrejInv', ServerNext
  PROVE  LossInv'
<1>1. /\ SrejInv /\ IInv /\ DataInv /\ Undamaged /\ DataInOrder /\ BufferInv
      /\ toClient \in Seq(Packets) /\ expected \in Nat /\ seqNum \in Nat \ {0}
      /\ rWindow.current \in Nat /\ rWindow.current <= seqNum
      /\ UNCHANGED rcopyVars
  <2>1. SrejInv /\ IInv /\ DataInv /\ Undamaged /\ DataInOrder /\ BufferInv
    BY DEF LossInv, SrejInv, IInv, CommonInv
  <2>2. TypeOK /\ ServerInv /\ RcopyInv /\ toClient \in Seq(Packets)
    BY <2>1, ServerFacts
  <2>3. expected \in Nat \ {0} /\ seqNum \in Nat /\ expected <= seqNum
    BY <2>1, ServerFacts
  <2>4. rWindow.current \in Nat /\ rWindow.current <= seqNum
    BY <2>2 DEF TypeOK, RcopyTypeOK, Windows, RcopyInv
  <2> QED BY <2>1, <2>2, <2>3, <2>4 DEF ServerNext
<1>2. PICK P : Sends(P)
  BY <1>1, ChildSends
<1>3. ASSUME NEW j \in 1 .. Len(toClient')
      PROVE  \/ j \in 1 .. Len(toClient) /\ toClient'[j] = toClient[j]
             \/ /\ j = Len(toClient) + 1 /\ Len(toClient') = Len(toClient) + 1
                /\ toClient'[j].seq <= expected \/ toClient'[j].seq = seqNum
  <2>1. CASE j \notin 1 .. Len(toClient) /\ toClient'[j] \in P
    <3>1. toClient' \in Seq(Packets) /\ Len(toClient') <= Len(toClient) + 1
      BY <1>2 DEF Sends, Grows
    <3>2. j = Len(toClient) + 1 /\ Len(toClient') = Len(toClient) + 1
      BY <1>1, <2>1, <3>1
    <3> QED BY <1>2, <2>1, <3>2 DEF Sends
  <2> QED BY <1>1, <1>2, <2>1, GrowsWhere DEF Sends
<1>4. ASSUME NEW j \in 1 .. Len(toClient)
      PROVE  toClient[j].seq \in Nat /\ toClient[j].seq < seqNum
  BY <1>1 DEF DataInv, Undamaged, Genuine
<1>5. ASSUME NEW i \in 1 .. Len(toClient')
      PROVE  toClient'[i].seq <= expected \/ rWindow.current <= toClient'[i].seq
  BY <1>1, <1>3, <1>4 DEF DataInOrder
<1>6. ASSUME NEW i \in 1 .. Len(toClient'), NEW j \in 1 .. Len(toClient'),
             j < i, toClient'[i].seq > expected
      PROVE  toClient'[j].seq < toClient'[i].seq
  <2>1. j \in 1 .. Len(toClient) /\ toClient'[j] = toClient[j]
    <3>1. toClient' \in Seq(Packets)
      BY <1>2 DEF Sends, Grows
    <3>2. ~(j = Len(toClient) + 1 /\ Len(toClient') = Len(toClient) + 1)
      BY <1>1, <1>6, <3>1
    <3> QED BY <1>3, <3>2
  <2>2. CASE i \in 1 .. Len(toClient) /\ toClient'[i] = toClient[i]
    BY <1>1, <1>6, <2>1, <2>2 DEF DataInOrder
  <2>3. CASE toClient'[i].seq <= expected \/ toClient'[i].seq = seqNum
    <3>1. toClient'[i].seq = seqNum
      <4>1. toClient'[i] \in Packets
        BY <1>2 DEF Sends, Grows
      <4>2. toClient'[i].seq \in Nat
        BY <4>1 DEF Packets
      <4> QED BY <1>1, <1>6, <2>3, <4>2
    <3> QED BY <1>4, <2>1, <3>1
  <2> QED BY <1>3, <2>2, <2>3
<1>7. DataInOrder'
  BY <1>1, <1>5, <1>6 DEF DataInOrder, rcopyVars
<1>8. BufferInv' /\ rState' # "ABORT"
  BY <1>1 DEF BufferInv, rcopyVars, PacketValidInWindow, LossInv
<1> QED BY <1>7, <1>8 DEF LossInv

-----------------------------------------------------------------------------
(* Theorems.                                                               *)

LEMMA InitSrejInv == Init => SrejInv
<1> SUFFICES ASSUME Init PROVE SrejInv
  OBVIOUS
<1>1. IInv
  BY InitInvariant
<1>2. Undamaged /\ AskInv
  BY NewWindowEmpty DEF Init, NetworkInit, RcopyInit, ServerInit, Undamaged, AskInv
<1> QED BY <1>1, <1>2 DEF SrejInv

LEMMA StepSrejInv ==
  ASSUME AckReorder = 0, ~FlipOn, SrejInv, [Next]_vars
  PROVE  SrejInv'
<1>1. IInv'
  BY StepInvariant DEF SrejInv
<1>2. CASE RcopyNext
  BY <1>1, <1>2, RcopyStepAsks DEF SrejInv
<1>3. CASE ServerNext
  BY <1>1, <1>3, ChildUndamaged, ChildAsks DEF SrejInv
<1>4. CASE UNCHANGED vars
  BY <1>1, <1>4 DEF SrejInv, Undamaged, AskInv, vars, networkVars, rcopyVars, serverVars
<1> QED BY <1>2, <1>3, <1>4 DEF Next, Terminated

\* Without damage, and with the acknowledgements in order, whatever happens to
\* the data: what rcopy asks for is below its window's end and above what it
\* has acknowledged (SrejInv), ...
THEOREM AsksInvariant == AckReorder = 0 /\ ~FlipOn => (Spec => []SrejInv)
<1> SUFFICES ASSUME AckReorder = 0, ~FlipOn PROVE Spec => []SrejInv
  OBVIOUS
<1>1. Init => SrejInv
  BY InitSrejInv
<1>2. SrejInv /\ [Next]_vars => SrejInv'
  BY StepSrejInv
<1> QED BY <1>1, <1>2, PTL DEF Spec

\* ... so the child still holds it under the number that the SREJ names
\* (processRrSrej's getPacket finds that packet, never another one's).
THEOREM SrejIsAnswerable == AckReorder = 0 /\ ~FlipOn => (Spec => []SrejAnswerable)
<1> SUFFICES ASSUME AckReorder = 0, ~FlipOn PROVE Spec => []SrejAnswerable
  OBVIOUS
<1>1. SrejInv => SrejAnswerable
  BY SrejHeld DEF SrejAnswerable
<1>2. Spec => []SrejInv
  BY AsksInvariant
<1> QED BY <1>1, <1>2, PTL

\* When the data keep their order too: rcopy buffers only what is between what
\* it expects and the highest packet that it has received (LossInv).
THEOREM LossInvariant ==
  AckReorder = 0 /\ DataReorder = 0 /\ ~FlipOn => (Spec => []LossInv)
<1> SUFFICES ASSUME AckReorder = 0, DataReorder = 0, ~FlipOn PROVE Spec => []LossInv
  OBVIOUS
<1>1. Init => LossInv
  <2> SUFFICES ASSUME Init PROVE LossInv
    OBVIOUS
  <2>1. SrejInv
    BY InitSrejInv
  <2>2. DataInOrder /\ BufferInv /\ rState # "ABORT"
    BY NewWindowEmpty DEF Init, NetworkInit, RcopyInit, DataInOrder, BufferInv, SEQ_NUM_START
  <2> QED BY <2>1, <2>2 DEF LossInv
<1>2. LossInv /\ [Next]_vars => LossInv'
  <2> SUFFICES ASSUME LossInv, [Next]_vars PROVE LossInv'
    OBVIOUS
  <2>1. SrejInv'
    BY StepSrejInv DEF LossInv
  <2>2. CASE RcopyNext
    BY <2>1, <2>2, RcopyInOrder
  <2>3. CASE ServerNext
    BY <2>1, <2>3, ChildInOrder
  <2>4. CASE UNCHANGED vars
    BY <2>1, <2>4 DEF LossInv, DataInOrder, BufferInv, PacketValidInWindow, vars,
       networkVars, rcopyVars
  <2> QED BY <2>2, <2>3, <2>4 DEF Next, Terminated
<1> QED BY <1>1, <1>2, PTL DEF Spec

\* So the packet that rcopy waits for is never already in its buffer, where its
\* retransmission would count as a duplicate (processDataBuffering), ...
THEOREM WaitsForWhatIsMissing ==
  AckReorder = 0 /\ DataReorder = 0 /\ ~FlipOn => (Spec => []WaitsForMissing)
<1> SUFFICES ASSUME AckReorder = 0, DataReorder = 0, ~FlipOn
             PROVE  Spec => []WaitsForMissing
  OBVIOUS
<1>1. LossInv => WaitsForMissing
  BY DEF LossInv, BufferInv, WaitsForMissing
<1>2. Spec => []LossInv
  BY LossInvariant
<1> QED BY <1>1, <1>2, PTL

\* ... and addPacket always finds room for a packet above what rcopy expects:
\* the branches that "shouldn't happen" do not.
THEOREM RcopyNeverAborts ==
  AckReorder = 0 /\ DataReorder = 0 /\ ~FlipOn => (Spec => []NeverAborts)
<1> SUFFICES ASSUME AckReorder = 0, DataReorder = 0, ~FlipOn
             PROVE  Spec => []NeverAborts
  OBVIOUS
<1>1. LossInv => NeverAborts
  BY DEF LossInv, NeverAborts
<1>2. Spec => []LossInv
  BY LossInvariant
<1> QED BY <1>1, <1>2, PTL
=============================================================================
