---------------------------- MODULE TransferCopy ----------------------------
(***************************************************************************)
(* Proofs that the copy on disk is right if either acknowledgements or     *)
(* data keep their order: that CopyInv is inductive for DataReorder = 0,   *)
(* and that the transfer implements FileCopy whenever CommonInv holds,     *)
(* for every value of the other constants.                                 *)
(***************************************************************************)
EXTENDS TransferSafety

-----------------------------------------------------------------------------
(* What the packet that rcopy waits for finds.                             *)

\* Nothing that rcopy may flush is more than a window above that packet, since
\* all that came before it is not.
LEMMA CopyFits ==
  ASSUME CopyInv, DataReorder = 0
  PROVE  FitsExpected
<1> SUFFICES ASSUME NEW i \in Arrivals(toClient, DataReorder),
                    toClient[i].ok, toClient[i].flag \in DataFlags,
                    toClient[i].seq = expected
             PROVE  Fits(rWindow)
  BY DEF FitsExpected
<1>1. /\ CommonInv /\ NearInv
      /\ expected \in Nat /\ rWindow.current \in Nat /\ WindowSize \in Nat
      /\ toClient \in Seq(Packets) /\ RcopyInv
  BY CommonFacts DEF CopyInv, CommonInv
<1>2. i \in 1 .. Len(toClient)
  BY <1>1, ArrivalsLemma
<1>3. rWindow.current <= expected + WindowSize /\ rWindow.lower = expected
  BY <1>1, <1>2 DEF NearInv, RcopyInv
<1>4. ASSUME NEW k \in Slots, rWindow.elements[k].valid
      PROVE  rWindow.elements[k].packet.seq < rWindow.lower + WindowSize
  <2> DEFINE p == rWindow.elements[k].packet
  <2>1. p.seq \in Nat
    BY <1>1, <1>4 DEF RcopyInv, Genuine
  <2>2. p.seq < rWindow.current \/ p.seq < expected + WindowSize
    BY <1>1, <1>4 DEF NearInv
  <2> HIDE DEF p
  <2>3. p.seq < rWindow.lower + WindowSize
    BY <1>1, <1>3, <2>1, <2>2
  <2> QED BY <2>3 DEF p
<1> QED BY <1>3, <1>4 DEF Fits

-----------------------------------------------------------------------------
(* rcopy's steps.                                                          *)

\* The first part of NearInv, of any window and number expected next.
NearRing(w, from) ==
  \A i \in Slots : w.elements[i].valid =>
    LET p == w.elements[i].packet
    IN  p.seq < w.current \/ p.seq < from + WindowSize

LEMMA NearRemoved ==
  ASSUME NEW w \in Windows, NEW from \in Nat, NEW n \in Nat, from <= n,
         NearRing(w, from)
  PROVE  NearRing(RemovePacket(w, n), n)
<1> DEFINE r == RemovePacket(w, n)
<1> SUFFICES ASSUME NEW i \in Slots, r.elements[i].valid
             PROVE  LET p == r.elements[i].packet
                    IN  p.seq < r.current \/ p.seq < n + WindowSize
  BY DEF NearRing
<1>1. /\ r.current = w.current /\ w.elements[i].valid
      /\ r.elements[i].packet = w.elements[i].packet
  BY RemovePacketLemma
<1>2. w.elements[i].packet \in Packets
  BY DEF Windows, Elements
<1>3. w.elements[i].packet.seq \in Nat
  BY <1>2 DEF Packets
<1>4. \/ w.elements[i].packet.seq < w.current
      \/ w.elements[i].packet.seq < from + WindowSize
  BY <1>1 DEF NearRing
<1> QED BY <1>1, <1>3, <1>4, WindowSizeAssumption

LEMMA NearAdded ==
  ASSUME NEW w \in Windows, NEW p \in Packets, NEW from \in Nat,
         NearRing(w, from)
  PROVE  NearRing(AddPacket(w, p), from)
<1> DEFINE r == AddPacket(w, p)
<1> SUFFICES ASSUME NEW i \in Slots, r.elements[i].valid
             PROVE  \/ r.elements[i].packet.seq < r.current
                    \/ r.elements[i].packet.seq < from + WindowSize
  BY DEF NearRing
<1>1. /\ r.current = IF p.seq >= w.current THEN p.seq + 1 ELSE w.current
      /\ r.elements[i].packet =
           IF i = Slot(p.seq) THEN p ELSE w.elements[i].packet
      /\ i = Slot(p.seq) \/ w.elements[i].valid
  BY AddPacketLemma
<1>2. w.elements[i].packet \in Packets /\ w.current \in Nat /\ p.seq \in Nat
  BY DEF Windows, Elements, Packets
<1>3. w.elements[i].packet.seq \in Nat
  BY <1>2 DEF Packets
<1>4. w.elements[i].valid =>
        \/ w.elements[i].packet.seq < w.current
        \/ w.elements[i].packet.seq < from + WindowSize
  BY DEF NearRing
<1> HIDE DEF r
<1>5. CASE i = Slot(p.seq)
  BY <1>1, <1>2, <1>5
<1>6. CASE i # Slot(p.seq)
  BY <1>1, <1>2, <1>3, <1>4, <1>6
<1> QED BY <1>5, <1>6

LEMMA NearReplaced ==
  ASSUME NEW w \in Windows, NEW p \in Packets, NEW from \in Nat,
         p.seq = from, NearRing(w, from)
  PROVE  NearRing(ReplacePacket(w, p), from)
<1> DEFINE r == ReplacePacket(w, p)
<1>1. /\ r.current = w.current
      /\ \A i \in Slots : r.elements[i] =
           IF i = Slot(p.seq) THEN Stored(p) ELSE w.elements[i]
  BY ReplacePacketLemma
<1>2. Stored(p).packet = p
  BY DEF Stored
<1> HIDE DEF r
<1>3. NearRing(r, from)
  BY <1>1, <1>2, WindowSizeAssumption DEF NearRing
<1> QED BY <1>3 DEF r

LEMMA ProcessPacketNear ==
  ASSUME TypeOK, NEW p \in Packets, NEW next, ProcessPacket(p, next),
         NearRing(rWindow, expected)
  PROVE  NearRing(rWindow', expected')
<1>1. rWindow \in Windows /\ expected \in Nat
  BY DEF TypeOK, RcopyTypeOK
<1>2. CASE WriteInOrder(p, next)
  <2>1. rWindow' = RemovePacket(rWindow, expected + 1) /\ expected' = expected + 1
    BY <1>2 DEF WriteInOrder
  <2>2. expected + 1 \in Nat /\ expected <= expected + 1
    BY <1>1
  <2> QED BY <1>1, <2>1, <2>2, NearRemoved
<1>3. CASE BufferPacket(p, next) /\ UNCHANGED expected
  BY <1>1, <1>3, NearAdded DEF BufferPacket
<1>4. CASE UNCHANGED <<rWindow, expected>>
  BY <1>4
<1>5. CASE ReplaceAndFlush(p, next)
  <2> DEFINE w == ReplacePacket(rWindow, p)
  <2>1. PICK n \in InorderValidPackets(w) :
          /\ expected' = expected + n
          /\ rWindow' = IF n > 0 THEN RemovePacket(w, expected + n) ELSE w
    BY <1>5 DEF ReplaceAndFlush
  <2>2. p.seq = expected
    BY <1>5 DEF ReplaceAndFlush
  <2>3. w \in Windows /\ NearRing(w, expected)
    BY <1>1, <2>2, ReplacePacketLemma, NearReplaced
  <2>4. n \in Nat
    BY <2>1 DEF InorderValidPackets
  <2> HIDE DEF w
  <2>5. CASE n > 0
    <3>1. expected + n \in Nat /\ expected <= expected + n
      BY <1>1, <2>4
    <3> QED BY <1>1, <2>1, <2>3, <2>5, <3>1, NearRemoved
  <2>6. CASE n = 0
    BY <1>1, <2>1, <2>3, <2>6
  <2> QED BY <2>4, <2>5, <2>6
<1> QED BY <1>2, <1>3, <1>4, <1>5
        DEF ProcessPacket, ProcessData, ProcessDataBuffering, EnterBuffering,
            AckLower, BufferHigher, AskAgain, transferVars

\* A step of rcopy on one socket: it receives nothing, or a datagram that it
\* processes or throws out.
LEMMA RcopyStepIs ==
  ASSUME RcopyNext, ~SendFileNameTimeout
  PROVE  \/ UNCHANGED <<toClient, transferVars>>
         \/ \E i \in Arrivals(toClient, DataReorder) :
              /\ toClient' = RemoveAt(toClient, i)
              /\ \/ UNCHANGED transferVars
                 \/ \E next \in {"LAST_DATA", "RECEIVE_DATA"} :
                      /\ IsValidPacket(toClient[i])
                      /\ toClient[i].flag \in DataFlags
                      /\ ProcessPacket(toClient[i], next)
<1>1. CASE WaitForFileNameAck
  BY <1>1 DEF WaitForFileNameAck
<1>2. CASE RecvData
  BY <1>2 DEF RecvData
<1>3. CASE RecvLastData
  BY <1>3 DEF RecvLastData
<1>4. CASE SendFileName \/ SendEofAck \/ RcopyTimesOut
  BY <1>4 DEF SendFileName, SendEofAck, RcopyTimesOut, FileNameAckTimeout,
     FirstDataTimeout, RecvDataTimeout, LastDataTimeout, networkVars
<1> QED BY <1>1, <1>2, <1>3, <1>4 DEF RcopyNext, RcopyReceives, RcopySends

\* Taking the oldest datagram leaves the later ones near what is kept.
LEMMA NearTaken ==
  ASSUME NearInv, toClient \in Seq(Packets), Len(toClient) > 0,
         toClient' = RemoveAt(toClient, 1), NearRing(rWindow', expected'),
         rWindow.current \in Nat,
         \/ rWindow'.current = rWindow.current
         \/ toClient[1].ok /\ rWindow'.current = toClient[1].seq + 1
  PROVE  NearInv'
<1>1. 1 \in 1 .. Len(toClient)
  OBVIOUS
<1>2. /\ Len(toClient') = Len(toClient) - 1
      /\ \A j \in 1 .. Len(toClient') : toClient'[j] = toClient[j + 1]
  <2>1. /\ Len(RemoveAt(toClient, 1)) = Len(toClient) - 1
        /\ \A j \in 1 .. Len(toClient) - 1 : RemoveAt(toClient, 1)[j] =
             IF j < 1 THEN toClient[j] ELSE toClient[j + 1]
    BY <1>1, RemoveAtLemma
  <2> QED BY <2>1
<1>3. ASSUME NEW i \in 1 .. Len(toClient'),
             toClient'[i].ok, toClient'[i].flag \in DataFlags
      PROVE  /\ rWindow'.current <= toClient'[i].seq + WindowSize
             /\ \A j \in 1 .. i - 1 : toClient'[j].ok =>
                  toClient'[j].seq < toClient'[i].seq + WindowSize
  <2>1. /\ toClient'[i] = toClient[i + 1] /\ i + 1 \in 1 .. Len(toClient)
        /\ 1 \in 1 .. (i + 1) - 1
    BY <1>2
  <2>2. /\ rWindow.current <= toClient[i + 1].seq + WindowSize
        /\ \A j \in 1 .. (i + 1) - 1 : toClient[j].ok =>
             toClient[j].seq < toClient[i + 1].seq + WindowSize
    BY <1>3, <2>1 DEF NearInv
  <2>3. toClient[1] \in Packets /\ toClient[i + 1] \in Packets
    BY <1>1, <2>1
  <2>4. toClient[1].seq \in Nat /\ toClient[i + 1].seq \in Nat
    BY <2>3 DEF Packets
  <2>5. rWindow'.current <= toClient'[i].seq + WindowSize
    <3>1. CASE rWindow'.current = rWindow.current
      BY <2>1, <2>2, <3>1
    <3>2. CASE toClient[1].ok /\ rWindow'.current = toClient[1].seq + 1
      <4>1. toClient[1].seq < toClient[i + 1].seq + WindowSize
        BY <2>1, <2>2, <3>2
      <4> QED BY <2>1, <2>4, <3>2, <4>1, WindowSizeAssumption
    <3> QED BY <3>1, <3>2
  <2>6. ASSUME NEW j \in 1 .. i - 1, toClient'[j].ok
        PROVE  toClient'[j].seq < toClient'[i].seq + WindowSize
    <3>1. toClient'[j] = toClient[j + 1] /\ j + 1 \in 1 .. (i + 1) - 1
      BY <1>2
    <3> QED BY <2>1, <2>2, <2>6, <3>1
  <2> QED BY <2>5, <2>6
<1> QED BY <1>3 DEF NearInv, NearRing

LEMMA RcopyCopy ==
  ASSUME DataReorder = 0, CopyInv, RcopyNext
  PROVE  CopyInv'
<1>1. /\ CommonInv /\ SentInv /\ NearInv
      /\ TypeOK /\ toClient \in Seq(Packets) /\ rWindow.current \in Nat
  BY CommonFacts DEF CopyInv
<1>2. TypeInv'
  BY <1>1, TypeInvariant DEF CommonInv, Next
<1>3. CommonInv' /\ (~SendFileNameTimeout => UNCHANGED serverVars)
  BY <1>1, <1>2, CopyFits, RcopyInvariant
<1>4. CASE SendFileNameTimeout
  <2>1. sState' = "NONE" /\ ServerReset
    BY <1>4 DEF RcopyNext, SendFileNameTimeout
  <2>2. /\ toClient' = <<>> /\ rWindow' = NewWindow /\ sWindow' = NewWindow
    BY <1>1, <1>4, <2>1, SocketIsNew
  <2>3. SentInv' /\ NearInv'
    BY <2>2, NewWindowEmpty DEF SentInv, NearInv
  <2> QED BY <1>3, <2>3 DEF CopyInv
<1>5. CASE ~SendFileNameTimeout
  <2>1. SentInv'
    BY <1>1, <1>3, <1>5 DEF SentInv, serverVars
  <2>2. NearRing(rWindow, expected)
    BY <1>1 DEF NearInv, NearRing
  <2>3. NearInv'
    <3>1. CASE UNCHANGED <<toClient, transferVars>>
      BY <1>1, <3>1 DEF NearInv, transferVars
    <3>2. CASE \E i \in Arrivals(toClient, DataReorder) :
                 /\ toClient' = RemoveAt(toClient, i)
                 /\ \/ UNCHANGED transferVars
                    \/ \E next \in {"LAST_DATA", "RECEIVE_DATA"} :
                         /\ IsValidPacket(toClient[i])
                         /\ toClient[i].flag \in DataFlags
                         /\ ProcessPacket(toClient[i], next)
      <4>1. PICK i \in Arrivals(toClient, DataReorder) :
              /\ toClient' = RemoveAt(toClient, i)
              /\ \/ UNCHANGED transferVars
                 \/ \E next \in {"LAST_DATA", "RECEIVE_DATA"} :
                      /\ IsValidPacket(toClient[i])
                      /\ toClient[i].flag \in DataFlags
                      /\ ProcessPacket(toClient[i], next)
        BY <3>2
      <4>2. i = 1 /\ Len(toClient) > 0 /\ toClient[i] \in Packets
        BY <1>1 DEF Arrivals
      <4>3. CASE UNCHANGED transferVars
        <5>1. rWindow' = rWindow /\ NearRing(rWindow', expected')
          BY <2>2, <4>3 DEF transferVars
        <5> QED BY <1>1, <4>1, <4>2, <5>1, NearTaken
      <4>4. CASE \E next \in {"LAST_DATA", "RECEIVE_DATA"} :
                   /\ IsValidPacket(toClient[i])
                   /\ ProcessPacket(toClient[i], next)
        <5>1. PICK next \in {"LAST_DATA", "RECEIVE_DATA"} :
                  /\ IsValidPacket(toClient[i])
                  /\ ProcessPacket(toClient[i], next)
          BY <4>4
        <5>2. NearRing(rWindow', expected')
          BY <1>1, <2>2, <4>2, <5>1, ProcessPacketNear
        <5>3. expected' \in Nat
          BY <1>2 DEF TypeInv, TypeOK, RcopyTypeOK
        <5>4. rWindow'.current \in {rWindow.current, toClient[i].seq + 1}
          BY <1>1, <4>2, <5>1, <5>3, CurrentMoves
        <5> QED BY <1>1, <4>1, <4>2, <5>1, <5>2, <5>4, NearTaken DEF IsValidPacket
      <4> QED BY <4>1, <4>3, <4>4
    <3> QED BY <1>5, <3>1, <3>2, RcopyStepIs
  <2> QED BY <1>3, <2>1, <2>3 DEF CopyInv
<1> QED BY <1>4, <1>5

-----------------------------------------------------------------------------
(* The child's steps.                                                      *)

\* Numbers a ring apart share a slot.
LEMMA SlotAgain == \A n \in Nat : Slot(n + WindowSize) = Slot(n)
<1> SUFFICES ASSUME NEW n \in Nat PROVE Slot(n + WindowSize) = Slot(n)
  OBVIOUS
<1> DEFINE a == n \div WindowSize
           b == (n + WindowSize) \div WindowSize
           s == Slot(n)
           t == Slot(n + WindowSize)
           W == WindowSize
<1>1. a \in Int /\ b \in Int
  BY WindowSizeAssumption
<1>2. n = W * a + s /\ n + W = W * b + t
  BY WindowSizeAssumption DEF Slot
<1>3. s \in 0 .. W - 1 /\ t \in 0 .. W - 1 /\ W \in Nat \ {0}
  BY SlotType, WindowSizeAssumption DEF Slots
<1> HIDE DEF a, b, s, t, W
<1> DEFINE d == b - a - 1
<1>4. W * d = s - t /\ d \in Int
  <2>1. W * b = W * a + W * 1 + W * d
    BY <1>1, <1>3
  <2> QED BY <1>1, <1>2, <1>3, <2>1
<1> HIDE DEF d
<1>5. d = 0
  <2>1. CASE d >= 1
    <3>1. W * d >= W
      BY <1>3, <1>4, <2>1
    <3> QED BY <1>3, <1>4, <3>1
  <2>2. CASE d <= -1
    <3>1. W * d <= -W
      BY <1>3, <1>4, <2>2
    <3> QED BY <1>3, <1>4, <3>1
  <2> QED BY <1>4, <2>1, <2>2
<1>6. s = t
  BY <1>3, <1>4, <1>5
<1> QED BY <1>6 DEF s, t, W

\* What the child sends is near all that it has sent before.
LEMMA NearExtends ==
  ASSUME CommonInv, NearInv, UNCHANGED <<rWindow, expected>>,
         NEW P \in SUBSET Packets, Extends(toClient, toClient', P),
         \A p \in P : p.seq <= seqNum,
         \A p \in P : p.flag \in DataFlags =>
           /\ seqNum <= p.seq + WindowSize
           /\ \A q \in P : q.seq < p.seq + WindowSize
  PROVE  NearInv'
<1>1. /\ toClient \in Seq(Packets) /\ seqNum \in Nat /\ rWindow.current \in Nat
      /\ rWindow.current <= seqNum /\ DataInv /\ WindowSize \in Nat \ {0}
  BY CommonFacts DEF CommonInv, RcopyInv
<1>2. ASSUME NEW j \in 1 .. Len(toClient'), toClient'[j].ok
      PROVE  /\ toClient'[j].seq \in Nat
             /\ j \in 1 .. Len(toClient) =>
                  toClient'[j] = toClient[j] /\ (toClient[j].seq < seqNum \/ toClient[j].seq = 0)
             /\ j \notin 1 .. Len(toClient) => toClient'[j] \in P
  <2>1. CASE j \in 1 .. Len(toClient)
    <3>1. toClient'[j] = toClient[j] /\ toClient[j] \in Packets
      BY <1>1, <2>1 DEF Extends
    <3>2. toClient[j].seq < seqNum \/ toClient[j].seq = 0
      BY <1>1, <1>2, <2>1, <3>1 DEF DataInv
    <3> QED BY <2>1, <3>1, <3>2 DEF Packets
  <2>2. CASE j \notin 1 .. Len(toClient)
    <3>1. j \in Len(toClient) + 1 .. Len(toClient')
      BY <1>1, <2>2
    <3>2. toClient'[j] \in P
      BY <1>2, <3>1 DEF Extends
    <3> QED BY <2>2, <3>2 DEF Packets
  <2> QED BY <2>1, <2>2
<1>3. ASSUME NEW i \in 1 .. Len(toClient'), toClient'[i].ok,
             toClient'[i].flag \in DataFlags
      PROVE  /\ rWindow.current <= toClient'[i].seq + WindowSize
             /\ \A j \in 1 .. i - 1 : toClient'[j].ok =>
                  toClient'[j].seq < toClient'[i].seq + WindowSize
  <2>1. CASE i \in 1 .. Len(toClient)
    <3>1. /\ toClient'[i] = toClient[i]
          /\ \A j \in 1 .. i - 1 : toClient'[j] = toClient[j]
      BY <1>1, <2>1 DEF Extends
    <3> QED BY <1>3, <2>1, <3>1 DEF NearInv
  <2>2. CASE i \notin 1 .. Len(toClient)
    <3>1. toClient'[i] \in P /\ toClient'[i].seq \in Nat
      BY <1>2, <1>3, <2>2
    <3>2. /\ seqNum <= toClient'[i].seq + WindowSize
          /\ \A q \in P : q.seq < toClient'[i].seq + WindowSize
      BY <1>3, <3>1
    <3>3. ASSUME NEW j \in 1 .. i - 1, toClient'[j].ok
          PROVE  toClient'[j].seq < toClient'[i].seq + WindowSize
      <4>1. j \in 1 .. Len(toClient')
        BY <1>1 DEF Extends
      <4>2. CASE j \in 1 .. Len(toClient)
        <5>1. /\ toClient'[j].seq < seqNum \/ toClient'[j].seq = 0
              /\ toClient'[j].seq \in Nat
          BY <1>2, <3>3, <4>1, <4>2
        <5> QED BY <1>1, <3>1, <3>2, <5>1
      <4>3. CASE j \notin 1 .. Len(toClient)
        BY <1>2, <3>2, <3>3, <4>1, <4>3
      <4> QED BY <4>2, <4>3
    <3> QED BY <1>1, <3>1, <3>2, <3>3
  <2> QED BY <2>1, <2>2
<1> QED BY <1>3 DEF NearInv

LEMMA StockNear ==
  ASSUME CommonInv, SentInv, NearInv, UNCHANGED <<rWindow, expected>>,
         Extends(toClient, toClient', Stock)
  PROVE  NearInv'
<1>1. Stock \in SUBSET Packets /\ seqNum \in Nat
  BY CommonFacts DEF Stock
<1>2. ASSUME NEW p \in Stock
      PROVE  p.seq \in Nat /\ p.seq < seqNum /\ seqNum <= p.seq + WindowSize
  <2>1. p.seq \in Nat /\ p.seq < seqNum
    BY StockIsData DEF Stock, Packets
  <2>2. seqNum <= p.seq + WindowSize
    BY DEF Stock, SentInv
  <2> QED BY <2>1, <2>2
<1>3. ASSUME NEW p \in Stock, NEW q \in Stock
      PROVE  q.seq < p.seq + WindowSize
  BY <1>1, <1>2, WindowSizeAssumption
<1>4. \A p \in Stock : p.seq <= seqNum
  BY <1>1, <1>2
<1> QED BY <1>1, <1>2, <1>3, <1>4, NearExtends

\* A window that only moves keeps the packets in its slots.
LEMMA SentMoves ==
  ASSUME SentInv, sWindow \in Windows, UNCHANGED seqNum,
         \/ sWindow' = sWindow
         \/ \E n \in Nat : sWindow' = RemovePacket(sWindow, n)
  PROVE  SentInv'
<1>1. CASE sWindow' = sWindow
  BY <1>1 DEF SentInv
<1>2. CASE \E n \in Nat : sWindow' = RemovePacket(sWindow, n)
  <2>1. PICK n \in Nat : sWindow' = RemovePacket(sWindow, n)
    BY <1>2
  <2>2. \A i \in Slots :
          /\ sWindow'.elements[i].packet = sWindow.elements[i].packet
          /\ sWindow'.elements[i].dataSize = sWindow.elements[i].dataSize
    BY <2>1, RemovePacketLemma
  <2> QED BY <2>2 DEF SentInv
<1> QED BY <1>1, <1>2

\* A new packet replaces the one that would fall a ring behind.
LEMMA SentAdds ==
  ASSUME CommonInv, SentInv, ReadFromDiskAndSend
  PROVE  SentInv'
<1>1. PICK p \in Packets :
        /\ p.seq = seqNum /\ seqNum' = seqNum + 1
        /\ \A i \in Slots : sWindow'.elements[i] =
             IF i = Slot(seqNum) THEN Stored(p) ELSE sWindow.elements[i]
  BY ReadFromDiskAndSendIs
<1>2. seqNum \in Nat /\ WindowSize \in Nat \ {0} /\ ServerInv
  BY CommonFacts DEF CommonInv
<1> SUFFICES ASSUME NEW i \in Slots, sWindow'.elements[i].dataSize = 1
             PROVE  LET q == sWindow'.elements[i].packet
                    IN  seqNum + 1 <= q.seq + WindowSize /\ Slot(q.seq) = i
  BY <1>1 DEF SentInv
<1>3. CASE i = Slot(seqNum)
  BY <1>1, <1>2, <1>3 DEF Stored
<1>4. CASE i # Slot(seqNum)
  <2> DEFINE q == sWindow.elements[i].packet
  <2>1. /\ sWindow'.elements[i] = sWindow.elements[i]
        /\ seqNum <= q.seq + WindowSize /\ Slot(q.seq) = i /\ q.seq \in Nat
    BY <1>1, <1>2, <1>4 DEF SentInv, ServerInv, Genuine
  <2>2. Slot(q.seq + WindowSize) = i
    BY <2>1, SlotAgain
  <2>3. seqNum # q.seq + WindowSize
    BY <1>4, <2>2
  <2> QED BY <1>2, <2>1, <2>3
<1> QED BY <1>3, <1>4

LEMMA ServerCopy ==
  ASSUME CopyInv, ServerNext
  PROVE  SentInv' /\ NearInv'
<1>1. /\ CommonInv /\ SentInv /\ NearInv
      /\ UNCHANGED <<rWindow, expected>>
      /\ sWindow \in Windows /\ seqNum \in Nat /\ toClient \in Seq(Packets)
  BY CommonFacts DEF CopyInv, ServerNext, rcopyVars
<1>2. CASE ServerReceives
  <2>1. PICK i \in Arrivals(toServer, AckReorder) :
          /\ toServer[i] \in Packets /\ UNCHANGED seqNum
          /\ Extends(toClient, toClient', Stock)
          /\ \/ sWindow' = sWindow
             \/ sWindow' = RemovePacket(sWindow, toServer[i].seq)
    BY <1>1, <1>2, ServerReceivesIs
  <2>2. toServer[i].seq \in Nat
    BY <2>1 DEF Packets
  <2> QED BY <1>1, <2>1, <2>2, SentMoves, StockNear
<1>3. CASE ProcessFileName
  <2> DEFINE P == {p \in Packets : p.flag = "FILENAME_RESP" /\ p.seq = 0}
  <2>1. /\ UNCHANGED <<sWindow, seqNum>> /\ Extends(toClient, toClient', P)
    BY <1>1, <1>3, ProcessFileNameIs
  <2>2. /\ P \in SUBSET Packets /\ \A p \in P : p.seq <= seqNum
        /\ \A p \in P : p.flag \notin DataFlags
    BY <1>1 DEF DataFlags
  <2> HIDE DEF P
  <2> QED BY <1>1, <2>1, <2>2, SentMoves, NearExtends
<1>4. CASE ReadFromDiskAndSend
  <2>1. PICK p \in Packets : p.seq = seqNum /\ Extends(toClient, toClient', {p})
    BY <1>1, <1>4, ReadFromDiskAndSendIs
  <2>2. NearInv'
    <3>1. {p} \in SUBSET Packets
      OBVIOUS
    <3>2. /\ \A q \in {p} : q.seq <= seqNum
          /\ \A q \in {p} : /\ seqNum <= q.seq + WindowSize
                            /\ \A r \in {p} : r.seq < q.seq + WindowSize
      BY <1>1, <2>1, WindowSizeAssumption
    <3> QED BY <1>1, <2>1, <3>1, <3>2, NearExtends
  <2> QED BY <1>1, <1>4, <2>2, SentAdds
<1>5. CASE WindowClosed
  <2>1. UNCHANGED <<sWindow, seqNum, toClient>>
    BY <1>5 DEF WindowClosed, networkVars
  <2>2. Extends(toClient, toClient', Stock)
    BY <1>1, <2>1, ExtendsSame
  <2> QED BY <1>1, <2>1, <2>2, SentMoves, StockNear
<1>6. CASE ServerTimesOut
  <2>1. UNCHANGED <<sWindow, seqNum>> /\ Extends(toClient, toClient', Stock)
    BY <1>1, <1>6, ServerTimesOutIs
  <2> QED BY <1>1, <2>1, SentMoves, StockNear
<1> QED BY <1>2, <1>3, <1>4, <1>5, <1>6 DEF ServerNext, ServerSends

-----------------------------------------------------------------------------
(* The invariants.                                                         *)

LEMMA InitCopy == Init => CopyInv
<1> SUFFICES ASSUME Init PROVE CopyInv
  OBVIOUS
<1>1. CommonInv
  BY InitCommon
<1>2. SentInv /\ NearInv
  BY NewWindowEmpty
     DEF Init, NetworkInit, RcopyInit, ServerInit, SentInv, NearInv
<1> QED BY <1>1, <1>2 DEF CopyInv

LEMMA StepCopy == DataReorder = 0 => (CopyInv /\ [Next]_vars => CopyInv')
<1> SUFFICES ASSUME DataReorder = 0, CopyInv, [Next]_vars PROVE CopyInv'
  OBVIOUS
<1>1. CommonInv'
  BY CopyFits, StepCommon DEF CopyInv
<1>2. CASE RcopyNext
  BY <1>2, RcopyCopy
<1>3. CASE ServerNext
  BY <1>1, <1>3, ServerCopy DEF CopyInv
<1>4. CASE UNCHANGED vars
  <2>1. UNCHANGED <<toClient, rWindow, expected, sWindow, seqNum>>
    BY <1>4 DEF vars, networkVars, rcopyVars, serverVars
  <2>2. SentInv' /\ NearInv'
    BY <2>1 DEF CopyInv, SentInv, NearInv
  <2> QED BY <1>1, <2>2 DEF CopyInv
<1> QED BY <1>2, <1>3, <1>4 DEF Next, Terminated

\* If data keep their order, what rcopy buffers beyond its window never falls
\* a ring behind the window's current (addPacket, flushWindow), although the
\* child's window may move back and outrun rcopy's (removePacket).
THEOREM CopyInvariant == DataReorder = 0 => (Spec => []CopyInv)
<1> SUFFICES ASSUME DataReorder = 0 PROVE Spec => []CopyInv
  OBVIOUS
<1>1. Init => CopyInv
  BY InitCopy
<1>2. CopyInv /\ [Next]_vars => CopyInv'
  BY StepCopy
<1> QED BY <1>1, <1>2, PTL DEF Spec

LEMMA CommonInvariant ==
  AckReorder = 0 \/ DataReorder = 0 => (Spec => []CommonInv)
<1>1. ASSUME AckReorder = 0 PROVE Spec => []CommonInv
  <2>1. IInv => CommonInv
    BY DEF IInv
  <2>2. Spec => []IInv
    BY <1>1, Invariant
  <2> QED BY <2>1, <2>2, PTL
<1>2. ASSUME DataReorder = 0 PROVE Spec => []CommonInv
  <2>1. CopyInv => CommonInv
    BY DEF CopyInv
  <2>2. Spec => []CopyInv
    BY <1>2, CopyInvariant
  <2> QED BY <2>1, <2>2, PTL
<1> QED BY <1>1, <1>2

\* The copy on disk is a prefix of the file (writeDataToDisk, flushWindow),
\* unless datagrams of both directions overtake each other.
THEOREM CopyIsPrefix ==
  AckReorder = 0 \/ DataReorder = 0 => (Spec => []WrittenIsPrefix)
<1> SUFFICES ASSUME AckReorder = 0 \/ DataReorder = 0
             PROVE  Spec => []WrittenIsPrefix
  OBVIOUS
<1>1. CommonInv => WrittenIsPrefix
  <2> SUFFICES ASSUME CommonInv PROVE WrittenIsPrefix
    OBVIOUS
  <2>1. /\ Len(written) = expected - 1 /\ seqNum <= NumChunks + 1
        /\ expected \in Nat /\ seqNum \in Nat /\ NumChunks \in Nat
        /\ expected <= seqNum
        /\ \A k \in 1 .. Len(written) : written[k] = k
    BY CommonFacts DEF CommonInv, RcopyInv
  <2> QED BY <2>1 DEF WrittenIsPrefix
<1>2. Spec => []CommonInv
  BY CommonInvariant
<1> QED BY <1>1, <1>2, PTL

\* rcopy believes the file over, or the child that it was received, only
\* when the whole file is written (EOF flag, EOF_ACK).
THEOREM OverIsWhole ==
  AckReorder = 0 \/ DataReorder = 0 => (Spec => []OverMeansWhole)
<1> SUFFICES ASSUME AckReorder = 0 \/ DataReorder = 0
             PROVE  Spec => []OverMeansWhole
  OBVIOUS
<1>1. CommonInv => OverMeansWhole
  <2> SUFFICES ASSUME CommonInv, wroteLastData \/ sState = "DONE"
               PROVE  Len(written) = NumChunks
    BY DEF OverMeansWhole
  <2>1. Len(written) = expected - 1 /\ NumChunks \in Nat
    BY CommonFacts DEF CommonInv, RcopyInv
  <2>2. expected = NumChunks + 1
    BY DEF CommonInv, RcopyInv, OverInv
  <2> QED BY <2>1, <2>2
<1>2. Spec => []CommonInv
  BY CommonInvariant
<1> QED BY <1>1, <1>2, PTL

-----------------------------------------------------------------------------
(* The transfer implements FileCopy.                                       *)

\* rcopy writes only while it goes on, and does nothing once it has ended.
LEMMA WritesOnlyOnwards ==
  ASSUME CommonInv, RcopyNext
  PROVE  /\ ~RcopyEnded
         /\ expected <= expected'
         /\ written' = written \/ ~RcopyEnded'
<1>1. ~RcopyEnded
  BY DEF RcopyNext, RcopyReceives, RcopySends, RcopyTimesOut, RcopyEnded,
     WaitForFileNameAck, RecvData, RecvLastData, SendFileName,
     SendFileNameTimeout, SendEofAck, FileNameAckTimeout, FirstDataTimeout,
     RecvDataTimeout, LastDataTimeout
<1>2. expected \in Nat /\ TypeOK
  BY CommonFacts
<1>3. CASE UNCHANGED transferVars
  BY <1>1, <1>2, <1>3 DEF transferVars
<1>4. CASE \E p, next : /\ next \in {"LAST_DATA", "RECEIVE_DATA"}
                        /\ ProcessPacket(p, next)
  <2>1. PICK p, next : /\ next \in {"LAST_DATA", "RECEIVE_DATA"}
                       /\ ProcessPacket(p, next)
    BY <1>4
  <2>2. expected <= expected'
    BY <1>2, <2>1, ExpectsMore
  <2>3. written' = written \/ rState' = next
    BY <2>1 DEF ProcessPacket, ProcessData, ProcessDataBuffering, WriteInOrder,
       EnterBuffering, AckLower, ReplaceAndFlush, BufferHigher, AskAgain,
       transferVars
  <2> QED BY <1>1, <2>1, <2>2, <2>3 DEF RcopyEnded
<1>5. CASE SendFileNameTimeout
  BY <1>3, <1>5 DEF SendFileNameTimeout
<1> QED BY <1>3, <1>4, <1>5, RcopyStepIs

LEMMA StatusIs ==
  /\ ~RcopyEnded => Status = "copying"
  /\ RcopyEnded /\ wroteLastData => Status = "complete"
  /\ RcopyEnded /\ ~wroteLastData => Status = "failed"
  /\ ~RcopyEnded' => Status' = "copying"
  /\ RcopyEnded' /\ wroteLastData' => Status' = "complete"
  /\ RcopyEnded' /\ ~wroteLastData' => Status' = "failed"
BY DEF Status

LEMMA SamePrefix ==
  ASSUME NEW s \in Seq(Nat), NEW t \in Seq(Nat), Len(s) = Len(t),
         \A k \in 1 .. Len(s) : s[k] = k, \A k \in 1 .. Len(t) : t[k] = k
  PROVE  s = t
<1>1. \A k \in 1 .. Len(s) : s[k] = t[k]
  OBVIOUS
<1> QED BY <1>1, SeqEqual

\* Two prefixes of the file differ by the chunks between their ends.
LEMMA PrefixGrows ==
  ASSUME NEW s \in Seq(Nat), NEW t \in Seq(Nat), Len(s) <= Len(t),
         \A k \in 1 .. Len(s) : s[k] = k, \A k \in 1 .. Len(t) : t[k] = k
  PROVE  t = s \o FC!Chunks(Len(s), Len(t))
<1> DEFINE c == FC!Chunks(Len(s), Len(t))
<1>1. c = [k \in 1 .. Len(t) - Len(s) |-> Len(s) + k]
  BY DEF FC!Chunks
<1>2. /\ c \in Seq(Nat) /\ Len(c) = Len(t) - Len(s)
      /\ \A k \in 1 .. Len(c) : c[k] = Len(s) + k
  BY <1>1
<1> HIDE DEF c
<1>3. /\ s \o c \in Seq(Nat) /\ Len(s \o c) = Len(s) + Len(c)
      /\ \A j \in 1 .. Len(s) + Len(c) :
           (s \o c)[j] = IF j <= Len(s) THEN s[j] ELSE c[j - Len(s)]
  BY <1>2, JoinLemma
<1>4. ASSUME NEW j \in 1 .. Len(t) PROVE (s \o c)[j] = t[j]
  <2>1. CASE j <= Len(s)
    BY <1>2, <1>3, <2>1
  <2>2. CASE ~(j <= Len(s))
    <3>1. j - Len(s) \in 1 .. Len(c) /\ Len(s) + (j - Len(s)) = j
      BY <1>2, <2>2
    <3>2. (s \o c)[j] = c[j - Len(s)]
      BY <1>2, <1>3, <2>2
    <3> QED BY <1>2, <3>1, <3>2
  <2> QED BY <2>1, <2>2
<1>5. Len(s \o c) = Len(t)
  BY <1>2, <1>3
<1>6. s \o c = t
  BY <1>3, <1>4, <1>5, SeqEqual
<1> QED BY <1>6 DEF c

LEMMA StepImplements ==
  ASSUME CommonInv, CommonInv', [Next]_vars
  PROVE  [FC!Next]_<<written, Status>>
<1>1. CASE UNCHANGED <<rState, written, wroteLastData>>
  BY <1>1 DEF Status, RcopyEnded
<1>2. CASE RcopyNext
  <2>1. /\ ~RcopyEnded /\ expected <= expected'
        /\ written' = written \/ ~RcopyEnded'
    BY <1>2, WritesOnlyOnwards
  <2>2. Status = "copying"
    BY <2>1, StatusIs
  <2>3. CASE ~RcopyEnded' /\ written' # written
    <3>1. Status' = "copying"
      BY <2>3, StatusIs
    <3>2. /\ written \in Seq(Nat) /\ written' \in Seq(Nat)
          /\ \A k \in 1 .. Len(written) : written[k] = k
          /\ \A k \in 1 .. Len(written') : written'[k] = k
      BY DEF CommonInv, TypeInv, TypeOK, RcopyTypeOK, RcopyInv
    <3>3. Len(written) <= Len(written') /\ Len(written') <= NumChunks
      <4> DEFINE n == expected'
      <4>1. /\ expected \in Nat /\ n \in Nat /\ expected <= n
            /\ seqNum' \in Nat /\ NumChunks \in Nat
        BY <2>1, ServerAssumption
           DEF CommonInv, TypeInv, TypeOK, RcopyTypeOK, ServerTypeOK
      <4>2. n <= seqNum' /\ seqNum' <= NumChunks + 1
        BY DEF CommonInv, RcopyInv, ServerInv
      <4>3. Len(written) = expected - 1 /\ Len(written') = n - 1
        BY DEF CommonInv, RcopyInv
      <4> HIDE DEF n
      <4> QED BY <4>1, <4>2, <4>3
    <3>4. written' = written \o FC!Chunks(Len(written), Len(written'))
      BY <3>2, <3>3, PrefixGrows
    <3>5. Len(written) # Len(written')
      BY <2>3, <3>2, SamePrefix
    <3>6. Len(written') \in Len(written) + 1 .. NumChunks
      <4>1. Len(written) \in Nat /\ Len(written') \in Nat /\ NumChunks \in Nat
        BY <3>2, ServerAssumption
      <4> QED BY <3>3, <3>5, <4>1
    <3>7. FC!Grow
      BY <2>2, <3>1, <3>4, <3>6 DEF FC!Grow
    <3> QED BY <3>7 DEF FC!Next
  <2>4. CASE ~RcopyEnded' /\ written' = written
    BY <2>2, <2>4, StatusIs
  <2>5. CASE RcopyEnded' /\ wroteLastData' /\ written' = written
    <3>1. Status' = "complete"
      BY <2>5, StatusIs
    <3>2. Len(written) = NumChunks
      <4>1. expected' = NumChunks + 1 /\ Len(written') = expected' - 1
        BY <2>5 DEF CommonInv, RcopyInv
      <4> QED BY <2>5, <4>1, ServerAssumption
    <3>3. FC!Complete
      BY <2>2, <2>5, <3>1, <3>2 DEF FC!Complete
    <3> QED BY <3>3 DEF FC!Next
  <2>6. CASE RcopyEnded' /\ ~wroteLastData' /\ written' = written
    <3>1. Status' = "failed"
      BY <2>6, StatusIs
    <3>2. FC!Fail
      BY <2>2, <2>6, <3>1 DEF FC!Fail
    <3> QED BY <3>2 DEF FC!Next
  <2> QED BY <2>1, <2>3, <2>4, <2>5, <2>6
<1>3. CASE ServerNext
  BY <1>1, <1>3 DEF ServerNext, rcopyVars
<1>4. CASE UNCHANGED vars
  BY <1>1, <1>4 DEF vars, rcopyVars
<1> QED BY <1>2, <1>3, <1>4 DEF Next, Terminated

\* A transfer is a file copy that grows by the file's chunks in their order
\* and ends complete or failed (rcopy's stateMachine, lastData), unless
\* datagrams of both directions overtake each other.
THEOREM Implements ==
  AckReorder = 0 \/ DataReorder = 0 => (Spec => ImplementsFileCopy)
<1> SUFFICES ASSUME AckReorder = 0 \/ DataReorder = 0
             PROVE  Spec => ImplementsFileCopy
  OBVIOUS
<1>1. Init => FC!Init
  <2> SUFFICES ASSUME Init PROVE FC!Init
    OBVIOUS
  <2>1. written = <<>> /\ ~RcopyEnded
    BY DEF Init, RcopyInit, RcopyEnded
  <2> QED BY <2>1, StatusIs DEF FC!Init
<1>2. CommonInv /\ CommonInv' /\ [Next]_vars => [FC!Next]_<<written, Status>>
  BY StepImplements
<1>3. Spec => []CommonInv
  BY CommonInvariant
<1> QED BY <1>1, <1>2, <1>3, PTL DEF Spec, ImplementsFileCopy, FC!Spec
=============================================================================
