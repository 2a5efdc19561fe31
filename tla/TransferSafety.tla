--------------------------- MODULE TransferSafety ---------------------------
(***************************************************************************)
(* Proofs that every step of Transfer keeps CommonInv, if what rcopy       *)
(* buffers fits its window when it flushes; that IInv is inductive for     *)
(* AckReorder = 0; and of the safety properties that follow from IInv, for *)
(* every value of the other constants.                                     *)
(***************************************************************************)
EXTENDS TransferProofs, SequenceTheorems

\* The buffer of a receiver that expects number from: RcopyInv's last part.
RingOf(w, from) ==
  \A i \in Slots : w.elements[i].valid =>
    LET p == w.elements[i].packet
    IN  /\ Genuine(p)
        /\ from <= p.seq /\ p.seq < seqNum
        /\ Slot(p.seq) = i

\* The types and ranges that the invariant gives.
LEMMA CommonFacts ==
  ASSUME CommonInv
  PROVE  /\ TypeOK /\ NetworkTypeOK /\ RcopyTypeOK /\ ServerTypeOK
         /\ toServer \in Seq(Packets) /\ toClient \in Seq(Packets)
         /\ errors \in 0 .. MaxErrors
         /\ rWindow \in Windows /\ rWindow.current \in Nat
         /\ sWindow \in Windows /\ sWindow.lower \in Nat /\ sWindow.current \in Nat
         /\ written \in Seq(Nat) /\ filePos \in Nat
         /\ expected \in Nat \ {0} /\ seqNum \in Nat \ {0}
         /\ NumChunks \in Nat \ {0} /\ WindowSize \in Nat \ {0}
         /\ expected <= seqNum /\ seqNum <= NumChunks + 1
<1>1. /\ TypeOK /\ NetworkTypeOK /\ RcopyTypeOK /\ ServerTypeOK
      /\ RcopyInv /\ ServerInv
  BY DEF CommonInv, TypeInv, TypeOK
<1>2. /\ toServer \in Seq(Packets) /\ toClient \in Seq(Packets)
      /\ errors \in 0 .. MaxErrors /\ rWindow \in Windows /\ sWindow \in Windows
      /\ written \in Seq(Nat) /\ filePos \in Nat /\ expected \in Nat /\ seqNum \in Nat
  BY <1>1 DEF NetworkTypeOK, RcopyTypeOK, ServerTypeOK
<1>3. /\ rWindow.current \in Nat
      /\ sWindow.lower \in Nat /\ sWindow.current \in Nat
  BY <1>2 DEF Windows
<1>4. expected # 0
  BY <1>1, <1>2 DEF RcopyInv
<1> QED BY <1>1, <1>2, <1>3, <1>4, WindowSizeAssumption, ServerAssumption
        DEF RcopyInv, ServerInv

\* Two numbers of one window that share a slot are the same.
LEMMA SameSlot ==
  ASSUME NEW a \in Nat, NEW b \in Nat, NEW from \in Nat,
         from <= a, a < from + WindowSize,
         from <= b, b < from + WindowSize, Slot(a) = Slot(b)
  PROVE  a = b
<1>1. CASE a < b
  BY <1>1, SlotInjective, WindowSizeAssumption
<1>2. CASE b < a
  BY <1>2, SlotInjective, WindowSizeAssumption
<1> QED BY <1>1, <1>2

\* removePacket(n) leaves the packets from n on.
LEMMA RemoveKeepsRing ==
  ASSUME NEW w \in Windows, NEW n \in Nat, seqNum \in Nat,
         w.lower <= n, RingOf(w, w.lower)
  PROVE  RingOf(RemovePacket(w, n), n)
<1> DEFINE r == RemovePacket(w, n)
<1> SUFFICES ASSUME NEW i \in Slots, r.elements[i].valid
             PROVE  LET p == r.elements[i].packet
                    IN  /\ Genuine(p) /\ n <= p.seq /\ p.seq < seqNum
                        /\ Slot(p.seq) = i
  BY DEF RingOf
<1> DEFINE p == w.elements[i].packet
<1>1. /\ r.elements[i].packet = p
      /\ w.elements[i].valid /\ i \notin SlotsFrom(w.lower, n)
  BY RemovePacketLemma
<1>2. Genuine(p) /\ w.lower <= p.seq /\ p.seq < seqNum /\ Slot(p.seq) = i
  BY <1>1 DEF RingOf
<1>3. p.seq \in Nat /\ w.lower \in Nat
  BY <1>2 DEF Genuine, Windows
<1>4. ~(p.seq < n)
  <2> SUFFICES ASSUME p.seq < n PROVE FALSE
    OBVIOUS
  <2>1. p.seq \in w.lower .. (n - 1)
    BY <1>2, <1>3
  <2> QED BY <1>1, <1>2, <2>1 DEF SlotsFrom
<1> QED BY <1>1, <1>2, <1>3, <1>4

\* Neither current nor a valid slot is more than a ring ahead of lower.
Fits(w) ==
  /\ w.current <= w.lower + WindowSize
  /\ \A i \in Slots : w.elements[i].valid =>
       w.elements[i].packet.seq < w.lower + WindowSize

\* Each of the packets that flushWindow fetches is then the next one to write.
LEMMA FlushedAreNext ==
  ASSUME NEW w \in Windows, NEW n \in InorderValidPackets(w),
         seqNum \in Nat, RingOf(w, w.lower),
         w.current <= seqNum, w.lower <= seqNum, Fits(w)
  PROVE  /\ n \in Nat /\ w.lower + n <= seqNum
         /\ \A k \in 1 .. n :
              LET p == InorderPackets(w, n)[k]
              IN  Genuine(p) /\ p.seq = w.lower + k - 1
<1>0. w.lower \in Nat /\ w.current \in Nat
  BY DEF Windows
<1>1. n \in Nat /\ w.lower + n <= seqNum
  BY <1>0 DEF InorderValidPackets, Span
<1>2. ASSUME NEW k \in 1 .. n
      PROVE  LET p == InorderPackets(w, n)[k]
             IN  Genuine(p) /\ p.seq = w.lower + k - 1
  <2> DEFINE m == w.lower + k - 1
             p == GetPacket(w, m).packet
  <2>1. m \in Nat /\ w.lower <= m /\ m < w.current /\ k - 1 \in 0 .. n - 1
        /\ m = w.lower + (k - 1)
    BY <1>0, <1>1 DEF InorderValidPackets, Span
  <2>2. PacketValidInWindow(w, w.lower + (k - 1))
    BY <2>1 DEF InorderValidPackets
  <2>3. w.elements[Slot(m)].valid /\ Slot(m) \in Slots
    BY <2>1, <2>2, SlotType DEF PacketValidInWindow
  <2>4. /\ Genuine(p) /\ w.lower <= p.seq /\ p.seq < w.lower + WindowSize
        /\ Slot(p.seq) = Slot(m)
    BY <2>3 DEF RingOf, Fits, GetPacket
  <2>5. p.seq \in Nat
    BY <2>4 DEF Genuine
  <2>6. p.seq = m
    <3> HIDE DEF m, p
    <3>1. m < w.lower + WindowSize
      BY <1>0, <2>1, WindowSizeAssumption DEF Fits
    <3> QED BY <1>0, <2>1, <2>4, <2>5, <3>1, SameSlot
  <2>7. InorderPackets(w, n)[k] = GetPacket(w, p.seq).packet
    BY <1>1, InorderPacketsType
  <2> QED BY <2>4, <2>6, <2>7
<1> QED BY <1>1, <1>2

-----------------------------------------------------------------------------
(* rcopy's invariant under each branch for a data packet of the file.      *)

LEMMA RingOfRcopy ==
  ASSUME RcopyInv
  PROVE  RingOf(rWindow, expected)
BY DEF RcopyInv, RingOf

\* What is to be shown of the window and the copy that a branch leaves.
LEMMA RcopyInvIntro ==
  ASSUME UNCHANGED seqNum,
         expected' <= seqNum,
         rWindow'.lower = expected', rWindow'.upper = expected' + WindowSize,
         rWindow'.current <= seqNum,
         Len(written') = expected' - 1,
         \A k \in 1 .. Len(written') : written'[k] = k,
         wroteLastData' => expected' = NumChunks + 1,
         RingOf(rWindow', expected')
  PROVE  RcopyInv'
BY DEF RcopyInv, RingOf, Genuine

LEMMA WriteInOrderKeeps ==
  ASSUME CommonInv, UNCHANGED seqNum, NEW p \in Packets, NEW next,
         Genuine(p), p.seq < seqNum, WriteInOrder(p, next)
  PROVE  RcopyInv'
<1>1. /\ p.seq = expected /\ written' = Append(written, p.data)
      /\ wroteLastData' = (wroteLastData \/ p.flag = "EOF")
      /\ expected' = expected + 1
      /\ rWindow' = RemovePacket(rWindow, expected + 1)
  BY DEF WriteInOrder
<1>2. /\ expected \in Nat \ {0} /\ seqNum \in Nat /\ NumChunks \in Nat \ {0}
      /\ seqNum <= NumChunks + 1 /\ WindowSize \in Nat \ {0}
      /\ rWindow \in Windows /\ written \in Seq(Nat) /\ rWindow.current \in Nat
  BY CommonFacts
<1>3. RcopyInv
  BY DEF CommonInv
<1>4. /\ rWindow'.lower = expected + 1
      /\ rWindow'.upper = (expected + 1) + WindowSize
      /\ rWindow'.current = rWindow.current
  <2>1. expected + 1 \in Nat
    BY <1>2
  <2> QED BY <2>1, <1>1, <1>2, RemovePacketLemma
<1>5. RingOf(RemovePacket(rWindow, expected + 1), expected + 1)
  <2>1. /\ rWindow.lower <= expected + 1 /\ RingOf(rWindow, rWindow.lower)
        /\ expected + 1 \in Nat
    BY <1>2, <1>3, RingOfRcopy DEF RcopyInv
  <2> QED BY <2>1, <1>2, RemoveKeepsRing
<1>6. p.data = expected /\ (p.flag = "EOF" => expected = NumChunks)
      /\ expected <= NumChunks
  BY <1>1, <1>2 DEF Genuine
<1>7. /\ Len(written') = (expected + 1) - 1
      /\ \A k \in 1 .. Len(written') : written'[k] = k
  <2>1. Len(written) = expected - 1 /\ \A k \in 1 .. Len(written) : written[k] = k
    BY <1>3 DEF RcopyInv
  <2>2. written' = Append(written, expected)
    BY <1>1, <1>6
  <2> QED BY <2>1, <2>2, <1>2
<1>8. wroteLastData' => expected + 1 = NumChunks + 1
  <2>1. CASE wroteLastData
    BY <2>1, <1>2, <1>3, <1>6 DEF RcopyInv
  <2>2. CASE p.flag = "EOF"
    BY <2>2, <1>6
  <2> QED BY <2>1, <2>2, <1>1
<1>9. expected + 1 <= seqNum /\ rWindow.current <= seqNum
  BY <1>1, <1>2, <1>3 DEF RcopyInv
<1> QED BY <1>1, <1>4, <1>5, <1>7, <1>8, <1>9, RcopyInvIntro

LEMMA BufferPacketKeeps ==
  ASSUME CommonInv, UNCHANGED seqNum, NEW p \in Packets, NEW next,
         Genuine(p), p.seq < seqNum, p.seq > expected, BufferPacket(p, next),
         UNCHANGED <<expected, written, wroteLastData>>
  PROVE  RcopyInv'
<1>1. RcopyInv
  BY DEF CommonInv
<1>2. /\ rWindow \in Windows /\ p.seq \in Nat /\ expected \in Nat
      /\ seqNum \in Nat /\ rWindow.current \in Nat
  BY CommonFacts DEF Packets
<1>3. CASE rWindow' = rWindow
  BY <1>1, <1>3 DEF RcopyInv, Genuine
<1>4. CASE rWindow' = AddPacket(rWindow, p)
  <2> DEFINE w == AddPacket(rWindow, p)
  <2>1. /\ w.lower = rWindow.lower /\ w.upper = rWindow.upper
        /\ w.current = IF p.seq >= rWindow.current THEN p.seq + 1
                       ELSE rWindow.current
        /\ \A i \in Slots :
             /\ w.elements[i].packet =
                  IF i = Slot(p.seq) THEN p ELSE rWindow.elements[i].packet
             /\ w.elements[i].valid => i = Slot(p.seq) \/ rWindow.elements[i].valid
    BY <1>2, AddPacketLemma
  <2> HIDE DEF w
  <2>2. w.current <= seqNum
    BY <1>1, <1>2, <2>1 DEF RcopyInv
  <2>3. RingOf(rWindow, expected)
    BY <1>1, RingOfRcopy
  <2>4. RingOf(w, expected)
    BY <1>2, <2>1, <2>3 DEF RingOf
  <2>5. rWindow' = w
    BY <1>4 DEF w
  <2>6. /\ expected <= seqNum
        /\ w.lower = expected /\ w.upper = expected + WindowSize
        /\ Len(written) = expected - 1
        /\ \A k \in 1 .. Len(written) : written[k] = k
        /\ wroteLastData => expected = NumChunks + 1
    BY <1>1, <2>1 DEF RcopyInv
  <2> QED BY <2>2, <2>4, <2>5, <2>6, RcopyInvIntro
<1> QED BY <1>3, <1>4 DEF BufferPacket

LEMMA ReplaceAndFlushKeeps ==
  ASSUME CommonInv, UNCHANGED seqNum, NEW p \in Packets, NEW next,
         Genuine(p), p.seq < seqNum, Fits(rWindow), ReplaceAndFlush(p, next)
  PROVE  RcopyInv'
<1> DEFINE w == ReplacePacket(rWindow, p)
<1>1. RcopyInv
  BY DEF CommonInv
<1>2. /\ expected \in Nat \ {0} /\ seqNum \in Nat /\ NumChunks \in Nat \ {0}
      /\ expected <= seqNum /\ seqNum <= NumChunks + 1 /\ WindowSize \in Nat \ {0}
      /\ rWindow \in Windows /\ written \in Seq(Nat)
  BY CommonFacts
<1>3. p.seq = expected
  BY DEF ReplaceAndFlush
<1>4. /\ w \in Windows /\ w.lower = expected /\ w.upper = expected + WindowSize
      /\ w.current = rWindow.current /\ w.current <= seqNum
      /\ \A i \in Slots : w.elements[i] =
           IF i = Slot(p.seq) THEN Stored(p) ELSE rWindow.elements[i]
  BY <1>1, <1>2, ReplacePacketLemma DEF RcopyInv
<1>5. PICK n \in InorderValidPackets(w) :
        /\ written' = written \o [k \in 1 .. n |-> InorderPackets(w, n)[k].data]
        /\ wroteLastData' = (wroteLastData \/
             \E k \in 1 .. n : InorderPackets(w, n)[k].flag = "EOF")
        /\ expected' = expected + n
        /\ rWindow' = IF n > 0 THEN RemovePacket(w, expected + n) ELSE w
  BY DEF ReplaceAndFlush
<1> HIDE DEF w
<1>6. RingOf(w, expected) /\ Fits(w)
  <2>1. RingOf(rWindow, expected) /\ rWindow.lower = expected
    BY <1>1, RingOfRcopy DEF RcopyInv
  <2>2. Stored(p).packet = p
    BY DEF Stored
  <2>3. RingOf(w, expected)
    BY <1>2, <1>3, <1>4, <2>1, <2>2 DEF RingOf
  <2>4. Fits(w)
    BY <1>2, <1>3, <1>4, <2>1, <2>2 DEF Fits
  <2> QED BY <2>3, <2>4
<1>7. /\ n \in Nat /\ expected + n <= seqNum
      /\ \A k \in 1 .. n :
           LET q == InorderPackets(w, n)[k]
           IN  Genuine(q) /\ q.seq = expected + k - 1
  BY <1>2, <1>4, <1>6, FlushedAreNext
<1> DEFINE data == [k \in 1 .. n |-> InorderPackets(w, n)[k].data]
<1>8. data \in Seq(Nat) /\ Len(data) = n
      /\ \A k \in 1 .. n : data[k] = expected + k - 1
  <2>1. \A k \in 1 .. n : InorderPackets(w, n)[k].data = expected + k - 1
    BY <1>7 DEF Genuine
  <2>2. \A k \in 1 .. n : expected + k - 1 \in Nat
    BY <1>2, <1>7
  <2> QED BY <2>1, <2>2, <1>7
<1> HIDE DEF data
<1>9. /\ Len(written') = (expected + n) - 1
      /\ \A k \in 1 .. Len(written') : written'[k] = k
  <2>1. Len(written) = expected - 1 /\ \A k \in 1 .. Len(written) : written[k] = k
    BY <1>1 DEF RcopyInv
  <2>2. written' = written \o data
    BY <1>5 DEF data
  <2>3. /\ Len(written \o data) = Len(written) + Len(data)
        /\ \A k \in 1 .. Len(written) + Len(data) : (written \o data)[k] =
             IF k <= Len(written) THEN written[k] ELSE data[k - Len(written)]
    BY <1>2, <1>8, JoinLemma
  <2>4. ASSUME NEW k \in 1 .. (expected + n) - 1 PROVE written'[k] = k
    <3>1. CASE k <= expected - 1
      BY <3>1, <1>2, <1>7, <1>8, <2>1, <2>2, <2>3
    <3>2. CASE ~(k <= expected - 1)
      <4>1. k - (expected - 1) \in 1 .. n
        BY <3>2, <1>2, <1>7
      <4>2. written'[k] = data[k - (expected - 1)]
        BY <3>2, <1>2, <1>7, <1>8, <2>1, <2>2, <2>3
      <4> QED BY <4>1, <4>2, <1>2, <1>7, <1>8
    <3> QED BY <3>1, <3>2
  <2>5. Len(written') = (expected + n) - 1
    BY <1>2, <1>7, <1>8, <2>1, <2>2, <2>3
  <2> QED BY <2>4, <2>5
<1>10. wroteLastData' => expected + n = NumChunks + 1
  <2>1. CASE wroteLastData
    BY <2>1, <1>1, <1>2, <1>7 DEF RcopyInv
  <2>2. CASE \E k \in 1 .. n : InorderPackets(w, n)[k].flag = "EOF"
    <3>1. PICK k \in 1 .. n : InorderPackets(w, n)[k].flag = "EOF"
      BY <2>2
    <3>2. expected + k - 1 = NumChunks
      BY <3>1, <1>7 DEF Genuine
    <3> QED BY <3>2, <1>2, <1>7
  <2> QED BY <2>1, <2>2, <1>5
<1>11. /\ rWindow'.lower = expected + n
       /\ rWindow'.upper = (expected + n) + WindowSize
       /\ rWindow'.current = w.current
       /\ RingOf(rWindow', expected + n)
  <2>1. CASE n > 0
    <3>1. rWindow' = RemovePacket(w, expected + n) /\ expected + n \in Nat
      BY <2>1, <1>2, <1>5, <1>7
    <3>2. RingOf(RemovePacket(w, expected + n), expected + n)
      <4>1. w.lower <= expected + n /\ RingOf(w, w.lower) /\ expected + n \in Nat
        BY <1>2, <1>4, <1>6, <1>7
      <4> QED BY <4>1, <1>2, <1>4, RemoveKeepsRing
    <3> QED BY <3>1, <3>2, <1>4, RemovePacketLemma
  <2>2. CASE n = 0
    BY <2>2, <1>2, <1>4, <1>5, <1>6
  <2> QED BY <2>1, <2>2, <1>7
<1> QED BY <1>4, <1>5, <1>7, <1>9, <1>10, <1>11, RcopyInvIntro

\* Whatever rcopy does with a data packet of the file keeps its invariant, if
\* what it may flush fits its window.
LEMMA ProcessPacketKeeps ==
  ASSUME CommonInv, UNCHANGED seqNum, NEW p \in Packets, NEW next,
         Genuine(p), p.seq < seqNum, p.seq = expected => Fits(rWindow),
         ProcessPacket(p, next)
  PROVE  RcopyInv'
<1>0. RcopyInv
  BY DEF CommonInv
<1>1. CASE WriteInOrder(p, next)
  BY <1>1, WriteInOrderKeeps
<1>2. CASE EnterBuffering(p, next)
  BY <1>2, BufferPacketKeeps DEF EnterBuffering
<1>3. CASE AckLower(p, next) \/ AskAgain(next)
  BY <1>0, <1>3 DEF AckLower, AskAgain, transferVars, RcopyInv, Genuine
<1>4. CASE ReplaceAndFlush(p, next)
  BY <1>4, ReplaceAndFlushKeeps DEF ReplaceAndFlush
<1>5. CASE BufferHigher(p, next)
  BY <1>5, BufferPacketKeeps DEF BufferHigher
<1> QED BY <1>1, <1>2, <1>3, <1>4, <1>5
        DEF ProcessPacket, ProcessData, ProcessDataBuffering

\* What rcopy expects next only grows.
LEMMA ExpectsMore ==
  ASSUME TypeOK, NEW p, NEW next, ProcessPacket(p, next)
  PROVE  expected <= expected'
<1>1. expected \in Nat
  BY DEF TypeOK, RcopyTypeOK
<1>2. \A w : InorderValidPackets(w) \subseteq Nat
  BY DEF InorderValidPackets
<1>3. CASE ReplaceAndFlush(p, next)
  <2>1. PICK n \in InorderValidPackets(ReplacePacket(rWindow, p)) :
          expected' = expected + n
    BY <1>3 DEF ReplaceAndFlush
  <2> QED BY <1>1, <1>2, <2>1
<1> QED BY <1>1, <1>3
        DEF ProcessPacket, ProcessData, ProcessDataBuffering, WriteInOrder,
            EnterBuffering, AckLower, BufferHigher, AskAgain, transferVars

\* addPacket alone moves current, past the packet that it stores.
LEMMA CurrentMoves ==
  ASSUME TypeOK, NEW p \in Packets, NEW next, ProcessPacket(p, next), expected' \in Nat
  PROVE  rWindow'.current \in {rWindow.current, p.seq + 1}
<1>1. rWindow \in Windows
  BY DEF TypeOK, RcopyTypeOK
<1>2. CASE rWindow' = rWindow \/ rWindow' = AddPacket(rWindow, p)
  BY <1>1, <1>2, AddPacketLemma
<1>3. CASE \E w \in {rWindow, ReplacePacket(rWindow, p)} :
             rWindow' \in {w, RemovePacket(w, expected')}
  <2>1. PICK w \in {rWindow, ReplacePacket(rWindow, p)} :
          rWindow' \in {w, RemovePacket(w, expected')}
    BY <1>3
  <2>2. w \in Windows /\ w.current = rWindow.current
    BY <1>1, ReplacePacketLemma
  <2>3. RemovePacket(w, expected').current = w.current
    BY <2>2, RemovePacketLemma
  <2> QED BY <2>1, <2>2, <2>3
<1> QED BY <1>2, <1>3
        DEF ProcessPacket, ProcessData, ProcessDataBuffering, WriteInOrder,
            EnterBuffering, AckLower, ReplaceAndFlush, BufferHigher, AskAgain,
            BufferPacket, transferVars

-----------------------------------------------------------------------------
(* The two channels.                                                       *)

\* Datagrams to rcopy: those of before, responses, and data already sent.
LEMMA DataKept ==
  ASSUME DataInv, seqNum \in Nat, seqNum' \in Nat, seqNum <= seqNum',
         \A j \in 1 .. Len(toClient') : toClient'[j].ok =>
           \/ \E k \in 1 .. Len(toClient) : toClient'[j] = toClient[k]
           \/ toClient'[j].flag = "FILENAME_RESP" /\ toClient'[j].seq = 0
           \/ Genuine(toClient'[j]) /\ toClient'[j].seq < seqNum'
  PROVE  DataInv'
<1> SUFFICES ASSUME NEW j \in 1 .. Len(toClient'), toClient'[j].ok
             PROVE  \/ toClient'[j].flag = "FILENAME_RESP" /\ toClient'[j].seq = 0
                    \/ Genuine(toClient'[j]) /\ toClient'[j].seq < seqNum'
  BY DEF DataInv
<1>1. CASE \E k \in 1 .. Len(toClient) : toClient'[j] = toClient[k]
  <2>1. PICK k \in 1 .. Len(toClient) : toClient'[j] = toClient[k]
    BY <1>1
  <2>2. \/ toClient'[j].flag = "FILENAME_RESP" /\ toClient'[j].seq = 0
        \/ Genuine(toClient'[j]) /\ toClient'[j].seq < seqNum
    BY <2>1 DEF DataInv
  <2>3. Genuine(toClient'[j]) => toClient'[j].seq \in Nat
    BY DEF Genuine
  <2> QED BY <2>2, <2>3
<1> QED BY <1>1

LEMMA DataExtends ==
  ASSUME DataInv, seqNum \in Nat, seqNum' \in Nat, seqNum <= seqNum',
         NEW P, Extends(toClient, toClient', P),
         \A p \in P : \/ p.flag = "FILENAME_RESP" /\ p.seq = 0
                      \/ Genuine(p) /\ p.seq < seqNum'
  PROVE  DataInv'
<1> SUFFICES ASSUME NEW j \in 1 .. Len(toClient'), toClient'[j].ok
             PROVE  \/ \E k \in 1 .. Len(toClient) : toClient'[j] = toClient[k]
                    \/ toClient'[j].flag = "FILENAME_RESP" /\ toClient'[j].seq = 0
                    \/ Genuine(toClient'[j]) /\ toClient'[j].seq < seqNum'
  BY DataKept
<1>1. CASE j \in 1 .. Len(toClient)
  BY <1>1 DEF Extends
<1>2. CASE j \notin 1 .. Len(toClient)
  <2>1. j \in Len(toClient) + 1 .. Len(toClient')
    BY <1>2 DEF Extends
  <2>2. toClient'[j] \in P
    BY <2>1 DEF Extends
  <2> QED BY <2>2
<1> QED BY <1>1, <1>2

\* What rcopy may say when it expects n.
Said(n) ==
  {p \in Packets : /\ p.flag = "RR" => p.seq = n
                   /\ p.flag = "EOF_ACK" => n = NumChunks + 1}

LEMMA AcksAreSaid ==
  /\ \A n \in Nat : Acks(n) \subseteq Said(n)
  /\ \A n, m \in Nat : {BuildSrejPacket(m)} \subseteq Said(n)
  /\ NumChunks + 1 \in Nat
       => {Reflag(BuildRrPacket(NumChunks + 1), "EOF_ACK")} \subseteq Said(NumChunks + 1)
<1>1. /\ \A n \in Nat : /\ BuildRrPacket(n) \in Packets
                        /\ BuildSrejPacket(n) \in Packets
                        /\ Reflag(BuildRrPacket(n), "EOF_ACK") \in Packets
  BY BuildTypes
<1>2. \A n : /\ BuildRrPacket(n).flag = "RR" /\ BuildRrPacket(n).seq = n
             /\ BuildSrejPacket(n).flag = "SREJ"
             /\ Reflag(BuildRrPacket(n), "EOF_ACK").flag = "EOF_ACK"
  BY DEF BuildRrPacket, BuildSrejPacket, Reflag
<1>3. \A n \in Nat : Acks(n) \subseteq Said(n)
  BY <1>1, <1>2 DEF Acks, Said
<1>4. \A n, m \in Nat : {BuildSrejPacket(m)} \subseteq Said(n)
  BY <1>1, <1>2 DEF Said
<1>5. NumChunks + 1 \in Nat
        => {Reflag(BuildRrPacket(NumChunks + 1), "EOF_ACK")} \subseteq Said(NumChunks + 1)
  BY <1>1, <1>2 DEF Said
<1> QED BY <1>3, <1>4, <1>5

\* Datagrams to the child that were there before, or that rcopy says.
LEMMA OverKept ==
  ASSUME OverInv, expected' = expected \/ expected # NumChunks + 1,
         \A j \in 1 .. Len(toServer') : toServer'[j].ok =>
           \/ \E k \in 1 .. Len(toServer) : toServer'[j] = toServer[k]
           \/ toServer'[j] \in Said(expected'),
         sState' = "DONE" => expected' = NumChunks + 1
  PROVE  OverInv'
<1>1. ASSUME NEW j \in 1 .. Len(toServer'), toServer'[j].ok,
             toServer'[j].flag = "EOF_ACK"
      PROVE  expected' = NumChunks + 1
  <2>1. CASE \E k \in 1 .. Len(toServer) : toServer'[j] = toServer[k]
    BY <1>1, <2>1 DEF OverInv
  <2>2. CASE toServer'[j] \in Said(expected')
    BY <1>1, <2>2 DEF Said
  <2> QED BY <1>1, <2>1, <2>2
<1> QED BY <1>1 DEF OverInv

-----------------------------------------------------------------------------
(* rcopy's steps.                                                          *)

\* If the packet that rcopy waits for is the next to be served, then what rcopy
\* may flush with it fits its window.
FitsExpected ==
  \A i \in Arrivals(toClient, DataReorder) :
    /\ toClient[i].ok /\ toClient[i].flag \in DataFlags
    /\ toClient[i].seq = expected
    => Fits(rWindow)

\* What every step of rcopy but the change of socket comes to.
RcopyMoved ==
  /\ CommonInv'
  /\ expected <= expected'
  /\ Extends(toServer, toServer', Said(expected'))

LEMMA RcopyKeeps ==
  ASSUME CommonInv, TypeInv', UNCHANGED serverVars,
         Extends(toServer, toServer', Said(expected')),
         \A j \in 1 .. Len(toClient') :
           \E k \in 1 .. Len(toClient) : toClient'[j] = toClient[k],
         expected <= expected', RcopyInv', NotBegun', NoChild'
  PROVE  RcopyMoved
<1>1. UNCHANGED <<sState, sWindow, seqNum, filePos>>
  BY DEF serverVars
<1>2. ServerInv'
  BY <1>1 DEF CommonInv, ServerInv, Genuine
<1>3. /\ seqNum \in Nat /\ seqNum <= NumChunks + 1
      /\ expected \in Nat /\ NumChunks \in Nat /\ toServer \in Seq(Packets)
      /\ DataInv /\ OverInv
  BY CommonFacts DEF CommonInv
<1>4. DataInv'
  BY <1>1, <1>3, DataKept
<1>5. expected' \in Nat /\ expected' <= NumChunks + 1
  <2>1. expected' \in Nat
    BY DEF TypeInv, TypeOK, RcopyTypeOK
  <2>2. expected' <= seqNum
    BY <1>1 DEF RcopyInv
  <2> QED BY <1>3, <2>1, <2>2
<1>6. OverInv'
  <2>1. ASSUME NEW j \in 1 .. Len(toServer'), toServer'[j].ok
        PROVE  \/ \E k \in 1 .. Len(toServer) : toServer'[j] = toServer[k]
               \/ toServer'[j] \in Said(expected')
    <3>1. CASE j \in 1 .. Len(toServer)
      BY <3>1 DEF Extends
    <3>2. CASE j \notin 1 .. Len(toServer)
      <4>1. j \in Len(toServer) + 1 .. Len(toServer')
        BY <1>3, <3>2 DEF Extends
      <4> QED BY <2>1, <4>1 DEF Extends
    <3> QED BY <3>1, <3>2
  <2>2. expected' = expected \/ expected # NumChunks + 1
    BY <1>3, <1>5
  <2>3. sState' = "DONE" => expected' = NumChunks + 1
    BY <1>1, <1>3, <1>5 DEF OverInv
  <2> QED BY <1>3, <2>1, <2>2, <2>3, OverKept
<1> QED BY <1>2, <1>4, <1>6 DEF RcopyMoved, CommonInv

\* Removing a datagram leaves others of the same.
LEMMA RemovedAreOld ==
  ASSUME NEW s \in Seq(Packets), NEW i \in 1 .. Len(s)
  PROVE  \A j \in 1 .. Len(RemoveAt(s, i)) :
           \E k \in 1 .. Len(s) : RemoveAt(s, i)[j] = s[k]
<1>1. /\ Len(RemoveAt(s, i)) = Len(s) - 1
      /\ \A j \in 1 .. Len(s) - 1 :
           RemoveAt(s, i)[j] = IF j < i THEN s[j] ELSE s[j + 1]
  BY RemoveAtLemma
<1> SUFFICES ASSUME NEW j \in 1 .. Len(s) - 1
             PROVE  \E k \in 1 .. Len(s) : RemoveAt(s, i)[j] = s[k]
  BY <1>1
<1>2. j \in 1 .. Len(s) /\ j + 1 \in 1 .. Len(s)
  OBVIOUS
<1> QED BY <1>1, <1>2

\* rcopy's invariant for the steps that leave what it is about alone.
LEMMA RcopyInvSame ==
  ASSUME CommonInv, UNCHANGED <<seqNum, transferVars>>
  PROVE  RcopyInv' /\ expected <= expected'
<1>1. RcopyInv /\ expected \in Nat
  BY CommonFacts DEF CommonInv
<1> QED BY <1>1 DEF RcopyInv, Genuine, transferVars

\* The steps that take a datagram i and do no more than answer it.
LEMMA TakenKeeps ==
  ASSUME CommonInv, TypeInv', UNCHANGED <<serverVars, toMain>>,
         NEW i \in Arrivals(toClient, DataReorder),
         toClient' = RemoveAt(toClient, i), rState' # "SEND_FILENAME",
         Extends(toServer, toServer', Said(expected')),
         expected <= expected', RcopyInv', NotBegun'
  PROVE  RcopyMoved
<1>1. toClient \in Seq(Packets)
  BY CommonFacts
<1>2. i \in 1 .. Len(toClient)
  BY <1>1, ArrivalsLemma
<1>3. \A j \in 1 .. Len(toClient') :
        \E k \in 1 .. Len(toClient) : toClient'[j] = toClient[k]
  BY <1>1, <1>2, RemovedAreOld
<1>4. NoChild'
  <2>1. sState # "NONE" /\ sState' = sState
    BY <1>2 DEF CommonInv, NoChild, serverVars
  <2> QED BY <2>1 DEF CommonInv, NoChild
<1> QED BY <1>3, <1>4, RcopyKeeps

LEMMA WaitForFileNameAckKeeps ==
  ASSUME CommonInv, TypeInv', WaitForFileNameAck, UNCHANGED serverVars
  PROVE  RcopyMoved
<1>1. PICK i \in Arrivals(toClient, DataReorder) :
         /\ toClient' = RemoveAt(toClient, i)
         /\ rState' \in {"SEND_FILENAME_TIMEOUT", "KILL", "RECEIVE_FIRST_DATA"}
  BY DEF WaitForFileNameAck
<1>2. /\ UNCHANGED <<toMain, toServer, transferVars>>
      /\ rState = "WAIT_FOR_FILENAME_ACK"
  BY DEF WaitForFileNameAck
<1>3. NotBegun'
  BY <1>1, <1>2 DEF CommonInv, NotBegun, Handshaking, transferVars
<1>4. Extends(toServer, toServer', Said(expected'))
  BY <1>2, ExtendsSame, CommonFacts
<1>5. RcopyInv' /\ expected <= expected'
  BY <1>2, RcopyInvSame DEF serverVars
<1> QED BY <1>1, <1>2, <1>3, <1>4, <1>5, TakenKeeps

\* Undamaged data is the file's own, already sent.
LEMMA DataIsGenuine ==
  ASSUME CommonInv, NEW i \in 1 .. Len(toClient), IsValidPacket(toClient[i]),
         toClient[i].flag \in DataFlags
  PROVE  Genuine(toClient[i]) /\ toClient[i].seq < seqNum
BY DEF CommonInv, DataInv, IsValidPacket, DataFlags

LEMMA ProcessKeeps ==
  ASSUME CommonInv, FitsExpected, TypeInv', UNCHANGED <<serverVars, toMain>>,
         NEW i \in Arrivals(toClient, DataReorder),
         toClient' = RemoveAt(toClient, i),
         IsValidPacket(toClient[i]), toClient[i].flag \in DataFlags,
         NEW next \in {"LAST_DATA", "RECEIVE_DATA"},
         ProcessPacket(toClient[i], next)
  PROVE  RcopyMoved
<1>1. toClient \in Seq(Packets) /\ TypeOK /\ NetworkTypeOK /\ RcopyTypeOK
  BY CommonFacts
<1>2. i \in 1 .. Len(toClient) /\ toClient[i] \in Packets
  BY <1>1, ArrivalsLemma
<1>3. Genuine(toClient[i]) /\ toClient[i].seq < seqNum
  BY <1>2, DataIsGenuine
<1>4. ProcessedOK(next)
  BY <1>1, <1>2, ProcessPacketType
<1>5. toClient[i].seq = expected => Fits(rWindow)
  BY DEF FitsExpected, IsValidPacket
<1>6. UNCHANGED seqNum
  BY DEF serverVars
<1>7. RcopyInv'
  BY <1>2, <1>3, <1>5, <1>6, ProcessPacketKeeps
<1>8. expected <= expected'
  BY <1>1, ExpectsMore
<1>9. rState' \in {"LAST_DATA", "RECEIVE_DATA", "ABORT"}
  BY <1>4 DEF ProcessedOK
<1>10. NotBegun'
  BY <1>9 DEF NotBegun, Handshaking
<1>11. Extends(toServer, toServer', Said(expected'))
  <2>1. Extends(toServer, toServer', Acks(expected')) /\ expected' \in Nat
    BY <1>4 DEF ProcessedOK
  <2> QED BY <2>1, AcksAreSaid, ExtendsMore
<1> QED BY <1>7, <1>8, <1>9, <1>10, <1>11, TakenKeeps

\* A packet thrown out, with or without an answer.
LEMMA ThrowOutKeeps ==
  ASSUME CommonInv, TypeInv', UNCHANGED <<serverVars, toMain, transferVars>>,
         NEW i \in Arrivals(toClient, DataReorder),
         toClient' = RemoveAt(toClient, i),
         rState' \in {"LAST_DATA", "RECEIVE_DATA"},
         Extends(toServer, toServer', Said(expected'))
  PROVE  RcopyMoved
<1>1. RcopyInv' /\ expected <= expected'
  BY RcopyInvSame DEF serverVars
<1>2. NotBegun'
  BY DEF NotBegun, Handshaking
<1> QED BY <1>1, <1>2, TakenKeeps

LEMMA RecvDataKeeps ==
  ASSUME CommonInv, FitsExpected, TypeInv', RecvData, UNCHANGED serverVars
  PROVE  RcopyMoved
<1> DEFINE good(p) == IsValidPacket(p) /\ p.flag \in DataFlags
           next(p) == IF p.flag = "EOF" THEN "LAST_DATA" ELSE "RECEIVE_DATA"
<1>1. PICK i \in Arrivals(toClient, DataReorder) :
        /\ toClient' = RemoveAt(toClient, i)
        /\ \/ /\ good(toClient[i])
              /\ ProcessPacket(toClient[i], next(toClient[i]))
           \/ /\ rState' = "RECEIVE_DATA"
              /\ UNCHANGED <<toServer, transferVars>>
  BY DEF RecvData
<1>2. UNCHANGED toMain
  BY DEF RecvData
<1>3. CASE good(toClient[i]) /\ ProcessPacket(toClient[i], next(toClient[i]))
  BY <1>1, <1>2, <1>3, ProcessKeeps
<1>4. CASE rState' = "RECEIVE_DATA" /\ UNCHANGED <<toServer, transferVars>>
  <2>1. Extends(toServer, toServer', Said(expected'))
    BY <1>4, ExtendsSame, CommonFacts
  <2> QED BY <1>1, <1>2, <1>4, <2>1, ThrowOutKeeps
<1> QED BY <1>1, <1>3, <1>4

LEMMA RecvLastDataKeeps ==
  ASSUME CommonInv, FitsExpected, TypeInv', RecvLastData, UNCHANGED serverVars
  PROVE  RcopyMoved
<1>1. PICK i \in Arrivals(toClient, DataReorder) :
        /\ toClient' = RemoveAt(toClient, i)
        /\ \/ /\ SendSREJ(toClient[i].seq)
              /\ UNCHANGED <<rState, highest, transferVars>>
           \/ /\ IsValidPacket(toClient[i]) /\ toClient[i].flag \in DataFlags
              /\ ProcessPacket(toClient[i], "LAST_DATA")
           \/ UNCHANGED <<toServer, rState, transferVars>>
  BY DEF RecvLastData
<1>2. UNCHANGED toMain /\ rState = "LAST_DATA"
  BY DEF RecvLastData
<1>3. /\ toServer \in Seq(Packets) /\ toClient \in Seq(Packets)
      /\ errors \in 0 .. MaxErrors /\ expected \in Nat
  BY CommonFacts
<1>4. CASE /\ SendSREJ(toClient[i].seq)
           /\ UNCHANGED <<rState, highest, transferVars>>
  <2>1. toClient[i].seq \in Nat
    BY <1>3, ArrivalsLemma DEF Packets
  <2>2. BuildSrejPacket(toClient[i].seq) \in Packets
    BY <2>1, BuildTypes
  <2>3. SendTo(toServer, BuildSrejPacket(toClient[i].seq), toServer')
    BY <1>4 DEF SendSREJ, SendAck
  <2>4. Extends(toServer, toServer', {BuildSrejPacket(toClient[i].seq)})
    BY <1>3, <2>2, <2>3, SendToLemma
  <2>5. expected' = expected
    BY <1>4 DEF transferVars
  <2>6. Extends(toServer, toServer', Said(expected'))
    BY <1>3, <2>1, <2>4, <2>5, AcksAreSaid, ExtendsMore
  <2> QED BY <1>1, <1>2, <1>4, <2>6, ThrowOutKeeps
<1>5. CASE /\ IsValidPacket(toClient[i]) /\ toClient[i].flag \in DataFlags
           /\ ProcessPacket(toClient[i], "LAST_DATA")
  BY <1>1, <1>2, <1>5, ProcessKeeps
<1>6. CASE UNCHANGED <<toServer, rState, transferVars>>
  <2>1. Extends(toServer, toServer', Said(expected'))
    BY <1>3, <1>6, ExtendsSame
  <2> QED BY <1>1, <1>2, <1>6, <2>1, ThrowOutKeeps
<1> QED BY <1>1, <1>4, <1>5, <1>6

\* rcopy's sends and timeouts on its old socket receive nothing.
LEMMA NothingReceivedKeeps ==
  ASSUME CommonInv, TypeInv', UNCHANGED <<serverVars, toClient, transferVars>>,
         Extends(toServer, toServer', Said(expected')), NotBegun', NoChild'
  PROVE  RcopyMoved
<1>1. RcopyInv' /\ expected <= expected'
  BY RcopyInvSame DEF serverVars
<1>2. \A j \in 1 .. Len(toClient') :
        \E k \in 1 .. Len(toClient) : toClient'[j] = toClient[k]
  OBVIOUS
<1> QED BY <1>1, <1>2, RcopyKeeps

LEMMA SendFileNameKeeps ==
  ASSUME CommonInv, TypeInv', SendFileName, UNCHANGED serverVars
  PROVE  RcopyMoved
<1>1. /\ UNCHANGED <<toServer, toClient, transferVars>>
      /\ rState = "SEND_FILENAME" /\ rState' = "WAIT_FOR_FILENAME_ACK"
  BY DEF SendFileName
<1>2. Extends(toServer, toServer', Said(expected'))
  BY <1>1, ExtendsSame, CommonFacts
<1>3. NotBegun'
  BY <1>1 DEF CommonInv, NotBegun, Handshaking, transferVars
<1>4. NoChild'
  BY <1>1 DEF CommonInv, NoChild, serverVars
<1> QED BY <1>1, <1>2, <1>3, <1>4, NothingReceivedKeeps

LEMMA SendEofAckKeeps ==
  ASSUME CommonInv, TypeInv', SendEofAck, UNCHANGED serverVars
  PROVE  RcopyMoved
<1> DEFINE p == Reflag(BuildRrPacket(expected), "EOF_ACK")
<1>1. /\ UNCHANGED <<toMain, toClient, transferVars>>
      /\ wroteLastData /\ rState' = "KILL"
      /\ SendTo(toServer, p, toServer')
  BY DEF SendEofAck, SendAck
<1>2. /\ toServer \in Seq(Packets) /\ errors \in 0 .. MaxErrors
      /\ expected \in Nat /\ expected <= seqNum
      /\ NumChunks \in Nat \ {0} /\ seqNum \in Nat
  BY CommonFacts
<1>3. expected = NumChunks + 1 /\ expected' = expected
  BY <1>1 DEF CommonInv, RcopyInv, transferVars
<1>4. p \in Packets /\ {p} \subseteq Said(expected')
  BY <1>2, <1>3, BuildTypes, AcksAreSaid
<1> HIDE DEF p
<1>5. Extends(toServer, toServer', {p})
  BY <1>1, <1>2, <1>4, SendToLemma
<1>6. Extends(toServer, toServer', Said(expected'))
  BY <1>4, <1>5, ExtendsMore
<1>7. NoChild'
  <2>1. sState # "NONE" /\ sState' = sState
    BY <1>2, <1>3 DEF CommonInv, NoChild, serverVars
  <2> QED BY <1>1, <2>1 DEF CommonInv, NoChild
<1>8. NotBegun'
  BY <1>1 DEF NotBegun, Handshaking
<1> QED BY <1>1, <1>6, <1>7, <1>8, NothingReceivedKeeps

LEMMA RcopyTimesOutKeeps ==
  ASSUME CommonInv, TypeInv', RcopyTimesOut, UNCHANGED serverVars
  PROVE  RcopyMoved
<1>1. /\ UNCHANGED <<networkVars, transferVars>>
      /\ \/ /\ rState \in {"WAIT_FOR_FILENAME_ACK", "RECEIVE_FIRST_DATA"}
            /\ rState' = "SEND_FILENAME_TIMEOUT"
         \/ rState' \in {"RECEIVE_DATA", "LAST_DATA", "KILL"}
  BY DEF RcopyTimesOut, FileNameAckTimeout, FirstDataTimeout, RecvDataTimeout,
         LastDataTimeout, LoopHead
<1>2. Extends(toServer, toServer', Said(expected'))
  BY <1>1, ExtendsSame, CommonFacts DEF networkVars
<1>3. NotBegun'
  BY <1>1 DEF CommonInv, NotBegun, Handshaking, transferVars
<1>4. NoChild'
  BY <1>1 DEF CommonInv, NoChild, serverVars, networkVars
<1>5. UNCHANGED toClient
  BY <1>1 DEF networkVars
<1> QED BY <1>1, <1>2, <1>3, <1>4, <1>5, NothingReceivedKeeps

\* A new socket puts everything back where it started.
LEMMA NewWindowEmpty ==
  /\ NewWindow.lower = 1 /\ NewWindow.current = 1
  /\ NewWindow.upper = 1 + WindowSize
  /\ \A i \in Slots : /\ ~NewWindow.elements[i].valid
                      /\ NewWindow.elements[i].dataSize = 0
BY DEF NewWindow, SEQ_NUM_START

\* The variables that a new socket leaves in their initial state.
LEMMA SocketIsNew ==
  ASSUME CommonInv, SendFileNameTimeout, sState' = "NONE", ServerReset
  PROVE  /\ toMain' = FALSE /\ toServer' = <<>> /\ toClient' = <<>>
         /\ UNCHANGED <<rWindow, expected, buffering, wroteLastData, written>>
         /\ sWindow' = NewWindow /\ seqNum' = 1 /\ filePos' = 0
         /\ rWindow = NewWindow /\ ~buffering /\ ~wroteLastData /\ expected = 1
<1>1. /\ toMain' = FALSE /\ toServer' = <<>> /\ toClient' = <<>>
      /\ rState = "SEND_FILENAME_TIMEOUT"
      /\ UNCHANGED <<rWindow, expected, buffering, wroteLastData, written>>
  BY DEF SendFileNameTimeout, NewSocket, transferVars
<1>2. sWindow' = NewWindow /\ seqNum' = 1 /\ filePos' = 0
  BY DEF ServerReset, SEQ_NUM_START
<1>3. rWindow = NewWindow /\ ~buffering /\ ~wroteLastData
  BY <1>1 DEF CommonInv, NotBegun, Handshaking
<1>4. expected = 1
  BY <1>3, NewWindowEmpty DEF CommonInv, RcopyInv
<1> QED BY <1>1, <1>2, <1>3, <1>4

LEMMA SendFileNameTimeoutKeeps ==
  ASSUME CommonInv, TypeInv', SendFileNameTimeout, sState' = "NONE", ServerReset
  PROVE  CommonInv'
<1>1. /\ toMain' = FALSE /\ toServer' = <<>> /\ toClient' = <<>>
      /\ UNCHANGED <<rWindow, expected, buffering, wroteLastData, written>>
      /\ sWindow' = NewWindow /\ seqNum' = 1 /\ filePos' = 0
      /\ rWindow = NewWindow /\ ~buffering /\ ~wroteLastData /\ expected = 1
  BY SocketIsNew
<1>2. ServerInv'
  BY <1>1, NewWindowEmpty, ServerAssumption DEF ServerInv
<1>3. NoChild' /\ NotBegun'
  BY <1>1 DEF NoChild, NotBegun
<1>4. DataInv' /\ OverInv'
  BY <1>1 DEF DataInv, OverInv
<1>5. Len(written) = expected - 1 /\ \A k \in 1 .. Len(written) : written[k] = k
  BY DEF CommonInv, RcopyInv
<1>6. RcopyInv'
  BY <1>1, <1>5, NewWindowEmpty DEF RcopyInv
<1> QED BY <1>2, <1>3, <1>4, <1>6 DEF CommonInv

\* Each step of rcopy: a new socket, or one that leaves the child alone.
LEMMA RcopySteps ==
  ASSUME RcopyNext
  PROVE  \/ SendFileNameTimeout /\ sState' = "NONE" /\ ServerReset
         \/ /\ UNCHANGED serverVars
            /\ \/ WaitForFileNameAck \/ RecvData \/ RecvLastData
               \/ SendFileName \/ SendEofAck \/ RcopyTimesOut
<1>1. CASE SendFileNameTimeout
  <2>1. rState = "SEND_FILENAME_TIMEOUT"
    BY <1>1 DEF SendFileNameTimeout
  <2> QED BY <1>1, <2>1 DEF RcopyNext
<1>2. CASE rState # "SEND_FILENAME_TIMEOUT"
  BY <1>2 DEF RcopyNext, RcopyReceives, RcopySends, SendFileNameTimeout
<1>3. ASSUME rState = "SEND_FILENAME_TIMEOUT", ~SendFileNameTimeout
      PROVE  FALSE
  BY <1>3 DEF RcopyNext, RcopyReceives, RcopySends, RcopyTimesOut,
     WaitForFileNameAck, RecvData, RecvLastData, SendFileName, SendEofAck,
     FileNameAckTimeout, FirstDataTimeout, RecvDataTimeout, LastDataTimeout
<1> QED BY <1>1, <1>2, <1>3

LEMMA RcopyInvariant ==
  ASSUME CommonInv, FitsExpected, TypeInv', RcopyNext
  PROVE  /\ CommonInv'
         /\ ~SendFileNameTimeout => RcopyMoved /\ UNCHANGED serverVars
<1>1. CASE SendFileNameTimeout /\ sState' = "NONE" /\ ServerReset
  BY <1>1, SendFileNameTimeoutKeeps
<1>2. CASE /\ UNCHANGED serverVars
           /\ \/ WaitForFileNameAck \/ RecvData \/ RecvLastData
              \/ SendFileName \/ SendEofAck \/ RcopyTimesOut
  <2>1. RcopyMoved
    BY <1>2, WaitForFileNameAckKeeps, RecvDataKeeps, RecvLastDataKeeps,
       SendFileNameKeeps, SendEofAckKeeps, RcopyTimesOutKeeps
  <2> QED BY <1>2, <2>1 DEF RcopyMoved
<1> QED BY <1>1, <1>2, RcopySteps

-----------------------------------------------------------------------------
(* The child's steps, whichever acknowledgement arrives first.             *)

\* rcopy's half when only the child's number moves on.
LEMMA RcopySame ==
  ASSUME CommonInv, UNCHANGED rcopyVars, seqNum' \in Nat, seqNum <= seqNum'
  PROVE  RcopyInv' /\ NotBegun'
<1>1. /\ RcopyInv /\ seqNum \in Nat /\ expected \in Nat
      /\ rWindow.current \in Nat
  BY CommonFacts DEF CommonInv
<1>2. UNCHANGED <<rState, rWindow, expected, buffering, wroteLastData, written>>
  BY DEF rcopyVars
<1>3. NotBegun'
  BY <1>2 DEF CommonInv, NotBegun, Handshaking
<1>4. expected <= seqNum' /\ rWindow.current <= seqNum'
  BY <1>1 DEF RcopyInv
<1>5. ASSUME NEW j \in Slots, rWindow.elements[j].valid
      PROVE  LET p == rWindow.elements[j].packet
             IN  /\ Genuine(p) /\ expected <= p.seq /\ p.seq < seqNum'
                 /\ Slot(p.seq) = j
  <2> DEFINE p == rWindow.elements[j].packet
  <2>1. Genuine(p) /\ expected <= p.seq /\ p.seq < seqNum /\ Slot(p.seq) = j
    BY <1>1, <1>5 DEF RcopyInv
  <2>2. p.seq \in Nat
    BY <2>1 DEF Genuine
  <2> QED BY <1>1, <2>1, <2>2
<1> QED BY <1>1, <1>2, <1>3, <1>4, <1>5 DEF RcopyInv, Genuine

\* What a slot holds may be sent again under a flag that fits it.
LEMMA ResendGenuine ==
  ASSUME CommonInv, NEW n \in Nat, GetPacket(sWindow, n).dataSize = 1,
         NEW flag \in {"SREJ_DATA", "TIMEOUT_DATA"}
  PROVE  LET e == GetPacket(sWindow, n)
             p == Reflag(e.packet, ResendFlag(e, flag))
         IN  Genuine(p) /\ p.seq < seqNum /\ p.seq = e.packet.seq
<1> DEFINE e == GetPacket(sWindow, n)
<1>1. Slot(n) \in Slots
  BY SlotType
<1>2. Genuine(e.packet) /\ e.packet.seq < seqNum
  BY <1>1 DEF CommonInv, ServerInv, GetPacket
<1>3. e.packet \in Packets
  BY GetPacketType, CommonFacts DEF Elements
<1> HIDE DEF e
<1>4. e.packet.flag = "EOF" => Reflag(e.packet, "EOF").seq = e.packet.seq
                               /\ Genuine(Reflag(e.packet, "EOF"))
  BY <1>2, <1>3 DEF Reflag, Genuine, Packets, DataFlags
<1>5. e.packet.flag # "EOF" => Reflag(e.packet, flag).seq = e.packet.seq
                               /\ Genuine(Reflag(e.packet, flag))
  BY <1>2, <1>3 DEF Reflag, Genuine, Packets, DataFlags
<1>6. LET p == Reflag(e.packet, ResendFlag(e, flag))
      IN  Genuine(p) /\ p.seq < seqNum /\ p.seq = e.packet.seq
  BY <1>2, <1>4, <1>5 DEF ResendFlag
<1> QED BY <1>6 DEF e

\* What the child may send from its ring.
Stock == {p \in Packets :
            /\ Genuine(p)
            /\ \E i \in Slots : /\ sWindow.elements[i].dataSize = 1
                                /\ sWindow.elements[i].packet.seq = p.seq}

\* The child sends nothing, or something from its ring.
LEMMA SendElementKeeps ==
  ASSUME CommonInv, NEW n \in Nat, NEW flag \in {"SREJ_DATA", "TIMEOUT_DATA"},
         NEW next,
         LET e == GetPacket(sWindow, n)
         IN  SendElement(e, ResendFlag(e, flag), next)
  PROVE  Extends(toClient, toClient', Stock) /\ sState' \in {next, "CRASH"}
<1> DEFINE e == GetPacket(sWindow, n)
           f == ResendFlag(e, flag)
           p == Reflag(e.packet, f)
<1>1. /\ e \in Elements /\ NetworkTypeOK /\ e.dataSize \in {0, 1}
      /\ e.packet \in Packets
  BY CommonFacts, GetPacketType DEF Elements
<1>2. f \in DataFlags /\ SendElement(e, f, next)
  BY DEF ResendFlag, DataFlags
<1>3. e.dataSize = 1 => Genuine(p) /\ p.seq = e.packet.seq
  BY ResendGenuine
<1>4. p \in Packets
  BY <1>1, <1>2, BuildTypes
<1>5. e.dataSize = 1 => p \in Stock
  <2>1. Slot(n) \in Slots /\ e = sWindow.elements[Slot(n)]
    BY SlotType DEF GetPacket
  <2> HIDE DEF e, p
  <2> QED BY <1>3, <1>4, <2>1 DEF Stock
<1> HIDE DEF e, f
<1>6. /\ Extends(toClient, toClient', IF e.dataSize = 0 THEN {} ELSE {p})
      /\ sState' \in {next, "CRASH"}
  BY <1>1, <1>2, SendElementLemma
<1> HIDE DEF p
<1>7. (IF e.dataSize = 0 THEN {} ELSE {p}) \subseteq Stock
  BY <1>1, <1>5
<1> QED BY <1>6, <1>7, ExtendsMore

LEMMA StockIsData ==
  ASSUME CommonInv, NEW p \in Stock
  PROVE  Genuine(p) /\ p.seq < seqNum
BY DEF Stock, CommonInv, ServerInv

LEMMA StockKeeps ==
  ASSUME CommonInv, UNCHANGED seqNum, Extends(toClient, toClient', Stock)
  PROVE  DataInv'
<1>1. DataInv /\ seqNum \in Nat
  BY CommonFacts DEF CommonInv
<1> QED BY <1>1, StockIsData, DataExtends

\* processRrSrej: the window moves to what an RR names, or stays.
LEMMA RrSrejKeeps ==
  ASSUME CommonInv, NEW p \in Packets, NEW next, ProcessRrSrej(p, next)
  PROVE  /\ Extends(toClient, toClient', Stock)
         /\ sState' \in {next, "CRASH"}
         /\ \/ sWindow' = sWindow
            \/ /\ p.ok /\ p.flag = "RR"
               /\ sWindow' = RemovePacket(sWindow, p.seq)
<1>0. p.seq \in Nat /\ toClient \in Seq(Packets)
  BY CommonFacts DEF Packets
<1>1. CASE /\ IsValidPacket(p) /\ p.flag = "RR"
           /\ sWindow' = RemovePacket(sWindow, p.seq) /\ sState' = next
           /\ UNCHANGED toClient
  BY <1>0, <1>1, ExtendsSame DEF IsValidPacket
<1>2. CASE /\ UNCHANGED sWindow
           /\ LET e == GetPacket(sWindow, p.seq)
              IN SendElement(e, ResendFlag(e, "SREJ_DATA"), next)
  BY <1>0, <1>2, SendElementKeeps
<1>3. CASE UNCHANGED <<sWindow, toClient>> /\ sState' = next
  BY <1>0, <1>3, ExtendsSame
<1> QED BY <1>1, <1>2, <1>3 DEF ProcessRrSrej

\* What the child's receives have in common.
LEMMA ServerReceivesIs ==
  ASSUME CommonInv, ServerReceives
  PROVE  \E i \in Arrivals(toServer, AckReorder) :
           /\ i \in 1 .. Len(toServer) /\ toServer[i] \in Packets
           /\ toServer' = RemoveAt(toServer, i)
           /\ UNCHANGED <<toMain, seqNum, filePos>>
           /\ Extends(toClient, toClient', Stock)
           /\ sState' # "NONE"
           /\ sState' \in {"OPEN", "DRAIN", "CLOSED"} => seqNum <= NumChunks
           /\ sState' = "OPEN" => IsWindowOpen(sWindow')
           /\ sState' = "DONE" =>
                toServer[i].ok /\ toServer[i].flag = "EOF_ACK"
           /\ \/ sWindow' = sWindow
              \/ /\ toServer[i].ok /\ toServer[i].flag = "RR"
                 /\ sWindow' = RemovePacket(sWindow, toServer[i].seq)
<1>1. PICK i \in Arrivals(toServer, AckReorder) :
        /\ toServer' = RemoveAt(toServer, i)
        /\ ProcessRrSrej(toServer[i],
             IF sState = "DRAIN" THEN "DRAIN"
             ELSE IF sState = "CLOSED"
             THEN (IF IsWindowOpen(sWindow') THEN "OPEN" ELSE "CLOSED")
             ELSE (IF IsValidPacket(toServer[i]) /\ toServer[i].flag = "EOF_ACK"
                   THEN "DONE" ELSE "LAST_DATA"))
  BY DEF ServerReceives, DrainRrSrej, ClosedRrSrej, LastDataRrSrej
<1> DEFINE p == toServer[i]
           next == IF sState = "DRAIN" THEN "DRAIN"
                   ELSE IF sState = "CLOSED"
                   THEN (IF IsWindowOpen(sWindow') THEN "OPEN" ELSE "CLOSED")
                   ELSE (IF IsValidPacket(p) /\ p.flag = "EOF_ACK"
                         THEN "DONE" ELSE "LAST_DATA")
<1>2. /\ UNCHANGED <<toMain, seqNum, filePos>>
      /\ sState \in {"DRAIN", "CLOSED", "LAST_DATA"}
  BY DEF ServerReceives, DrainRrSrej, ClosedRrSrej, LastDataRrSrej
<1>3. /\ i \in 1 .. Len(toServer) /\ p \in Packets /\ ServerInv
  BY CommonFacts, ArrivalsLemma DEF CommonInv
<1>4. /\ Extends(toClient, toClient', Stock)
      /\ sState' \in {next, "CRASH"}
      /\ \/ sWindow' = sWindow
         \/ p.ok /\ p.flag = "RR" /\ sWindow' = RemovePacket(sWindow, p.seq)
  BY <1>1, <1>3, RrSrejKeeps
<1>5. /\ sState' \in {"OPEN", "DRAIN", "CLOSED"} => seqNum <= NumChunks
      /\ sState' = "OPEN" => IsWindowOpen(sWindow')
      /\ sState' # "NONE"
      /\ sState' = "DONE" => p.ok /\ p.flag = "EOF_ACK"
  BY <1>2, <1>3, <1>4 DEF ServerInv, IsValidPacket
<1> QED BY <1>1, <1>2, <1>3, <1>4, <1>5

\* Moving the child's window leaves what its slots hold.
LEMMA ServerInvMoves ==
  ASSUME CommonInv, UNCHANGED <<seqNum, filePos>>,
         sState' \in {"OPEN", "DRAIN", "CLOSED"} => seqNum <= NumChunks,
         \/ sWindow' = sWindow
         \/ \E n \in Nat : sWindow' = RemovePacket(sWindow, n)
  PROVE  ServerInv'
<1>1. sWindow \in Windows /\ ServerInv
  BY CommonFacts DEF CommonInv
<1>2. /\ sWindow'.current = sWindow.current
      /\ \A i \in Slots :
           /\ sWindow'.elements[i].packet = sWindow.elements[i].packet
           /\ sWindow'.elements[i].dataSize = sWindow.elements[i].dataSize
  <2>1. CASE sWindow' = sWindow
    BY <2>1
  <2>2. CASE \E n \in Nat : sWindow' = RemovePacket(sWindow, n)
    <3>1. PICK n \in Nat : sWindow' = RemovePacket(sWindow, n)
      BY <2>2
    <3> QED BY <1>1, <3>1, RemovePacketLemma
  <2> QED BY <2>1, <2>2
<1> QED BY <1>1, <1>2 DEF ServerInv, Genuine

LEMMA ServerReceivesKeeps ==
  ASSUME CommonInv, TypeInv', ServerReceives, UNCHANGED rcopyVars
  PROVE  CommonInv'
<1>1. PICK i \in Arrivals(toServer, AckReorder) :
        /\ i \in 1 .. Len(toServer) /\ toServer[i] \in Packets
        /\ toServer' = RemoveAt(toServer, i)
        /\ UNCHANGED <<toMain, seqNum, filePos>>
        /\ Extends(toClient, toClient', Stock)
        /\ sState' # "NONE"
        /\ sState' \in {"OPEN", "DRAIN", "CLOSED"} => seqNum <= NumChunks
        /\ sState' = "DONE" => toServer[i].ok /\ toServer[i].flag = "EOF_ACK"
        /\ \/ sWindow' = sWindow
           \/ /\ toServer[i].ok /\ toServer[i].flag = "RR"
              /\ sWindow' = RemovePacket(sWindow, toServer[i].seq)
  BY ServerReceivesIs
<1>2. /\ seqNum \in Nat /\ toServer \in Seq(Packets) /\ OverInv
      /\ toServer[i].seq \in Nat
  BY <1>1, CommonFacts DEF CommonInv, Packets
<1>3. ServerInv'
  BY <1>1, <1>2, ServerInvMoves
<1>4. DataInv'
  BY <1>1, StockKeeps
<1>5. RcopyInv' /\ NotBegun'
  BY <1>1, <1>2, RcopySame
<1>6. expected' = expected /\ rState' = rState
  BY DEF rcopyVars
<1>7. OverInv'
  <2>1. \A j \in 1 .. Len(toServer') :
          \E k \in 1 .. Len(toServer) : toServer'[j] = toServer[k]
    BY <1>1, <1>2, RemovedAreOld
  <2>2. sState' = "DONE" => expected = NumChunks + 1
    BY <1>1, <1>2 DEF OverInv
  <2> QED BY <1>2, <1>6, <2>1, <2>2, OverKept
<1>8. NoChild'
  <2>1. toServer # <<>>
    BY <1>1, <1>2
  <2>2. sState # "NONE"
    BY <2>1 DEF CommonInv, NoChild
  <2> QED BY <1>1, <1>6, <2>2 DEF CommonInv, NoChild
<1> QED BY <1>3, <1>4, <1>5, <1>7, <1>8 DEF CommonInv

\* A child starts where its window, number and file already are.
LEMMA ProcessFileNameIs ==
  ASSUME CommonInv, ProcessFileName
  PROVE  /\ toMain /\ toMain' = FALSE
         /\ UNCHANGED <<toServer, sWindow, seqNum, filePos>>
         /\ sState = "NONE" /\ sState' \in {"OPEN", "KILL"}
         /\ sWindow = NewWindow /\ seqNum = 1 /\ toServer = <<>>
         /\ Extends(toClient, toClient',
              {p \in Packets : p.flag = "FILENAME_RESP" /\ p.seq = 0})
<1>1. PICK goodFile \in FopenResults :
        /\ SendToClient(BuildFileNameRespPacket(goodFile))
        /\ sState' = IF goodFile THEN "OPEN" ELSE "KILL"
  BY DEF ProcessFileName
<1>2. toMain /\ toMain' = FALSE /\ toServer' = toServer /\ ServerReset
  BY DEF ProcessFileName
<1>3. sState = "NONE" /\ sWindow = NewWindow /\ seqNum = 1 /\ toServer = <<>>
  BY <1>2 DEF CommonInv, NoChild
<1>4. UNCHANGED <<sWindow, seqNum, filePos>>
  <2>1. filePos = 0
    BY <1>3 DEF CommonInv, ServerInv
  <2> QED BY <1>2, <1>3, <2>1 DEF ServerReset, SEQ_NUM_START
<1> DEFINE p == BuildFileNameRespPacket(goodFile)
           P == {q \in Packets : q.flag = "FILENAME_RESP" /\ q.seq = 0}
<1>5. p \in Packets /\ p.flag = "FILENAME_RESP" /\ p.seq = 0
  BY BuildTypes, ServerAssumption DEF BuildFileNameRespPacket
<1>6. SendTo(toClient, p, toClient')
  BY <1>1 DEF SendToClient
<1> HIDE DEF p
<1>7. Extends(toClient, toClient', {p})
  BY <1>5, <1>6, CommonFacts, SendToLemma
<1>8. Extends(toClient, toClient', P)
  BY <1>5, <1>7, ExtendsMore
<1> QED BY <1>1, <1>2, <1>3, <1>4, <1>8

LEMMA ProcessFileNameKeeps ==
  ASSUME CommonInv, TypeInv', ProcessFileName, UNCHANGED rcopyVars
  PROVE  CommonInv'
<1>1. /\ toMain /\ toMain' = FALSE
      /\ UNCHANGED <<toServer, sWindow, seqNum, filePos>>
      /\ sState = "NONE" /\ sState' \in {"OPEN", "KILL"}
      /\ seqNum = 1 /\ toServer = <<>>
      /\ Extends(toClient, toClient',
           {p \in Packets : p.flag = "FILENAME_RESP" /\ p.seq = 0})
  BY ProcessFileNameIs
<1>2. /\ NumChunks \in Nat \ {0} /\ seqNum \in Nat /\ DataInv
      /\ ServerInv /\ NoChild /\ toClient = <<>>
  BY <1>1, CommonFacts DEF CommonInv, NoChild
<1>3. RcopyInv' /\ NotBegun'
  BY <1>1, <1>2, RcopySame
<1>4. ServerInv'
  BY <1>1, <1>2 DEF ServerInv, Genuine
<1>5. NoChild'
  BY <1>1, <1>2 DEF NoChild, rcopyVars
<1>6. DataInv'
  BY <1>1, <1>2, DataExtends
<1>7. OverInv'
  BY <1>1 DEF OverInv
<1> QED BY <1>3, <1>4, <1>5, <1>6, <1>7 DEF CommonInv

\* readFromDiskAndSend sends the next packet of the file and stores it in the
\* slot of its number.
LEMMA ReadFromDiskAndSendIs ==
  ASSUME CommonInv, ReadFromDiskAndSend
  PROVE  \E p \in Packets :
           /\ p = Original(seqNum) /\ Genuine(p) /\ p.seq = seqNum
           /\ Extends(toClient, toClient', {p})
           /\ seqNum <= NumChunks
           /\ seqNum' = seqNum + 1 /\ filePos' = filePos + 1
           /\ UNCHANGED <<toMain, toServer>>
           /\ sState \in {"OPEN", "DRAIN"}
           /\ sState = "DRAIN" => IsWindowOpen(sWindow)
           /\ sState' = IF seqNum = NumChunks THEN "LAST_DATA" ELSE "DRAIN"
           /\ sWindow'.lower = sWindow.lower /\ sWindow'.upper = sWindow.upper
           /\ sWindow'.current = seqNum + 1
           /\ \A i \in Slots : sWindow'.elements[i] =
                IF i = Slot(seqNum) THEN Stored(p) ELSE sWindow.elements[i]
<1> DEFINE atEof == filePos + 1 = NumChunks
           p == Reflag(BuildDataPacket(seqNum, filePos + 1),
                       IF atEof THEN "EOF" ELSE "DATA")
<1>1. /\ SendTo(toClient, p, toClient') /\ sWindow' = AddPacket(sWindow, p)
      /\ sState' = IF atEof THEN "LAST_DATA" ELSE "DRAIN"
      /\ seqNum' = seqNum + 1 /\ filePos' = filePos + 1
      /\ UNCHANGED <<toMain, toServer>>
      /\ sState = "OPEN" \/ (sState = "DRAIN" /\ IsWindowOpen(sWindow))
  BY DEF ReadFromDiskAndSend, SendToClient
<1>2. /\ ServerInv /\ sWindow \in Windows
      /\ sWindow.lower \in Nat /\ sWindow.current \in Nat
      /\ seqNum \in Nat \ {0} /\ filePos \in Nat
      /\ NumChunks \in Nat \ {0}
      /\ toClient \in Seq(Packets) /\ errors \in 0 .. MaxErrors
  BY CommonFacts DEF CommonInv
<1>3. /\ filePos + 1 = seqNum /\ sWindow.current = seqNum
      /\ seqNum <= NumChunks
  BY <1>1, <1>2 DEF ServerInv
<1>4. /\ p = Original(seqNum) /\ p \in Packets /\ p.seq = seqNum /\ Genuine(p)
  <2>1. p = Original(seqNum)
    BY <1>3 DEF Original
  <2> HIDE DEF p
  <2>2. p = [flag |-> IF seqNum = NumChunks THEN "EOF" ELSE "DATA",
             seq |-> seqNum, data |-> seqNum, ok |-> TRUE]
    BY <2>1 DEF Original, Reflag, BuildDataPacket
  <2> QED BY <1>2, <1>3, <2>1, <2>2 DEF Packets, Genuine, DataFlags
<1> HIDE DEF p
<1>5. /\ sWindow'.lower = sWindow.lower /\ sWindow'.upper = sWindow.upper
      /\ sWindow'.current = seqNum + 1
      /\ \A i \in Slots : sWindow'.elements[i] =
           IF i = Slot(seqNum) THEN Stored(p) ELSE sWindow.elements[i]
  <2>1. SlotsFrom(seqNum, seqNum) = {}
    BY <1>2 DEF SlotsFrom
  <2> DEFINE w == AddPacket(sWindow, p)
  <2>2. SlotsFrom(sWindow.current, p.seq) = {}
    BY <1>3, <1>4, <2>1
  <2>3. /\ w.lower = sWindow.lower /\ w.upper = sWindow.upper
        /\ w.current = IF p.seq >= sWindow.current THEN p.seq + 1
                       ELSE sWindow.current
        /\ \A i \in Slots : i \notin SlotsFrom(sWindow.current, p.seq) =>
             w.elements[i] =
               IF i = Slot(p.seq) THEN Stored(p) ELSE sWindow.elements[i]
    BY <1>2, <1>4, AddPacketLemma
  <2>4. sWindow' = w
    BY <1>1
  <2> HIDE DEF w
  <2>5. w.current = seqNum + 1
    BY <1>2, <1>3, <1>4, <2>3
  <2> QED BY <1>4, <2>2, <2>3, <2>4, <2>5
<1>6. Extends(toClient, toClient', {p})
  BY <1>1, <1>2, <1>4, SendToLemma
<1>7. sState' = IF seqNum = NumChunks THEN "LAST_DATA" ELSE "DRAIN"
  BY <1>1, <1>3
<1> QED BY <1>1, <1>3, <1>4, <1>5, <1>6, <1>7

LEMMA ReadFromDiskAndSendKeeps ==
  ASSUME CommonInv, TypeInv', ReadFromDiskAndSend, UNCHANGED rcopyVars
  PROVE  CommonInv'
<1>1. PICK p \in Packets :
        /\ Genuine(p) /\ p.seq = seqNum
        /\ Extends(toClient, toClient', {p})
        /\ seqNum <= NumChunks
        /\ seqNum' = seqNum + 1 /\ filePos' = filePos + 1
        /\ UNCHANGED <<toMain, toServer>>
        /\ sState \in {"OPEN", "DRAIN"}
        /\ sState' = IF seqNum = NumChunks THEN "LAST_DATA" ELSE "DRAIN"
        /\ sWindow'.current = seqNum + 1
        /\ \A i \in Slots : sWindow'.elements[i] =
             IF i = Slot(seqNum) THEN Stored(p) ELSE sWindow.elements[i]
  BY ReadFromDiskAndSendIs
<1>2. /\ ServerInv /\ DataInv /\ NoChild /\ OverInv
      /\ seqNum \in Nat \ {0} /\ filePos \in Nat /\ NumChunks \in Nat \ {0}
  BY CommonFacts DEF CommonInv
<1>3. seqNum' \in Nat /\ seqNum <= seqNum' /\ p.seq < seqNum'
  BY <1>1, <1>2
<1>4. ASSUME NEW i \in Slots, sWindow'.elements[i].dataSize = 1
      PROVE  /\ Genuine(sWindow'.elements[i].packet)
             /\ sWindow'.elements[i].packet.seq < seqNum + 1
  <2>1. CASE i = Slot(seqNum)
    BY <1>1, <1>2, <2>1 DEF Stored
  <2>2. CASE i # Slot(seqNum)
    <3>1. /\ Genuine(sWindow.elements[i].packet)
          /\ sWindow.elements[i].packet.seq < seqNum
          /\ sWindow'.elements[i] = sWindow.elements[i]
      BY <1>1, <1>2, <1>4, <2>2 DEF ServerInv
    <3>2. sWindow.elements[i].packet.seq \in Nat
      BY <3>1 DEF Genuine
    <3> QED BY <1>2, <3>1, <3>2
  <2> QED BY <2>1, <2>2
<1>5. ServerInv'
  BY <1>1, <1>2, <1>4 DEF ServerInv, Genuine
<1>6. RcopyInv' /\ NotBegun'
  BY <1>3, RcopySame
<1>7. DataInv'
  BY <1>1, <1>2, <1>3, DataExtends
<1>8. OverInv' /\ NoChild'
  BY <1>1, <1>2 DEF OverInv, NoChild, rcopyVars
<1> QED BY <1>5, <1>6, <1>7, <1>8 DEF CommonInv

LEMMA WindowClosedKeeps ==
  ASSUME CommonInv, TypeInv', WindowClosed, UNCHANGED rcopyVars
  PROVE  CommonInv'
<1>1. /\ sState = "DRAIN" /\ sState' = "CLOSED"
      /\ UNCHANGED <<toMain, toServer, toClient, sWindow, seqNum, filePos>>
  BY DEF WindowClosed, networkVars
<1>2. RcopyInv' /\ NotBegun'
  BY <1>1, RcopySame, CommonFacts
<1>3. ServerInv' /\ OverInv'
  BY <1>1 DEF CommonInv, ServerInv, OverInv, Genuine, rcopyVars
<1>4. NoChild' /\ DataInv'
  BY <1>1 DEF CommonInv, NoChild, DataInv, rcopyVars, Genuine
<1> QED BY <1>2, <1>3, <1>4 DEF CommonInv

\* While the window is closed, the lowest packet cannot be the file's last:
\* that one is sent with the flag it has, the others as TIMEOUT_DATA.
LEMMA ServerTimesOutIs ==
  ASSUME CommonInv, ServerTimesOut
  PROVE  /\ UNCHANGED <<toMain, toServer, sWindow, seqNum, filePos>>
         /\ Extends(toClient, toClient', Stock)
         /\ sState \in {"CLOSED", "LAST_DATA"}
         /\ sState' \in {"KILL", "LAST_DATA", "CLOSED", "CRASH"}
         /\ sState' = "CLOSED" => sState = "CLOSED"
<1> DEFINE e == GetPacket(sWindow, sWindow.lower)
<1>1. /\ UNCHANGED <<toMain, toServer, sWindow, seqNum, filePos>>
      /\ sState \in {"CLOSED", "LAST_DATA"}
      /\ \/ /\ sState = "LAST_DATA"
            /\ \E next \in {"KILL", "LAST_DATA"} :
                 SendElement(e, ResendFlag(e, "TIMEOUT_DATA"), next)
         \/ /\ sState = "CLOSED"
            /\ \E next \in {"KILL", "CLOSED"} :
                 SendElement(e, "TIMEOUT_DATA", next)
  BY DEF ServerTimesOut, ClosedTimeout, LastDataResend, GetLowestPacket
<1>2. /\ sWindow.lower \in Nat /\ seqNum \in Nat /\ sWindow \in Windows
      /\ ServerInv
  BY CommonFacts DEF CommonInv
<1>3. sState = "CLOSED" /\ e.dataSize # 0 => e.packet.flag # "EOF"
  <2> SUFFICES ASSUME sState = "CLOSED", e.dataSize # 0
               PROVE  e.packet.flag # "EOF"
    OBVIOUS
  <2>1. e.dataSize = 1 /\ Slot(sWindow.lower) \in Slots
    BY <1>2, GetPacketType, SlotType DEF Elements
  <2>2. Genuine(e.packet) /\ e.packet.seq < seqNum
    BY <1>2, <2>1 DEF ServerInv, GetPacket
  <2>3. seqNum <= NumChunks
    BY <1>2 DEF ServerInv
  <2> QED BY <1>2, <2>2, <2>3, ServerAssumption DEF Genuine
<1>4. PICK next \in {"KILL", "LAST_DATA", "CLOSED"} :
        /\ SendElement(e, ResendFlag(e, "TIMEOUT_DATA"), next)
        /\ sState = "LAST_DATA" => next # "CLOSED"
  <2>1. CASE sState = "CLOSED"
    <3>1. PICK next \in {"KILL", "CLOSED"} : SendElement(e, "TIMEOUT_DATA", next)
      BY <1>1, <2>1
    <3>2. SendElement(e, ResendFlag(e, "TIMEOUT_DATA"), next)
      BY <1>3, <2>1, <3>1 DEF SendElement, ResendFlag
    <3> QED BY <2>1, <3>2
  <2>2. CASE sState = "LAST_DATA"
    BY <1>1, <2>2
  <2> QED BY <1>1, <2>1, <2>2
<1>5. Extends(toClient, toClient', Stock) /\ sState' \in {next, "CRASH"}
  BY <1>2, <1>4, SendElementKeeps
<1> QED BY <1>1, <1>4, <1>5

LEMMA ServerTimesOutKeeps ==
  ASSUME CommonInv, TypeInv', ServerTimesOut, UNCHANGED rcopyVars
  PROVE  CommonInv'
<1>1. /\ UNCHANGED <<toMain, toServer, sWindow, seqNum, filePos>>
      /\ Extends(toClient, toClient', Stock)
      /\ sState \in {"CLOSED", "LAST_DATA"}
      /\ sState' \in {"KILL", "LAST_DATA", "CLOSED", "CRASH"}
      /\ sState' = "CLOSED" => sState = "CLOSED"
  BY ServerTimesOutIs
<1>2. seqNum \in Nat /\ ServerInv /\ OverInv /\ NoChild
  BY CommonFacts DEF CommonInv
<1>3. DataInv'
  BY <1>1, StockKeeps
<1>4. RcopyInv' /\ NotBegun'
  BY <1>1, <1>2, RcopySame
<1>5. ServerInv'
  BY <1>1, <1>2, ServerInvMoves DEF ServerInv
<1>6. OverInv' /\ NoChild'
  BY <1>1, <1>2 DEF OverInv, NoChild, rcopyVars
<1> QED BY <1>3, <1>4, <1>5, <1>6 DEF CommonInv

\* The child keeps what is common whichever acknowledgement arrives first.
LEMMA ServerInvariant ==
  ASSUME CommonInv, TypeInv', ServerNext
  PROVE  CommonInv'
BY ServerReceivesKeeps, ProcessFileNameKeeps, ReadFromDiskAndSendKeeps,
   WindowClosedKeeps, ServerTimesOutKeeps DEF ServerNext, ServerSends

-----------------------------------------------------------------------------
(* What is common to every network.                                        *)

LEMMA InitCommon == Init => CommonInv
<1> SUFFICES ASSUME Init PROVE CommonInv
  OBVIOUS
<1> USE DEF Init, NetworkInit, RcopyInit, ServerInit, SEQ_NUM_START
<1>1. TypeInv
  BY InitType
<1>2. ServerInv
  BY NewWindowEmpty, ServerAssumption DEF ServerInv
<1>3. NoChild /\ NotBegun
  BY DEF NoChild, NotBegun
<1>4. DataInv /\ OverInv
  BY DEF DataInv, OverInv
<1>5. RcopyInv
  BY NewWindowEmpty DEF RcopyInv
<1> QED BY <1>1, <1>2, <1>3, <1>4, <1>5 DEF CommonInv

LEMMA StutterCommon ==
  ASSUME CommonInv, UNCHANGED vars
  PROVE  CommonInv'
<1>1. TypeInv'
  BY TypeInvariant DEF CommonInv
<1>2. UNCHANGED <<toMain, toServer, toClient, rState, rWindow, expected,
                  buffering, wroteLastData, written, sState, sWindow, seqNum,
                  filePos>>
  BY DEF vars, networkVars, rcopyVars, serverVars
<1> QED BY <1>1, <1>2
        DEF CommonInv, ServerInv, NoChild, DataInv, OverInv, RcopyInv,
            NotBegun, Handshaking, Genuine

LEMMA StepCommon ==
  ASSUME CommonInv, FitsExpected, [Next]_vars
  PROVE  CommonInv'
<1>1. TypeInv'
  BY TypeInvariant DEF CommonInv
<1>2. CASE RcopyNext
  BY <1>1, <1>2, RcopyInvariant
<1>3. CASE ServerNext
  BY <1>1, <1>3, ServerInvariant
<1>4. CASE UNCHANGED vars
  BY <1>4, StutterCommon
<1> QED BY <1>2, <1>3, <1>4 DEF Next, Terminated

-----------------------------------------------------------------------------
(* Acknowledgements in order: IInv.                                        *)

\* The facts that the steps of IInv start from.
LEMMA ServerFacts ==
  ASSUME IInv
  PROVE  /\ CommonInv /\ WindowInv /\ AckInv
         /\ TypeOK /\ ServerInv /\ RcopyInv /\ NetworkTypeOK /\ ServerTypeOK
         /\ toServer \in Seq(Packets) /\ toClient \in Seq(Packets)
         /\ sWindow \in Windows /\ sWindow.lower \in Nat \ {0}
         /\ sWindow.current \in Nat
         /\ seqNum \in Nat \ {0} /\ filePos \in Nat
         /\ NumChunks \in Nat \ {0} /\ WindowSize \in Nat \ {0}
         /\ seqNum <= NumChunks + 1
         /\ expected \in Nat \ {0}
         /\ sWindow.lower <= expected /\ expected <= seqNum
         /\ seqNum <= sWindow.lower + WindowSize
         /\ seqNum <= expected + WindowSize
<1>1. CommonInv /\ WindowInv /\ AckInv /\ ServerInv /\ RcopyInv
  BY DEF IInv, CommonInv
<1>2. /\ TypeOK /\ NetworkTypeOK /\ ServerTypeOK
      /\ toServer \in Seq(Packets) /\ toClient \in Seq(Packets)
      /\ sWindow \in Windows /\ sWindow.lower \in Nat /\ sWindow.current \in Nat
      /\ expected \in Nat \ {0} /\ seqNum \in Nat \ {0} /\ filePos \in Nat
      /\ NumChunks \in Nat \ {0} /\ WindowSize \in Nat \ {0}
      /\ expected <= seqNum /\ seqNum <= NumChunks + 1
  BY <1>1, CommonFacts
<1>3. /\ 1 <= sWindow.lower /\ sWindow.lower <= expected
      /\ seqNum <= sWindow.lower + WindowSize
  BY <1>1 DEF WindowInv
<1> QED BY <1>1, <1>2, <1>3

\* The child never runs more than a ring ahead of rcopy, so all that rcopy
\* buffers fits its window.
LEMMA WindowFits == IInv => FitsExpected
<1> SUFFICES ASSUME IInv PROVE Fits(rWindow)
  BY DEF FitsExpected
<1>1. /\ seqNum \in Nat /\ expected \in Nat /\ WindowSize \in Nat
      /\ seqNum <= expected + WindowSize
      /\ rWindow.current \in Nat /\ RcopyInv /\ rWindow.lower = expected
  BY ServerFacts, CommonFacts DEF RcopyInv
<1>2. rWindow.current <= rWindow.lower + WindowSize
  BY <1>1 DEF RcopyInv
<1>3. ASSUME NEW i \in Slots, rWindow.elements[i].valid
      PROVE  rWindow.elements[i].packet.seq < rWindow.lower + WindowSize
  <2> DEFINE p == rWindow.elements[i].packet
  <2>1. Genuine(p) /\ p.seq < seqNum
    BY <1>1, <1>3 DEF RcopyInv
  <2>2. p.seq \in Nat
    BY <2>1 DEF Genuine
  <2> QED BY <1>1, <2>1, <2>2
<1> QED BY <1>2, <1>3 DEF Fits

\* rcopy's acknowledgements: every RR carries what it then expects.
LEMMA AckExtends ==
  ASSUME AckInv, Extends(toServer, toServer', Said(expected')),
         UNCHANGED sWindow,
         sWindow.lower \in Nat, expected \in Nat, expected' \in Nat,
         toServer \in Seq(Packets),
         sWindow.lower <= expected, expected <= expected'
  PROVE  AckInv'
<1> DEFINE rr(p) == p.ok /\ p.flag = "RR"
<1>1. ASSUME NEW j \in 1 .. Len(toServer')
      PROVE  \/ j \in 1 .. Len(toServer) /\ toServer'[j] = toServer[j]
             \/ j \notin 1 .. Len(toServer)
                /\ (toServer'[j] \in Said(expected') \/ ~toServer'[j].ok)
  <2>1. CASE j \in 1 .. Len(toServer)
    BY <2>1 DEF Extends
  <2>2. CASE j \notin 1 .. Len(toServer)
    <3>1. j \in Len(toServer) + 1 .. Len(toServer')
      BY <2>2 DEF Extends
    <3> QED BY <2>2, <3>1 DEF Extends
  <2> QED BY <2>1, <2>2
<1>2. ASSUME NEW j \in 1 .. Len(toServer'), rr(toServer'[j])
      PROVE  /\ toServer'[j].seq \in Nat
             /\ sWindow.lower <= toServer'[j].seq /\ toServer'[j].seq <= expected'
             /\ j \notin 1 .. Len(toServer) => toServer'[j].seq = expected'
  <2>1. CASE j \in 1 .. Len(toServer) /\ toServer'[j] = toServer[j]
    <3>1. toServer[j] \in Packets
      BY <2>1
    <3>2. toServer[j].seq \in Nat
      BY <3>1 DEF Packets
    <3>3. sWindow.lower <= toServer[j].seq /\ toServer[j].seq <= expected
      BY <1>2, <2>1 DEF AckInv
    <3> QED BY <2>1, <3>2, <3>3
  <2>2. CASE j \notin 1 .. Len(toServer) /\ toServer'[j] \in Said(expected')
    <3>1. toServer'[j].seq = expected'
      BY <1>2, <2>2 DEF Said
    <3> QED BY <3>1
  <2> QED BY <1>1, <1>2, <2>1, <2>2
<1>3. ASSUME NEW i \in 1 .. Len(toServer'), NEW j \in 1 .. Len(toServer'),
             j < i, rr(toServer'[i]), rr(toServer'[j])
      PROVE  toServer'[j].seq <= toServer'[i].seq
  <2>1. CASE i \in 1 .. Len(toServer)
    <3>1. j \in 1 .. Len(toServer)
      BY <1>3, <2>1
    <3>2. toServer'[i] = toServer[i] /\ toServer'[j] = toServer[j]
      BY <1>1, <2>1, <3>1
    <3> QED BY <1>3, <2>1, <3>1, <3>2 DEF AckInv
  <2>2. CASE i \notin 1 .. Len(toServer)
    BY <1>2, <1>3, <2>2
  <2> QED BY <2>1, <2>2
<1> QED BY <1>2, <1>3 DEF AckInv

\* The child takes the oldest acknowledgement.
LEMMA AckRemoved ==
  ASSUME AckInv, toServer \in Seq(Packets), Len(toServer) > 0,
         toServer' = RemoveAt(toServer, 1), expected' = expected,
         \/ sWindow'.lower = sWindow.lower
         \/ /\ toServer[1].ok /\ toServer[1].flag = "RR"
            /\ sWindow'.lower = toServer[1].seq
  PROVE  AckInv'
<1>1. /\ Len(toServer') = Len(toServer) - 1
      /\ \A j \in 1 .. Len(toServer') : toServer'[j] = toServer[j + 1]
  <2>1. /\ Len(RemoveAt(toServer, 1)) = Len(toServer) - 1
        /\ \A j \in 1 .. Len(toServer) - 1 : RemoveAt(toServer, 1)[j] =
             IF j < 1 THEN toServer[j] ELSE toServer[j + 1]
    <3>1. 1 \in 1 .. Len(toServer)
      OBVIOUS
    <3> QED BY <3>1, RemoveAtLemma
  <2> QED BY <2>1
<1>2. \A j \in 1 .. Len(toServer') : j + 1 \in 1 .. Len(toServer) /\ 1 < j + 1
  BY <1>1
<1>3. 1 \in 1 .. Len(toServer)
  OBVIOUS
<1>4. ASSUME NEW j \in 1 .. Len(toServer'), toServer'[j].ok,
             toServer'[j].flag = "RR"
      PROVE  sWindow'.lower <= toServer'[j].seq /\ toServer'[j].seq <= expected
  <2>1. toServer'[j] = toServer[j + 1] /\ j + 1 \in 1 .. Len(toServer) /\ 1 < j + 1
    BY <1>1, <1>2
  <2>2. sWindow.lower <= toServer[j + 1].seq /\ toServer[j + 1].seq <= expected
    BY <1>4, <2>1 DEF AckInv
  <2>3. toServer[1].ok /\ toServer[1].flag = "RR" =>
          toServer[1].seq <= toServer[j + 1].seq
    BY <1>3, <1>4, <2>1 DEF AckInv
  <2> QED BY <2>1, <2>2, <2>3
<1>5. ASSUME NEW i \in 1 .. Len(toServer'), NEW j \in 1 .. Len(toServer'), j < i,
             toServer'[i].ok, toServer'[i].flag = "RR",
             toServer'[j].ok, toServer'[j].flag = "RR"
      PROVE  toServer'[j].seq <= toServer'[i].seq
  <2>1. /\ i + 1 \in 1 .. Len(toServer) /\ j + 1 \in 1 .. Len(toServer)
        /\ j + 1 < i + 1
    BY <1>2, <1>5
  <2>2. toServer'[i] = toServer[i + 1] /\ toServer'[j] = toServer[j + 1]
    BY <1>1
  <2> QED BY <1>5, <2>1, <2>2 DEF AckInv
<1> QED BY <1>4, <1>5 DEF AckInv

LEMMA RcopyWindow ==
  ASSUME IInv, TypeInv', RcopyNext
  PROVE  WindowInv' /\ AckInv'
<1>1. /\ CommonInv /\ FitsExpected /\ WindowInv /\ AckInv
      /\ sWindow.lower \in Nat /\ expected \in Nat /\ toServer \in Seq(Packets)
      /\ sWindow.lower <= expected
  BY ServerFacts, WindowFits
<1>2. CASE SendFileNameTimeout
  <2>1. sState' = "NONE" /\ ServerReset
    BY <1>2 DEF RcopyNext, SendFileNameTimeout
  <2>2. /\ toServer' = <<>> /\ sWindow' = NewWindow /\ seqNum' = 1
        /\ expected' = 1
    BY <1>1, <1>2, <2>1, SocketIsNew
  <2>3. WindowInv'
    BY <2>1, <2>2, NewWindowEmpty, WindowSizeAssumption DEF WindowInv
  <2> QED BY <2>2, <2>3 DEF AckInv
<1>3. CASE ~SendFileNameTimeout
  <2>1. RcopyMoved /\ UNCHANGED serverVars
    BY <1>1, <1>3, RcopyInvariant
  <2>2. /\ expected <= expected' /\ Extends(toServer, toServer', Said(expected'))
        /\ UNCHANGED <<sState, sWindow, seqNum>> /\ expected' \in Nat
    BY <2>1 DEF RcopyMoved, serverVars, TypeInv, TypeOK, RcopyTypeOK
  <2>3. WindowInv'
    BY <1>1, <2>2 DEF WindowInv, Held, GetPacket
  <2> QED BY <1>1, <2>2, <2>3, AckExtends
<1> QED BY <1>2, <1>3

\* Moving the window to a number that rcopy's RR named.
LEMMA WindowMoves ==
  ASSUME IInv, NEW n \in Nat, sWindow.lower <= n, n <= expected,
         sWindow' = RemovePacket(sWindow, n), UNCHANGED <<seqNum, expected>>,
         sState' = "OPEN" => IsWindowOpen(sWindow')
  PROVE  WindowInv' /\ sWindow'.lower = n
<1>1. /\ sWindow \in Windows /\ sWindow.lower \in Nat \ {0} /\ seqNum \in Nat
      /\ WindowSize \in Nat /\ WindowInv /\ seqNum <= sWindow.lower + WindowSize
  BY ServerFacts
<1>2. /\ sWindow'.lower = n /\ sWindow'.upper = n + WindowSize
      /\ \A i \in Slots :
           /\ sWindow'.elements[i].packet = sWindow.elements[i].packet
           /\ sWindow'.elements[i].dataSize = sWindow.elements[i].dataSize
  <2> DEFINE w == RemovePacket(sWindow, n)
  <2>1. /\ w.lower = n /\ w.upper = n + WindowSize
        /\ \A i \in Slots :
             /\ w.elements[i].packet = sWindow.elements[i].packet
             /\ w.elements[i].dataSize = sWindow.elements[i].dataSize
    <3>1. sWindow \in Windows
      BY <1>1
    <3> QED BY <3>1, RemovePacketLemma
  <2>2. sWindow' = w
    OBVIOUS
  <2> HIDE DEF w
  <2> QED BY <2>1, <2>2
<1>3. ASSUME NEW m \in n .. seqNum - 1 PROVE Held(m)'
  <2>1. m \in Nat /\ m \in sWindow.lower .. seqNum - 1
    BY <1>1
  <2>2. Held(m) /\ Slot(m) \in Slots
    BY <1>1, <2>1, SlotType DEF WindowInv
  <2> QED BY <1>2, <2>2 DEF Held, GetPacket
<1> QED BY <1>1, <1>2, <1>3 DEF WindowInv

\* The steps that leave the child's ring and the acknowledgements alone.
LEMMA WindowSame ==
  ASSUME IInv, UNCHANGED <<expected, toServer, sWindow, seqNum>>,
         sState' # "OPEN" \/ IsWindowOpen(sWindow)
  PROVE  WindowInv' /\ AckInv'
BY DEF IInv, WindowInv, AckInv, Held, GetPacket

LEMMA ServerReceivesWindow ==
  ASSUME AckReorder = 0, IInv, ServerReceives, UNCHANGED rcopyVars
  PROVE  WindowInv' /\ AckInv'
<1>1. PICK i \in Arrivals(toServer, AckReorder) :
        /\ i \in 1 .. Len(toServer) /\ toServer[i] \in Packets
        /\ toServer' = RemoveAt(toServer, i)
        /\ UNCHANGED seqNum
        /\ sState' = "OPEN" => IsWindowOpen(sWindow')
        /\ \/ sWindow' = sWindow
           \/ /\ toServer[i].ok /\ toServer[i].flag = "RR"
              /\ sWindow' = RemovePacket(sWindow, toServer[i].seq)
  BY ServerFacts, ServerReceivesIs
<1>2. /\ toServer \in Seq(Packets) /\ WindowInv /\ AckInv
      /\ UNCHANGED expected
  BY ServerFacts DEF rcopyVars
<1>3. i = 1 /\ Len(toServer) > 0
  BY <1>1, <1>2 DEF Arrivals
<1>4. CASE sWindow' = sWindow
  <2>1. WindowInv'
    BY <1>1, <1>2, <1>4 DEF WindowInv, Held, GetPacket
  <2> QED BY <1>1, <1>2, <1>3, <1>4, <2>1, AckRemoved
<1>5. CASE /\ toServer[i].ok /\ toServer[i].flag = "RR"
           /\ sWindow' = RemovePacket(sWindow, toServer[i].seq)
  <2> DEFINE n == toServer[i].seq
  <2>1. n \in Nat /\ sWindow.lower <= n /\ n <= expected
    BY <1>1, <1>2, <1>5 DEF AckInv, Packets
  <2>2. sWindow' = RemovePacket(sWindow, n)
    BY <1>5
  <2> HIDE DEF n
  <2>3. WindowInv' /\ sWindow'.lower = n
    BY <1>1, <1>2, <2>1, <2>2, WindowMoves
  <2>4. n = toServer[i].seq
    BY DEF n
  <2> QED BY <1>1, <1>2, <1>3, <1>5, <2>3, <2>4, AckRemoved
<1> QED BY <1>1, <1>4, <1>5

\* The next chunk takes a slot that no unacknowledged packet uses.
LEMMA ReadFromDiskAndSendWindow ==
  ASSUME IInv, ReadFromDiskAndSend, UNCHANGED rcopyVars
  PROVE  WindowInv' /\ AckInv'
<1>1. PICK p \in Packets :
        /\ p = Original(seqNum)
        /\ seqNum' = seqNum + 1 /\ UNCHANGED toServer
        /\ sState \in {"OPEN", "DRAIN"}
        /\ sState = "DRAIN" => IsWindowOpen(sWindow)
        /\ sState' = IF seqNum = NumChunks THEN "LAST_DATA" ELSE "DRAIN"
        /\ sWindow'.lower = sWindow.lower /\ sWindow'.upper = sWindow.upper
        /\ \A i \in Slots : sWindow'.elements[i] =
             IF i = Slot(seqNum) THEN Stored(p) ELSE sWindow.elements[i]
  BY ServerFacts, ReadFromDiskAndSendIs
<1>2. /\ WindowInv /\ ServerInv /\ sWindow.lower \in Nat \ {0}
      /\ seqNum \in Nat /\ WindowSize \in Nat \ {0}
      /\ sWindow.lower <= seqNum /\ UNCHANGED expected
      /\ seqNum <= sWindow.lower + WindowSize
  <2>1. /\ sWindow.lower <= expected /\ expected <= seqNum
        /\ sWindow.lower \in Nat \ {0} /\ expected \in Nat /\ seqNum \in Nat
    BY ServerFacts
  <2> QED BY <2>1, ServerFacts DEF rcopyVars
<1>3. seqNum < sWindow.lower + WindowSize
  <2>1. seqNum # sWindow.lower + WindowSize
    BY <1>1, <1>2 DEF WindowInv, ServerInv, IsWindowOpen
  <2> QED BY <1>2, <2>1
<1>4. Stored(p).dataSize = 1 /\ Stored(p).packet = p
  BY DEF Stored
<1>5. ASSUME NEW n \in sWindow.lower .. seqNum PROVE Held(n)'
  <2>1. n \in Nat /\ sWindow.lower <= n /\ n <= seqNum
    BY <1>2
  <2>2. Slot(n) \in Slots
    BY <2>1, SlotType
  <2>3. CASE n = seqNum
    <3>1. GetPacket(sWindow', n) = Stored(p)
      BY <1>1, <2>2, <2>3 DEF GetPacket
    <3> QED BY <1>1, <1>4, <2>3, <3>1 DEF Held
  <2>4. CASE n # seqNum
    <3>1. n < seqNum /\ seqNum - n < WindowSize
      BY <1>2, <1>3, <2>1, <2>4
    <3>2. Slot(n) # Slot(seqNum)
      BY <1>2, <2>1, <3>1, SlotInjective
    <3>3. sWindow'.elements[Slot(n)] = sWindow.elements[Slot(n)]
      BY <1>1, <2>2, <3>2
    <3>4. Held(n)
      BY <1>2, <2>1, <3>1 DEF WindowInv
    <3> QED BY <3>3, <3>4 DEF Held, GetPacket
  <2> QED BY <2>3, <2>4
<1>6. WindowInv'
  <2>1. \A n \in sWindow'.lower .. seqNum' - 1 : Held(n)'
    BY <1>1, <1>2, <1>5
  <2> QED BY <1>1, <1>2, <1>3, <2>1 DEF WindowInv
<1>7. AckInv'
  BY <1>1, <1>2, ServerFacts DEF AckInv
<1> QED BY <1>6, <1>7

LEMMA ServerWindow ==
  ASSUME AckReorder = 0, IInv, ServerNext
  PROVE  WindowInv' /\ AckInv'
<1>1. CommonInv /\ UNCHANGED rcopyVars /\ UNCHANGED expected
  BY ServerFacts DEF ServerNext, rcopyVars
<1>2. CASE ServerReceives
  BY <1>1, <1>2, ServerReceivesWindow
<1>3. CASE ProcessFileName
  <2>1. /\ UNCHANGED <<toServer, sWindow, seqNum>> /\ sWindow = NewWindow
    BY <1>1, <1>3, ProcessFileNameIs
  <2>2. IsWindowOpen(sWindow)
    BY <2>1, NewWindowEmpty, WindowSizeAssumption DEF IsWindowOpen
  <2> QED BY <1>1, <2>1, <2>2, WindowSame
<1>4. CASE ReadFromDiskAndSend
  BY <1>1, <1>4, ReadFromDiskAndSendWindow
<1>5. CASE WindowClosed
  <2>1. sState' = "CLOSED" /\ UNCHANGED <<toServer, sWindow, seqNum>>
    BY <1>5 DEF WindowClosed, networkVars
  <2> QED BY <1>1, <2>1, WindowSame
<1>6. CASE ServerTimesOut
  <2>1. sState' # "OPEN" /\ UNCHANGED <<toServer, sWindow, seqNum>>
    BY <1>1, <1>6, ServerTimesOutIs
  <2> QED BY <1>1, <2>1, WindowSame
<1> QED BY <1>2, <1>3, <1>4, <1>5, <1>6 DEF ServerNext, ServerSends

LEMMA InitInvariant == Init => IInv
<1> SUFFICES ASSUME Init PROVE IInv
  OBVIOUS
<1> USE DEF Init, NetworkInit, RcopyInit, ServerInit, SEQ_NUM_START
<1>1. CommonInv
  BY InitCommon
<1>2. WindowInv
  BY NewWindowEmpty, WindowSizeAssumption DEF WindowInv
<1>3. AckInv
  BY DEF AckInv
<1> QED BY <1>1, <1>2, <1>3 DEF IInv

LEMMA StepInvariant ==
  AckReorder = 0 => (IInv /\ [Next]_vars => IInv')
<1> SUFFICES ASSUME AckReorder = 0, IInv, [Next]_vars PROVE IInv'
  OBVIOUS
<1>1. CommonInv'
  BY WindowFits, ServerFacts, StepCommon
<1>2. TypeInv'
  BY <1>1 DEF CommonInv
<1>3. CASE RcopyNext
  BY <1>1, <1>2, <1>3, RcopyWindow DEF IInv
<1>4. CASE ServerNext
  BY <1>1, <1>4, ServerWindow DEF IInv
<1>5. CASE UNCHANGED vars
  <2>1. UNCHANGED <<expected, toServer, sState, sWindow, seqNum>>
    BY <1>5 DEF vars, networkVars, rcopyVars, serverVars
  <2>2. sState' # "OPEN" \/ IsWindowOpen(sWindow)
    BY <2>1 DEF IInv, WindowInv
  <2> QED BY <1>1, <2>1, <2>2, WindowSame DEF IInv
<1> QED BY <1>3, <1>4, <1>5 DEF Next, Terminated

\* Acknowledgements that arrive in order keep the inductive invariant,
\* whatever is lost, damaged, late or reordered among the data.
THEOREM Invariant == AckReorder = 0 => (Spec => []IInv)
<1>1. Init => IInv
  BY InitInvariant
<1>2. AckReorder = 0 => (IInv /\ [Next]_vars => IInv')
  BY StepInvariant
<1> SUFFICES ASSUME AckReorder = 0 PROVE Spec => []IInv
  OBVIOUS
<1>3. IInv /\ [Next]_vars => IInv'
  BY <1>2
<1> QED BY <1>1, <1>3, PTL DEF Spec

\* What rcopy may still ask for has not been overwritten in the child's ring
\* (removePacket moves lower only to what rcopy has written).
THEOREM UnwrittenIsRetained == AckReorder = 0 => (Spec => []UnwrittenRetained)
<1> SUFFICES ASSUME AckReorder = 0 PROVE Spec => []UnwrittenRetained
  OBVIOUS
<1>1. IInv => UnwrittenRetained
  <2> SUFFICES ASSUME IInv, NEW n \in expected .. seqNum - 1 PROVE Held(n)
    BY DEF UnwrittenRetained
  <2>1. n \in sWindow.lower .. seqNum - 1
    BY ServerFacts
  <2> QED BY <2>1 DEF IInv, WindowInv
<1>2. Spec => []IInv
  BY Invariant
<1> QED BY <1>1, <1>2, PTL

\* The child's sending never outruns the window that rcopy buffers in.
THEOREM FlowIsControlled == AckReorder = 0 => (Spec => []FlowControl)
<1> SUFFICES ASSUME AckReorder = 0 PROVE Spec => []FlowControl
  OBVIOUS
<1>1. IInv => FlowControl
  <2> SUFFICES ASSUME IInv PROVE FlowControl
    OBVIOUS
  <2>1. /\ expected \in Nat \ {0} /\ seqNum \in Nat
        /\ seqNum <= expected + WindowSize /\ WindowSize \in Nat \ {0}
    BY ServerFacts
  <2>2. ASSUME NEW i \in 1 .. Len(toClient), toClient[i].ok
        PROVE  toClient[i].seq < expected + WindowSize
    <3>1. \/ toClient[i].seq = 0
          \/ Genuine(toClient[i]) /\ toClient[i].seq < seqNum
      BY <2>2 DEF IInv, CommonInv, DataInv
    <3>2. Genuine(toClient[i]) => toClient[i].seq \in Nat
      BY DEF Genuine
    <3> QED BY <2>1, <2>2, <3>1, <3>2
  <2> QED BY <2>1, <2>2 DEF FlowControl
<1>2. Spec => []IInv
  BY Invariant
<1> QED BY <1>1, <1>2, PTL

\* What rcopy buffers is the file's own packet, in the slot of its number and
\* within a window of what is written.
THEOREM BufferIsGenuine == AckReorder = 0 => (Spec => []BufferGenuine)
<1> SUFFICES ASSUME AckReorder = 0 PROVE Spec => []BufferGenuine
  OBVIOUS
<1>1. IInv => BufferGenuine
  <2> SUFFICES ASSUME IInv, NEW i \in Slots, rWindow.elements[i].valid
               PROVE  LET p == rWindow.elements[i].packet
                      IN  /\ p.seq \in expected .. expected + WindowSize - 1
                          /\ Slot(p.seq) = i /\ p.data = p.seq
                          /\ (p.flag = "EOF") = (p.seq = NumChunks)
    BY DEF BufferGenuine
  <2> DEFINE p == rWindow.elements[i].packet
  <2>1. /\ Genuine(p) /\ expected <= p.seq /\ p.seq < seqNum /\ Slot(p.seq) = i
    BY DEF IInv, CommonInv, RcopyInv
  <2>2. /\ expected \in Nat /\ seqNum \in Nat /\ seqNum <= expected + WindowSize
        /\ WindowSize \in Nat
    BY ServerFacts
  <2> HIDE DEF p
  <2>3. p.seq \in expected .. expected + WindowSize - 1
    <3>1. p.seq \in Nat
      BY <2>1 DEF Genuine
    <3> QED BY <2>1, <2>2, <3>1
  <2>4. p.data = p.seq /\ (p.flag = "EOF") = (p.seq = NumChunks)
    BY <2>1 DEF Genuine
  <2> QED BY <2>1, <2>3, <2>4 DEF p
<1>2. Spec => []IInv
  BY Invariant
<1> QED BY <1>1, <1>2, PTL

\* RRs are served in the order of their numbers and name only what is written.
THEOREM AcksAreInOrder == AckReorder = 0 => (Spec => []AcksInOrder)
<1> SUFFICES ASSUME AckReorder = 0 PROVE Spec => []AcksInOrder
  OBVIOUS
<1>1. IInv => AcksInOrder
  <2> SUFFICES ASSUME IInv, NEW i \in 1 .. Len(toServer),
                      toServer[i].ok, toServer[i].flag = "RR"
               PROVE  /\ toServer[i].seq \in sWindow.lower .. expected
                      /\ \A j \in 1 .. i - 1 :
                           toServer[j].ok /\ toServer[j].flag = "RR" =>
                             toServer[j].seq <= toServer[i].seq
    BY DEF AcksInOrder
  <2>1. AckInv /\ toServer \in Seq(Packets) /\ sWindow.lower \in Nat
        /\ expected \in Nat
    BY ServerFacts DEF IInv
  <2>2. toServer[i] \in Packets
    BY <2>1
  <2>3. toServer[i].seq \in Nat
    BY <2>2 DEF Packets
  <2>4. toServer[i].seq \in sWindow.lower .. expected
    BY <2>1, <2>3 DEF AckInv
  <2>5. ASSUME NEW j \in 1 .. i - 1, toServer[j].ok, toServer[j].flag = "RR"
        PROVE  toServer[j].seq <= toServer[i].seq
    <3>1. j \in 1 .. Len(toServer) /\ j < i
      BY <2>1
    <3> QED BY <2>1, <2>5, <3>1 DEF AckInv
  <2> QED BY <2>4, <2>5
<1>2. Spec => []IInv
  BY Invariant
<1> QED BY <1>1, <1>2, PTL

LEMMA StepAdvances ==
  ASSUME AckReorder = 0, IInv, [Next]_vars, sState # "NONE", sState' # "NONE"
  PROVE  /\ sWindow'.lower >= sWindow.lower
         /\ sWindow'.current >= sWindow.current
<1>1. /\ sWindow \in Windows /\ toServer \in Seq(Packets) /\ AckInv
      /\ CommonInv /\ ServerInv
      /\ sWindow.lower \in Nat /\ sWindow.current \in Nat /\ seqNum \in Nat
  BY ServerFacts
<1>2. CASE sWindow' = sWindow
  BY <1>1, <1>2
<1>3. CASE ServerReceives
  <2>1. PICK i \in Arrivals(toServer, AckReorder) :
          /\ i \in 1 .. Len(toServer) /\ toServer[i] \in Packets
          /\ \/ sWindow' = sWindow
             \/ /\ toServer[i].ok /\ toServer[i].flag = "RR"
                /\ sWindow' = RemovePacket(sWindow, toServer[i].seq)
    BY <1>1, <1>3, ServerReceivesIs
  <2>2. CASE /\ toServer[i].ok /\ toServer[i].flag = "RR"
             /\ sWindow' = RemovePacket(sWindow, toServer[i].seq)
    <3> DEFINE n == toServer[i].seq
    <3>1. n \in Nat /\ sWindow.lower <= n
      BY <1>1, <2>1, <2>2 DEF AckInv, Packets
    <3>2. sWindow' = RemovePacket(sWindow, n)
      BY <2>2
    <3> HIDE DEF n
    <3>3. sWindow'.lower = n /\ sWindow'.current = sWindow.current
      BY <1>1, <3>1, <3>2, RemovePacketLemma
    <3> QED BY <1>1, <3>1, <3>3
  <2> QED BY <1>2, <2>1, <2>2
<1>4. CASE ReadFromDiskAndSend
  <2>1. sWindow'.lower = sWindow.lower /\ sWindow'.current = seqNum + 1
    BY <1>1, <1>4, ReadFromDiskAndSendIs
  <2> QED BY <1>1, <2>1 DEF ServerInv
<1>5. CASE RcopyNext
  BY <1>2, <1>5 DEF RcopyNext, serverVars
<1>6. CASE ProcessFileName
  BY <1>1, <1>2, <1>6, ProcessFileNameIs
<1>7. CASE WindowClosed \/ ServerTimesOut
  BY <1>2, <1>7 DEF WindowClosed, ServerTimesOut, ClosedTimeout, LastDataResend
<1>8. CASE UNCHANGED vars
  BY <1>2, <1>8 DEF vars, serverVars
<1> QED BY <1>3, <1>4, <1>5, <1>6, <1>7, <1>8
        DEF Next, ServerNext, ServerSends, Terminated

\* The child's window never slides back (removePacket, addPacket).
THEOREM WindowOnlyAdvances == AckReorder = 0 => (Spec => WindowAdvances)
<1> SUFFICES ASSUME AckReorder = 0 PROVE Spec => WindowAdvances
  OBVIOUS
<1>1. IInv /\ [Next]_vars =>
        [sState # "NONE" /\ sState' # "NONE" =>
           /\ sWindow'.lower >= sWindow.lower
           /\ sWindow'.current >= sWindow.current]_vars
  BY StepAdvances
<1>2. Spec => []IInv
  BY Invariant
<1> QED BY <1>1, <1>2, PTL DEF Spec, WindowAdvances

=============================================================================
