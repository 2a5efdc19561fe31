--------------------------- MODULE TransferProofs ---------------------------
(***************************************************************************)
(* Proofs about Transfer, for every value of its constants.                *)
(***************************************************************************)
EXTENDS TransferInv, TLAPS

-----------------------------------------------------------------------------
(* Slots of the ring.                                                      *)

LEMMA SlotType == \A n \in Nat : Slot(n) \in Slots
BY WindowSizeAssumption DEF Slot, Slots

\* Two sequence numbers share a slot only if they are a window apart.
LEMMA SlotInjective ==
  ASSUME NEW i \in Nat, NEW j \in Nat, i < j, Slot(i) = Slot(j)
  PROVE  j - i >= WindowSize
<1> DEFINE a == i \div WindowSize
<1> DEFINE b == j \div WindowSize
<1>1. a \in Int /\ b \in Int
  BY WindowSizeAssumption
<1>2. i = WindowSize * a + Slot(i) /\ j = WindowSize * b + Slot(j)
  BY WindowSizeAssumption DEF Slot
<1> HIDE DEF a, b
<1>3. Slot(i) \in Nat /\ Slot(j) \in Nat
  BY SlotType DEF Slots
<1>4. j - i = WindowSize * (b - a)
  BY <1>1, <1>2, <1>3, WindowSizeAssumption
<1>5. b - a >= 1
  BY <1>1, <1>4, WindowSizeAssumption
<1> QED BY <1>1, <1>4, <1>5, WindowSizeAssumption

-----------------------------------------------------------------------------
(* Sequences.                                                              *)

LEMMA JoinLemma ==
  ASSUME NEW S, NEW s \in Seq(S), NEW t \in Seq(S)
  PROVE  /\ s \o t \in Seq(S)
         /\ Len(s \o t) = Len(s) + Len(t)
         /\ \A j \in 1 .. Len(s) + Len(t) :
              (s \o t)[j] = IF j <= Len(s) THEN s[j] ELSE t[j - Len(s)]
OBVIOUS

LEMMA RemoveAtLemma ==
  ASSUME NEW S, NEW s \in Seq(S), NEW i \in 1 .. Len(s)
  PROVE  /\ RemoveAt(s, i) \in Seq(S)
         /\ Len(RemoveAt(s, i)) = Len(s) - 1
         /\ \A j \in 1 .. Len(s) - 1 :
              RemoveAt(s, i)[j] = IF j < i THEN s[j] ELSE s[j + 1]
<1> DEFINE a == SubSeq(s, 1, i - 1)
           b == SubSeq(s, i + 1, Len(s))
<1>1. a \in Seq(S) /\ Len(a) = i - 1 /\ \A j \in 1 .. i - 1 : a[j] = s[j]
  OBVIOUS
<1>2. /\ b \in Seq(S) /\ Len(b) = Len(s) - i
      /\ \A j \in 1 .. Len(s) - i : b[j] = s[j + i]
  OBVIOUS
<1>3. RemoveAt(s, i) = a \o b
  BY DEF RemoveAt
<1> HIDE DEF a, b
<1>4. /\ a \o b \in Seq(S) /\ Len(a \o b) = Len(a) + Len(b)
      /\ \A j \in 1 .. Len(a) + Len(b) :
           (a \o b)[j] = IF j <= Len(a) THEN a[j] ELSE b[j - Len(a)]
  BY <1>1, <1>2, JoinLemma
<1>5. ASSUME NEW j \in 1 .. Len(s) - 1
      PROVE  (a \o b)[j] = IF j < i THEN s[j] ELSE s[j + 1]
  <2>1. CASE j < i
    BY <2>1, <1>1, <1>2, <1>4
  <2>2. CASE ~(j < i)
    <3>1. j - Len(a) \in 1 .. Len(s) - i /\ (j - Len(a)) + i = j + 1
      BY <2>2, <1>1
    <3>2. (a \o b)[j] = b[j - Len(a)]
      BY <2>2, <1>1, <1>2, <1>4
    <3> QED BY <2>2, <3>1, <3>2, <1>2
  <2> QED BY <2>1, <2>2
<1> QED BY <1>1, <1>2, <1>3, <1>4, <1>5

\* r is s with packets of P, or damaged ones, sent after it.
Extends(s, r, P) ==
  /\ r \in Seq(Packets)
  /\ Len(s) <= Len(r)
  /\ \A j \in 1 .. Len(s) : r[j] = s[j]
  /\ \A j \in Len(s) + 1 .. Len(r) : r[j] \in P \/ ~r[j].ok

LEMMA ConcatLemma ==
  ASSUME NEW s \in Seq(Packets), NEW t \in Seq(Packets), NEW P,
         \A j \in 1 .. Len(t) : t[j] \in P \/ ~t[j].ok
  PROVE  Extends(s, s \o t, P)
<1>1. /\ s \o t \in Seq(Packets) /\ Len(s \o t) = Len(s) + Len(t)
      /\ \A j \in 1 .. Len(s) : (s \o t)[j] = s[j]
      /\ \A j \in Len(s) + 1 .. Len(s) + Len(t) : (s \o t)[j] = t[j - Len(s)]
  OBVIOUS
<1>2. \A j \in Len(s) + 1 .. Len(s) + Len(t) : j - Len(s) \in 1 .. Len(t)
  OBVIOUS
<1> QED BY <1>1, <1>2 DEF Extends

-----------------------------------------------------------------------------
(* Sending.                                                                *)

\* A flipped byte leaves a packet, with some sequence number.
LEMMA FlipsLemma ==
  ASSUME NEW p \in Packets, NEW q \in Flips(p)
  PROVE  q \in Packets /\ ~q.ok
<1>1. CASE q = [p EXCEPT !.ok = FALSE]
  BY <1>1 DEF Packets
<1>2. CASE \E w \in ByteWeights :
             q = [p EXCEPT !.ok = FALSE, !.seq = FlipSeqByte(p.seq, w)]
  <2>1. PICK w \in ByteWeights :
             q = [p EXCEPT !.ok = FALSE, !.seq = FlipSeqByte(p.seq, w)]
    BY <1>2
  <2>2. p.seq \in Nat /\ w \in {1, 256, 65536, 16777216}
    BY ByteWeightsAssumption DEF Packets
  <2>3. FlipSeqByte(p.seq, w) \in Nat
    BY <2>2 DEF FlipSeqByte, SeqByte
  <2> QED BY <2>1, <2>3 DEF Packets
<1> QED BY <1>1, <1>2 DEF Flips

LEMMA ProcessEventsLemma ==
  ASSUME NEW p \in Packets, NEW out \in ProcessEvents(p)
  PROVE  /\ out \in Seq(Packets)
         /\ \A j \in 1 .. Len(out) : out[j] = p \/ ~out[j].ok
<1>1. CASE out = <<>>
  BY <1>1
<1>2. CASE out = <<p>>
  BY <1>2
<1>3. CASE \E q \in Flips(p) : out = <<q>>
  <2>1. PICK q \in Flips(p) : out = <<q>>
    BY <1>3
  <2>2. q \in Packets /\ ~q.ok
    BY FlipsLemma
  <2> QED BY <2>1, <2>2
<1> QED BY <1>1, <1>2, <1>3 DEF ProcessEvents

LEMMA SpendLemma ==
  ASSUME errors \in 0 .. MaxErrors, NEW c \in Nat, Spend(c)
  PROVE  errors' \in 0 .. MaxErrors
BY NetworkAssumption DEF Spend

LEMMA CostLemma == \A p, out : Cost(p, out) \in Nat
BY DEF Cost

LEMMA SendToLemma ==
  ASSUME NEW s \in Seq(Packets), NEW p \in Packets, NEW r,
         errors \in 0 .. MaxErrors, SendTo(s, p, r)
  PROVE  errors' \in 0 .. MaxErrors /\ Extends(s, r, {p})
<1>1. PICK out \in ProcessEvents(p) : Spend(Cost(p, out)) /\ r = s \o out
  BY DEF SendTo
<1>2. errors' \in 0 .. MaxErrors
  BY <1>1, SpendLemma, CostLemma
<1>3. Extends(s, s \o out, {p})
  BY ProcessEventsLemma, ConcatLemma
<1> QED BY <1>1, <1>2, <1>3

LEMMA SendBothToLemma ==
  ASSUME NEW s \in Seq(Packets), NEW p \in Packets, NEW q \in Packets, NEW r,
         errors \in 0 .. MaxErrors, SendBothTo(s, p, q, r)
  PROVE  errors' \in 0 .. MaxErrors /\ Extends(s, r, {p, q})
<1>1. PICK out1 \in ProcessEvents(p), out2 \in ProcessEvents(q) :
        Spend(Cost(p, out1) + Cost(q, out2)) /\ r = s \o out1 \o out2
  BY DEF SendBothTo
<1>2. errors' \in 0 .. MaxErrors
  BY <1>1, SpendLemma, CostLemma
<1>3. Extends(s, s \o out1, {p}) /\ s \o out1 \in Seq(Packets)
  BY ProcessEventsLemma, ConcatLemma DEF Extends
<1>4. Extends(s \o out1, (s \o out1) \o out2, {q})
  BY <1>3, ProcessEventsLemma, ConcatLemma
<1> QED BY <1>1, <1>2, <1>3, <1>4 DEF Extends

-----------------------------------------------------------------------------
(* The window's functions.                                                 *)

LEMMA NewWindowType == NewWindow \in Windows
<1>1. ZeroPacket \in Packets
  BY DEF ZeroPacket, Packets
<1> QED BY <1>1, WindowSizeAssumption
        DEF NewWindow, Windows, Elements, Slots, SEQ_NUM_START

LEMMA StoredType == \A p \in Packets : Stored(p) \in Elements
BY DEF Stored, Elements

LEMMA GetPacketType ==
  ASSUME NEW w \in Windows, NEW n \in Nat
  PROVE  GetPacket(w, n) \in Elements
BY SlotType DEF GetPacket, Windows

\* What addPacket leaves in the slots: the packet, or what was there, and
\* nothing valid that was not so before.
LEMMA AddPacketLemma ==
  ASSUME NEW w \in Windows, NEW p \in Packets
  PROVE  /\ AddPacket(w, p) \in Windows
         /\ AddPacket(w, p).lower = w.lower
         /\ AddPacket(w, p).upper = w.upper
         /\ AddPacket(w, p).current =
              IF p.seq >= w.current THEN p.seq + 1 ELSE w.current
         /\ \A i \in Slots :
              AddPacket(w, p).elements[i].packet =
                IF i = Slot(p.seq) THEN p ELSE w.elements[i].packet
         /\ \A i \in Slots :
              AddPacket(w, p).elements[i].valid =>
                i = Slot(p.seq) \/ w.elements[i].valid
         /\ \A i \in Slots : i \notin SlotsFrom(w.current, p.seq) =>
              AddPacket(w, p).elements[i] =
                IF i = Slot(p.seq) THEN Stored(p) ELSE w.elements[i]
<1> DEFINE stored == [w.elements EXCEPT ![Slot(p.seq)] = Stored(p)]
           skip(e) == [e EXCEPT !.valid = FALSE, !.dataSize = 0]
           elements == [i \in Slots |->
                          IF i \in SlotsFrom(w.current, p.seq)
                          THEN skip(stored[i]) ELSE stored[i]]
           current == IF p.seq >= w.current THEN p.seq + 1 ELSE w.current
<1>1. /\ p.seq \in Nat /\ w.current \in Nat /\ w.elements \in [Slots -> Elements]
      /\ Slot(p.seq) \in Slots /\ Stored(p) \in Elements
  BY SlotType, StoredType DEF Packets, Windows
<1>2. /\ stored \in [Slots -> Elements]
      /\ \A i \in Slots :
           stored[i] = IF i = Slot(p.seq) THEN Stored(p) ELSE w.elements[i]
  BY <1>1
<1>3. AddPacket(w, p) =
        [w EXCEPT !.elements = elements, !.current = current]
  BY DEF AddPacket
<1> HIDE DEF stored
<1>4. \A e \in Elements : /\ skip(e) \in Elements
                          /\ ~skip(e).valid /\ skip(e).packet = e.packet
  BY DEF Elements
<1> HIDE DEF skip
<1>5. /\ elements \in [Slots -> Elements]
      /\ \A i \in Slots : elements[i] =
           IF i \in SlotsFrom(w.current, p.seq)
           THEN skip(stored[i]) ELSE stored[i]
  BY <1>2, <1>4
<1>6. current \in Nat
  BY <1>1
<1> HIDE DEF elements, current
<1>7. /\ AddPacket(w, p) \in Windows
      /\ AddPacket(w, p).lower = w.lower
      /\ AddPacket(w, p).upper = w.upper
      /\ AddPacket(w, p).current = current
      /\ AddPacket(w, p).elements = elements
  BY <1>3, <1>5, <1>6 DEF Windows
<1>8. Stored(p).packet = p
  BY DEF Stored
<1> QED BY <1>2, <1>4, <1>5, <1>7, <1>8 DEF current

LEMMA ReplacePacketLemma ==
  ASSUME NEW w \in Windows, NEW p \in Packets
  PROVE  /\ ReplacePacket(w, p) \in Windows
         /\ ReplacePacket(w, p).lower = w.lower
         /\ ReplacePacket(w, p).upper = w.upper
         /\ ReplacePacket(w, p).current = w.current
         /\ \A i \in Slots :
              ReplacePacket(w, p).elements[i] =
                IF i = Slot(p.seq) THEN Stored(p) ELSE w.elements[i]
<1>1. /\ w.elements \in [Slots -> Elements]
      /\ Slot(p.seq) \in Slots /\ Stored(p) \in Elements
  BY SlotType, StoredType DEF Packets, Windows
<1> QED BY <1>1 DEF ReplacePacket, Windows

\* removePacket moves the window and clears slots: the packets stay.
LEMMA RemovePacketLemma ==
  ASSUME NEW w \in Windows, NEW n \in Nat
  PROVE  /\ RemovePacket(w, n) \in Windows
         /\ RemovePacket(w, n).lower = n
         /\ RemovePacket(w, n).upper = n + WindowSize
         /\ RemovePacket(w, n).current = w.current
         /\ \A i \in Slots :
              /\ RemovePacket(w, n).elements[i].packet = w.elements[i].packet
              /\ RemovePacket(w, n).elements[i].dataSize = w.elements[i].dataSize
              /\ RemovePacket(w, n).elements[i].valid =>
                   w.elements[i].valid /\ i \notin SlotsFrom(w.lower, n)
<1> DEFINE clear(e) == [e EXCEPT !.valid = FALSE]
           elements == [i \in Slots |-> IF i \in SlotsFrom(w.lower, n)
                                        THEN clear(w.elements[i])
                                        ELSE w.elements[i]]
<1>1. w.elements \in [Slots -> Elements]
  BY DEF Windows
<1>2. RemovePacket(w, n) =
        [w EXCEPT !.elements = elements, !.lower = n, !.upper = n + WindowSize]
  BY DEF RemovePacket
<1>3. \A e \in Elements : /\ clear(e) \in Elements /\ ~clear(e).valid
                          /\ clear(e).packet = e.packet
                          /\ clear(e).dataSize = e.dataSize
  BY DEF Elements
<1> HIDE DEF clear
<1>4. /\ elements \in [Slots -> Elements]
      /\ \A i \in Slots : elements[i] =
           IF i \in SlotsFrom(w.lower, n) THEN clear(w.elements[i])
           ELSE w.elements[i]
  BY <1>1, <1>3
<1> HIDE DEF elements
<1>5. n + WindowSize \in Nat
  BY WindowSizeAssumption
<1>6. /\ RemovePacket(w, n) \in Windows
      /\ RemovePacket(w, n).lower = n
      /\ RemovePacket(w, n).upper = n + WindowSize
      /\ RemovePacket(w, n).current = w.current
      /\ RemovePacket(w, n).elements = elements
  BY <1>2, <1>4, <1>5 DEF Windows
<1> QED BY <1>1, <1>3, <1>4, <1>6

LEMMA InorderPacketsType ==
  ASSUME NEW w \in Windows, NEW n \in Nat
  PROVE  /\ InorderPackets(w, n) \in [1 .. n -> Packets]
         /\ \A k \in 1 .. n :
              InorderPackets(w, n)[k] =
                GetPacket(w, GetPacket(w, w.lower + k - 1).packet.seq).packet
<1>1. ASSUME NEW k \in 1 .. n
      PROVE GetPacket(w, GetPacket(w, w.lower + k - 1).packet.seq).packet
              \in Packets
  <2>1. w.lower + k - 1 \in Nat
    BY DEF Windows
  <2>2. GetPacket(w, w.lower + k - 1).packet.seq \in Nat
    BY <2>1, GetPacketType DEF Elements, Packets
  <2> QED BY <2>2, GetPacketType DEF Elements
<1> QED BY <1>1 DEF InorderPackets

-----------------------------------------------------------------------------
(* Types.                                                                  *)

LEMMA BuildTypes ==
  /\ \A n \in Nat : /\ BuildRrPacket(n) \in Packets
                    /\ BuildSrejPacket(n) \in Packets
                    /\ Reflag(BuildRrPacket(n), "EOF_ACK") \in Packets
  /\ \A n, c \in Nat : BuildDataPacket(n, c) \in Packets
  /\ \A b \in BOOLEAN : BuildFileNameRespPacket(b) \in Packets
  /\ \A p \in Packets : \A flag \in DataFlags : Reflag(p, flag) \in Packets
BY DEF BuildRrPacket, BuildSrejPacket, BuildDataPacket, Reflag,
       BuildFileNameRespPacket, Packets, DataFlags, ControlFlags

\* What rcopy sends when it expects n.
Acks(n) == {BuildRrPacket(n), BuildSrejPacket(n)}

LEMMA ExtendsMore ==
  ASSUME NEW s, NEW r, NEW P, NEW Q, P \subseteq Q, Extends(s, r, P)
  PROVE  Extends(s, r, Q)
BY DEF Extends

LEMMA ExtendsSame ==
  ASSUME NEW s \in Seq(Packets), NEW P
  PROVE  Extends(s, s, P)
BY DEF Extends

LEMMA SendAckLemma ==
  ASSUME NetworkTypeOK, NEW n \in Nat
  PROVE  /\ SendRR(n) \/ SendSREJ(n) \/ SendSREJAndRR(n) =>
              errors' \in 0 .. MaxErrors /\ Extends(toServer, toServer', Acks(n))
<1> USE BuildTypes DEF NetworkTypeOK
<1>1. ASSUME SendRR(n)
      PROVE  errors' \in 0 .. MaxErrors /\ Extends(toServer, toServer', Acks(n))
  <2>1. SendTo(toServer, BuildRrPacket(n), toServer')
    BY <1>1 DEF SendRR, SendAck
  <2>2. errors' \in 0 .. MaxErrors
        /\ Extends(toServer, toServer', {BuildRrPacket(n)})
    BY <2>1, SendToLemma
  <2> QED BY <2>2, ExtendsMore DEF Acks
<1>2. ASSUME SendSREJ(n)
      PROVE  errors' \in 0 .. MaxErrors /\ Extends(toServer, toServer', Acks(n))
  <2>1. SendTo(toServer, BuildSrejPacket(n), toServer')
    BY <1>2 DEF SendSREJ, SendAck
  <2>2. errors' \in 0 .. MaxErrors
        /\ Extends(toServer, toServer', {BuildSrejPacket(n)})
    BY <2>1, SendToLemma
  <2> QED BY <2>2, ExtendsMore DEF Acks
<1>3. ASSUME SendSREJAndRR(n)
      PROVE  errors' \in 0 .. MaxErrors /\ Extends(toServer, toServer', Acks(n))
  <2>1. SendBothTo(toServer, BuildSrejPacket(n), BuildRrPacket(n), toServer')
    BY <1>3 DEF SendSREJAndRR
  <2>2. errors' \in 0 .. MaxErrors
        /\ Extends(toServer, toServer', {BuildSrejPacket(n), BuildRrPacket(n)})
    BY <2>1, SendBothToLemma
  <2> QED BY <2>2, ExtendsMore DEF Acks
<1> QED BY <1>1, <1>2, <1>3

\* Types and channel after any of the branches for a data packet.
ProcessedOK(next) ==
  /\ rWindow' \in Windows
  /\ expected' \in Nat /\ highest' \in Nat
  /\ buffering' \in BOOLEAN /\ wroteLastData' \in BOOLEAN
  /\ written' \in Seq(Nat)
  /\ rState' \in {next, "ABORT"}
  /\ errors' \in 0 .. MaxErrors
  /\ Extends(toServer, toServer', Acks(expected'))

LEMMA ProcessPacketType ==
  ASSUME NetworkTypeOK, RcopyTypeOK, NEW p \in Packets, NEW next,
         ProcessPacket(p, next)
  PROVE  ProcessedOK(next)
<1> USE DEF RcopyTypeOK
<1>0. p.seq \in Nat /\ p.data \in Nat
  BY DEF Packets
<1>1. ASSUME BufferPacket(p, next)
      PROVE  rWindow' \in Windows /\ rState' \in {next, "ABORT"}
  BY <1>1, AddPacketLemma DEF BufferPacket
<1>2. CASE WriteInOrder(p, next)
  <2>1. rWindow' \in Windows
    BY <1>2, RemovePacketLemma DEF WriteInOrder
  <2>2. written' \in Seq(Nat)
    BY <1>2, <1>0 DEF WriteInOrder
  <2>3. errors' \in 0 .. MaxErrors
        /\ Extends(toServer, toServer', Acks(expected'))
    BY <1>2, SendAckLemma DEF WriteInOrder
  <2> QED BY <1>2, <2>1, <2>2, <2>3 DEF WriteInOrder, ProcessedOK
<1>3. CASE EnterBuffering(p, next)
  <2>1. errors' \in 0 .. MaxErrors
        /\ Extends(toServer, toServer', Acks(expected'))
    BY <1>3, SendAckLemma DEF EnterBuffering
  <2> QED BY <1>0, <1>1, <1>3, <2>1 DEF EnterBuffering, ProcessedOK
<1>4. CASE AckLower(p, next)
  <2>1. errors' \in 0 .. MaxErrors
        /\ Extends(toServer, toServer', Acks(expected'))
    BY <1>4, SendAckLemma DEF AckLower, transferVars
  <2> QED BY <1>4, <2>1 DEF AckLower, transferVars, ProcessedOK
<1>5. CASE ReplaceAndFlush(p, next)
  <2> DEFINE w == ReplacePacket(rWindow, p)
  <2>1. w \in Windows
    BY ReplacePacketLemma
  <2> HIDE DEF w
  <2>2. PICK n \in InorderValidPackets(w) :
          /\ written' = written \o [k \in 1 .. n |-> InorderPackets(w, n)[k].data]
          /\ wroteLastData' = (wroteLastData \/
               \E k \in 1 .. n : InorderPackets(w, n)[k].flag = "EOF")
          /\ expected' = expected + n
          /\ rWindow' = IF n > 0 THEN RemovePacket(w, expected + n) ELSE w
          /\ buffering' = (expected + n < highest)
          /\ IF expected + n < highest
             THEN SendSREJAndRR(expected + n)
             ELSE SendRR(expected + n)
    BY <1>5 DEF ReplaceAndFlush, w
  <2>3. n \in Nat /\ expected + n \in Nat
    BY <2>1 DEF InorderValidPackets, Span, Windows
  <2>4. rWindow' \in Windows
    BY <2>1, <2>2, <2>3, RemovePacketLemma
  <2>5. written' \in Seq(Nat)
    <3>1. \A k \in 1 .. n : InorderPackets(w, n)[k].data \in Nat
      BY <2>1, <2>3, InorderPacketsType DEF Packets
    <3>2. [k \in 1 .. n |-> InorderPackets(w, n)[k].data] \in Seq(Nat)
      BY <3>1, <2>3
    <3> QED BY <3>2, <2>2, JoinLemma
  <2>6. errors' \in 0 .. MaxErrors
        /\ Extends(toServer, toServer', Acks(expected'))
    BY <2>2, <2>3, SendAckLemma
  <2>7. rState' = next /\ highest' = highest
    BY <1>5 DEF ReplaceAndFlush
  <2>8. wroteLastData' \in BOOLEAN /\ buffering' \in BOOLEAN
    BY <2>2
  <2> QED BY <2>2, <2>3, <2>4, <2>5, <2>6, <2>7, <2>8 DEF ProcessedOK
<1>6. CASE BufferHigher(p, next)
  <2>1. Extends(toServer, toServer', Acks(expected'))
    BY <1>6, ExtendsSame DEF BufferHigher, NetworkTypeOK
  <2> QED BY <1>0, <1>1, <1>6, <2>1
          DEF BufferHigher, ProcessedOK, NetworkTypeOK
<1>7. CASE AskAgain(next)
  <2>1. errors' \in 0 .. MaxErrors
        /\ Extends(toServer, toServer', Acks(expected'))
    BY <1>7, SendAckLemma DEF AskAgain, transferVars
  <2> QED BY <1>7, <2>1 DEF AskAgain, transferVars, ProcessedOK
<1> QED BY <1>2, <1>3, <1>4, <1>5, <1>6, <1>7
        DEF ProcessPacket, ProcessData, ProcessDataBuffering

LEMMA ArrivalsLemma ==
  ASSUME NEW s \in Seq(Packets), NEW reorder, NEW i \in Arrivals(s, reorder)
  PROVE  /\ i \in 1 .. Len(s) /\ s[i] \in Packets
         /\ RemoveAt(s, i) \in Seq(Packets)
BY RemoveAtLemma DEF Arrivals

LEMMA EmptySequence == \A S : <<>> \in Seq(S)
OBVIOUS

LEMMA InitType == Init => TypeInv
<1> SUFFICES ASSUME Init PROVE TypeInv
  OBVIOUS
<1> USE DEF Init, NetworkInit, RcopyInit, ServerInit
<1>1. NetworkTypeOK
  <2>1. toServer \in Seq(Packets) /\ toClient \in Seq(Packets)
    BY EmptySequence
  <2>2. toMain \in BOOLEAN
    BY Zenon
  <2> QED BY <2>1, <2>2, NetworkAssumption DEF NetworkTypeOK
<1>2. RcopyTypeOK
  <2>1. written \in Seq(Nat)
    BY EmptySequence
  <2>2. buffering \in BOOLEAN /\ wroteLastData \in BOOLEAN
    BY Zenon
  <2> QED BY <2>1, <2>2, NewWindowType, TimeoutAssumption
          DEF RcopyTypeOK, RcopyStates, SEQ_NUM_START
<1>3. ServerTypeOK
  BY NewWindowType, TimeoutAssumption
     DEF ServerTypeOK, ServerStates, SEQ_NUM_START
<1> QED BY <1>1, <1>2, <1>3, TimingAssumption, TimeoutAssumption
        DEF TypeInv, TypeOK, TimeoutsLeft, ServerSending, RcopyEnded

LEMMA RcopyType ==
  ASSUME TypeInv, RcopyReceives \/ RcopySends \/ RcopyTimesOut
  PROVE  /\ NetworkTypeOK' /\ RcopyTypeOK'
         /\ (~RcopyEnded => rTimeout < TIMEOUT_MAX)'
<1> USE TimeoutAssumption DEF TypeInv, TypeOK, RcopyTypeOK, NetworkTypeOK,
        RcopyStates, RcopyEnded, transferVars, networkVars, TimeoutsLeft
<1>1. CASE WaitForFileNameAck
  <2>1. PICK i \in Arrivals(toClient, DataReorder) :
           /\ toClient' = RemoveAt(toClient, i)
           /\ rState' \in {"SEND_FILENAME_TIMEOUT", "KILL", "RECEIVE_FIRST_DATA"}
           /\ highest' \in {highest, highest + 1}
    BY <1>1 DEF WaitForFileNameAck
  <2>2. toClient' \in Seq(Packets)
    <3>1. RemoveAt(toClient, i) \in Seq(Packets)
      BY ArrivalsLemma
    <3> QED BY <2>1, <3>1
  <2>3. UNCHANGED <<toMain, toServer, errors, rTimeout, transferVars>>
        /\ ~RcopyEnded
    BY <1>1 DEF WaitForFileNameAck
  <2>4. highest' \in Nat
    BY <2>1
  <2> HIDE DEF RcopyStates
  <2>5. rState' \in RcopyStates
    BY <2>1 DEF RcopyStates
  <2> QED BY <2>2, <2>3, <2>4, <2>5
<1>2. CASE RecvData
  <2> DEFINE good(p) == IsValidPacket(p) /\ p.flag \in DataFlags
             next(p) == IF p.flag = "EOF" THEN "LAST_DATA" ELSE "RECEIVE_DATA"
  <2>1. PICK i \in Arrivals(toClient, DataReorder) :
          /\ toClient' = RemoveAt(toClient, i)
          /\ \/ /\ good(toClient[i])
                /\ ProcessPacket(toClient[i], next(toClient[i]))
                /\ rTimeout' = IF toClient[i].flag = "EOF" THEN 0 ELSE rTimeout
             \/ /\ ~good(toClient[i])
                /\ rState' = "RECEIVE_DATA"
                /\ UNCHANGED <<toServer, errors, rTimeout, highest, transferVars>>
    BY <1>2 DEF RecvData
  <2>2. toClient' \in Seq(Packets) /\ toClient[i] \in Packets
    BY <2>1, ArrivalsLemma
  <2>3. toMain' = toMain /\ ~RcopyEnded
    BY <1>2 DEF RecvData
  <2>4. CASE good(toClient[i])
    <3> DEFINE p == toClient[i]
    <3>1. ProcessedOK(next(p))
      BY <2>1, <2>2, <2>4, ProcessPacketType
    <3>2. rTimeout' \in {0, rTimeout}
      BY <2>1, <2>4
    <3> QED BY <2>2, <2>3, <3>1, <3>2 DEF ProcessedOK, Extends
  <2>5. CASE ~good(toClient[i])
    BY <2>1, <2>2, <2>3, <2>5
  <2> QED BY <2>4, <2>5
<1>3. CASE RecvLastData
  <2>1. PICK i \in Arrivals(toClient, DataReorder) :
          /\ toClient' = RemoveAt(toClient, i)
          /\ \/ /\ ~IsValidPacket(toClient[i])
                /\ SendSREJ(toClient[i].seq)
                /\ UNCHANGED <<rState, highest, transferVars>>
             \/ ProcessPacket(toClient[i], "LAST_DATA")
             \/ UNCHANGED <<toServer, errors, rState, highest, transferVars>>
    BY <1>3 DEF RecvLastData
  <2>2. toClient' \in Seq(Packets) /\ toClient[i] \in Packets
    BY <2>1, ArrivalsLemma
  <2>3. toMain' = toMain /\ rState = "LAST_DATA" /\ rTimeout' = 0
    BY <1>3 DEF RecvLastData
  <2>4. CASE SendSREJ(toClient[i].seq) /\ UNCHANGED <<rState, highest, transferVars>>
    <3>1. toClient[i].seq \in Nat
      BY <2>2 DEF Packets
    <3>2. errors' \in 0 .. MaxErrors /\ toServer' \in Seq(Packets)
      BY <2>4, <3>1, SendAckLemma DEF Extends
    <3> QED BY <2>2, <2>3, <2>4, <3>2
  <2>5. CASE ProcessPacket(toClient[i], "LAST_DATA")
    <3>1. ProcessedOK("LAST_DATA")
      BY <2>2, <2>5, ProcessPacketType
    <3> QED BY <2>2, <2>3, <3>1 DEF ProcessedOK, Extends
  <2>6. CASE UNCHANGED <<toServer, errors, rState, highest, transferVars>>
    BY <2>2, <2>3, <2>6
  <2> QED BY <2>1, <2>4, <2>5, <2>6
<1>4. CASE SendFileName
  <2>1. PICK arrives \in {TRUE} \cup (IF DropOn \/ FlipOn THEN {FALSE} ELSE {}) :
          Spend(IF arrives THEN 0 ELSE 1) /\ toMain' = arrives
    BY <1>4 DEF SendFileName, SendFileNameTo
  <2>2. toMain' \in BOOLEAN
    BY <2>1, Zenon
  <2>3. (IF arrives THEN 0 ELSE 1) \in Nat
    OBVIOUS
  <2>4. errors' \in 0 .. MaxErrors
    BY <2>1, <2>3, SpendLemma
  <2>5. /\ UNCHANGED <<toServer, toClient, rTimeout, highest, transferVars>>
        /\ rState = "SEND_FILENAME" /\ rState' = "WAIT_FOR_FILENAME_ACK"
    BY <1>4 DEF SendFileName
  <2> QED BY <2>2, <2>4, <2>5
<1>5. CASE SendFileNameTimeout
  <2>1. toServer' \in Seq(Packets) /\ toClient' \in Seq(Packets)
    BY <1>5, EmptySequence DEF SendFileNameTimeout, NewSocket
  <2>2. toMain' \in BOOLEAN
    BY <1>5, Zenon DEF SendFileNameTimeout, NewSocket
  <2> QED BY <1>5, <2>1, <2>2 DEF SendFileNameTimeout, LoopHead
<1>6. CASE SendEofAck
  <2>1. Reflag(BuildRrPacket(expected), "EOF_ACK") \in Packets
    BY BuildTypes
  <2>2. SendTo(toServer, Reflag(BuildRrPacket(expected), "EOF_ACK"), toServer')
    BY <1>6 DEF SendEofAck, SendAck
  <2>3. errors' \in 0 .. MaxErrors /\ toServer' \in Seq(Packets)
    BY <2>1, <2>2, SendToLemma DEF Extends
  <2>4. /\ UNCHANGED <<toMain, toClient, rTimeout, highest, transferVars>>
        /\ rState' = "KILL"
    BY <1>6 DEF SendEofAck
  <2> QED BY <2>3, <2>4
<1>7. CASE RcopyTimesOut
  BY <1>7 DEF RcopyTimesOut, FileNameAckTimeout, FirstDataTimeout,
              RecvDataTimeout, LastDataTimeout, LoopHead
<1> QED BY <1>1, <1>2, <1>3, <1>4, <1>5, <1>6, <1>7
        DEF RcopyReceives, RcopySends

\* What answering with a slot's content leaves in the channel to rcopy.
LEMMA SendElementLemma ==
  ASSUME NetworkTypeOK, NEW e \in Elements, NEW flag \in DataFlags, NEW next,
         SendElement(e, flag, next)
  PROVE  /\ errors' \in 0 .. MaxErrors
         /\ Extends(toClient, toClient',
                    IF e.dataSize = 0 THEN {} ELSE {Reflag(e.packet, flag)})
         /\ sState' \in {next, "CRASH"}
<1>1. CASE e.dataSize = 0
  BY <1>1, ExtendsSame DEF SendElement, NetworkTypeOK
<1>2. CASE e.dataSize # 0
  <2>1. Reflag(e.packet, flag) \in Packets
    BY BuildTypes DEF Elements
  <2>2. SendTo(toClient, Reflag(e.packet, flag), toClient') /\ sState' = next
    BY <1>2 DEF SendElement, SendToClient
  <2> QED BY <1>2, <2>1, <2>2, SendToLemma DEF NetworkTypeOK
<1> QED BY <1>1, <1>2

LEMMA ProcessRrSrejType ==
  ASSUME NetworkTypeOK, ServerTypeOK, NEW p \in Packets, NEW next,
         ProcessRrSrej(p, next)
  PROVE  /\ sWindow' \in Windows
         /\ toClient' \in Seq(Packets)
         /\ errors' \in 0 .. MaxErrors
         /\ sState' \in {next, "CRASH"}
<1>0. p.seq \in Nat
  BY DEF Packets
<1>1. CASE sWindow' = RemovePacket(sWindow, p.seq) /\ sState' = next
           /\ UNCHANGED <<toClient, errors>>
  BY <1>0, <1>1, RemovePacketLemma DEF NetworkTypeOK, ServerTypeOK
<1>2. CASE /\ UNCHANGED sWindow
           /\ LET e == GetPacket(sWindow, p.seq)
              IN SendElement(e, ResendFlag(e, "SREJ_DATA"), next)
  <2> DEFINE e == GetPacket(sWindow, p.seq)
  <2>1. e \in Elements
    BY <1>0, GetPacketType DEF ServerTypeOK
  <2>2. ResendFlag(e, "SREJ_DATA") \in DataFlags
    BY DEF ResendFlag, DataFlags
  <2>3. SendElement(e, ResendFlag(e, "SREJ_DATA"), next)
    BY <1>2
  <2> HIDE DEF e
  <2> QED BY <1>2, <2>1, <2>2, <2>3, SendElementLemma DEF Extends, ServerTypeOK
<1>3. CASE UNCHANGED <<sWindow, toClient, errors>> /\ sState' = next
  BY <1>3 DEF NetworkTypeOK, ServerTypeOK
<1> QED BY <1>1, <1>2, <1>3 DEF ProcessRrSrej

LEMMA ServerType ==
  ASSUME TypeInv, ServerReceives \/ ServerSends \/ ServerTimesOut
  PROVE  /\ NetworkTypeOK' /\ ServerTypeOK'
         /\ (ServerSending => sTimeout <= TIMEOUT_MAX)'
         /\ (sState = "LAST_DATA" => sTimeout < TIMEOUT_MAX)'
<1> USE TimeoutAssumption DEF TypeInv, TypeOK, ServerTypeOK, NetworkTypeOK,
        ServerStates, ServerSending, networkVars, TimeoutsLeft
<1>1. CASE ServerReceives
  <2>1. PICK i \in Arrivals(toServer, AckReorder) :
          /\ toServer' = RemoveAt(toServer, i)
          /\ ProcessRrSrej(toServer[i],
               IF sState = "DRAIN" THEN "DRAIN"
               ELSE IF sState = "CLOSED"
               THEN (IF IsWindowOpen(sWindow') THEN "OPEN" ELSE "CLOSED")
               ELSE (IF IsValidPacket(toServer[i]) /\ toServer[i].flag = "EOF_ACK"
                     THEN "DONE" ELSE "LAST_DATA"))
    BY <1>1 DEF ServerReceives, DrainRrSrej, ClosedRrSrej, LastDataRrSrej
  <2>2. /\ UNCHANGED <<toMain, seqNum, filePos>>
        /\ sState \in {"DRAIN", "CLOSED", "LAST_DATA"}
        /\ sTimeout' \in {0, sTimeout}
        /\ sState \in {"DRAIN", "LAST_DATA"} => sTimeout' = sTimeout
    BY <1>1 DEF ServerReceives, DrainRrSrej, ClosedRrSrej, LastDataRrSrej
  <2>3. toServer[i] \in Packets /\ toServer' \in Seq(Packets)
    BY <2>1, ArrivalsLemma
  <2>4. /\ sWindow' \in Windows /\ toClient' \in Seq(Packets)
        /\ errors' \in 0 .. MaxErrors
        /\ sState' \in (IF sState = "LAST_DATA" THEN {"DONE", "LAST_DATA", "CRASH"}
                        ELSE {"DRAIN", "OPEN", "CLOSED", "CRASH"})
    BY <2>1, <2>2, <2>3, ProcessRrSrejType
  <2> QED BY <2>2, <2>3, <2>4
<1>2. CASE ProcessFileName
  <2>1. PICK goodFile \in FopenResults :
          /\ SendToClient(BuildFileNameRespPacket(goodFile))
          /\ sState' = IF goodFile THEN "OPEN" ELSE "KILL"
    BY <1>2 DEF ProcessFileName
  <2>2. BuildFileNameRespPacket(goodFile) \in Packets
    BY BuildTypes, ServerAssumption
  <2>3. errors' \in 0 .. MaxErrors /\ toClient' \in Seq(Packets)
    BY <2>1, <2>2, SendToLemma DEF SendToClient, Extends
  <2>4. toMain' \in BOOLEAN
    BY <1>2, Zenon DEF ProcessFileName
  <2>5. ServerReset /\ toServer' = toServer
    BY <1>2 DEF ProcessFileName
  <2> QED BY <2>1, <2>3, <2>4, <2>5, NewWindowType DEF ServerReset, SEQ_NUM_START
<1>3. CASE ReadFromDiskAndSend
  <2> DEFINE atEof == filePos + 1 = NumChunks
             p == Reflag(BuildDataPacket(seqNum, filePos + 1),
                         IF atEof THEN "EOF" ELSE "DATA")
  <2>1. p \in Packets
    <3>1. BuildDataPacket(seqNum, filePos + 1) \in Packets
      BY BuildTypes
    <3>2. (IF atEof THEN "EOF" ELSE "DATA") \in DataFlags
      BY DEF DataFlags
    <3> QED BY <3>1, <3>2, BuildTypes
  <2>2. SendTo(toClient, p, toClient') /\ sWindow' = AddPacket(sWindow, p)
    BY <1>3 DEF ReadFromDiskAndSend, SendToClient
  <2>3. sState' \in {"DRAIN", "LAST_DATA"}
    BY <1>3 DEF ReadFromDiskAndSend
  <2>4. /\ sTimeout' = 0 /\ seqNum' = seqNum + 1 /\ filePos' = filePos + 1
        /\ UNCHANGED <<toMain, toServer>>
    BY <1>3 DEF ReadFromDiskAndSend
  <2> HIDE DEF p
  <2>5. errors' \in 0 .. MaxErrors /\ toClient' \in Seq(Packets)
    BY <2>1, <2>2, SendToLemma DEF Extends
  <2>6. sWindow' \in Windows
    BY <2>1, <2>2, AddPacketLemma
  <2> QED BY <2>3, <2>4, <2>5, <2>6
<1>4. CASE WindowClosed
  BY <1>4 DEF WindowClosed
<1>5. CASE ServerTimesOut
  <2> DEFINE e == GetLowestPacket(sWindow)
             lastState ==
               IF sState = "CLOSED"
               THEN IF sTimeout + 1 > TIMEOUT_MAX THEN "KILL" ELSE "CLOSED"
               ELSE IF sTimeout + 1 >= TIMEOUT_MAX THEN "KILL" ELSE "LAST_DATA"
  <2>1. e \in Elements
    BY GetPacketType DEF GetLowestPacket, Windows
  <2>2. PICK flag \in DataFlags : SendElement(e, flag, lastState)
    BY <1>5 DEF ServerTimesOut, ClosedTimeout, LastDataResend, ResendFlag, DataFlags
  <2>3. /\ sTimeout' = sTimeout + 1
        /\ UNCHANGED <<toMain, toServer, sWindow, seqNum, filePos>>
        /\ sState \in {"CLOSED", "LAST_DATA"}
    BY <1>5 DEF ServerTimesOut, ClosedTimeout, LastDataResend
  <2> HIDE DEF e
  <2>4. /\ errors' \in 0 .. MaxErrors /\ toClient' \in Seq(Packets)
        /\ sState' \in {lastState, "CRASH"}
    BY <2>1, <2>2, SendElementLemma DEF Extends
  <2> QED BY <2>3, <2>4
<1> QED BY <1>1, <1>2, <1>3, <1>4, <1>5 DEF ServerSends

LEMMA TypeInvariant == TypeInv /\ [Next]_vars => TypeInv'
<1> SUFFICES ASSUME TypeInv, [Next]_vars PROVE TypeInv'
  OBVIOUS
<1>1. CASE RcopyNext
  <2>1. /\ NetworkTypeOK' /\ RcopyTypeOK'
        /\ (~RcopyEnded => rTimeout < TIMEOUT_MAX)'
    BY <1>1, RcopyType DEF RcopyNext
  <2>2. idle' \in 0 .. PollRatio
    BY <1>1, TimingAssumption DEF RcopyNext, RestartIdle
  <2>3. CASE UNCHANGED serverVars
    BY <2>1, <2>2, <2>3
       DEF serverVars, TypeInv, TypeOK, TimeoutsLeft, ServerTypeOK, ServerSending
  <2>4. CASE sState' = "NONE" /\ ServerReset
    BY <2>1, <2>2, <2>4, NewWindowType, TimeoutAssumption
       DEF ServerReset, TypeInv, TypeOK, TimeoutsLeft, ServerTypeOK,
           ServerSending, ServerStates, SEQ_NUM_START
  <2> QED BY <1>1, <2>3, <2>4 DEF RcopyNext
<1>2. CASE ServerNext
  <2>1. /\ NetworkTypeOK' /\ ServerTypeOK'
        /\ (ServerSending => sTimeout <= TIMEOUT_MAX)'
        /\ (sState = "LAST_DATA" => sTimeout < TIMEOUT_MAX)'
    BY <1>2, ServerType DEF ServerNext
  <2>2. idle' \in 0 .. PollRatio
    BY <1>2, TimingAssumption DEF ServerNext, CountIdle, TypeInv, TypeOK
  <2>3. UNCHANGED rcopyVars
    BY <1>2 DEF ServerNext
  <2> QED BY <2>1, <2>2, <2>3
          DEF rcopyVars, TypeInv, TypeOK, TimeoutsLeft, RcopyTypeOK, RcopyEnded
<1>3. CASE UNCHANGED vars
  BY <1>3 DEF vars, networkVars, rcopyVars, serverVars, TypeInv, TypeOK,
    NetworkTypeOK, RcopyTypeOK, ServerTypeOK, TimeoutsLeft, RcopyEnded,
    ServerSending
<1> QED BY <1>1, <1>2, <1>3 DEF Next, Terminated

\* Every variable keeps its type, and the counters their bounds.
THEOREM TypeCorrect == Spec => []TypeOK
<1>1. Init => TypeInv
  BY InitType
<1>2. TypeInv /\ [Next]_vars => TypeInv'
  BY TypeInvariant
<1>3. TypeInv => TypeOK
  BY DEF TypeInv
<1> QED BY <1>1, <1>2, <1>3, PTL DEF Spec
=============================================================================
