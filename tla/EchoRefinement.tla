--------------------------- MODULE EchoRefinement ---------------------------
(***************************************************************************)
(* Proof that p2 implements EchoService, for any number of clients, any    *)
(* sizes of messages and buffers, and all faults.                          *)
(***************************************************************************)
EXTENDS EchoProofs

(***************************************************************************)
(* What the units on p2's connections are: stretches of the PDUs that a    *)
(* client sends one after the other.  A stretch stays one when a unit is   *)
(* appended, when a part is taken, and when a receiver takes a payload or  *)
(* a part of it.                                                           *)
(***************************************************************************)

\* <<m, k>>: the next unit is the k-th of message m's payload, or its length if k = 0.
Marks == {p \in (Nat \ {0}) \X Nat : p[2] <= PayloadLen(p[1])}
UnitAt(c, p) ==
  IF p[2] = 0 THEN Header(c, PayloadLen(p[1])) ELSE Payload(c, p[1])[p[2]]
After(p) == IF p[2] < PayloadLen(p[1]) THEN <<p[1], p[2] + 1>> ELSE <<p[1] + 1, 0>>
NotAfter(p, e) == p[1] < e[1] \/ (p[1] = e[1] /\ p[2] <= e[2])

\* q holds what c sends from mark p up to mark e: at tells each unit's mark.
Marked(c, q, p, e, at) ==
  /\ at \in [1 .. Len(q) + 1 -> Marks]
  /\ at[1] = p /\ at[Len(q) + 1] = e
  /\ \A i \in 1 .. Len(q) : q[i] = UnitAt(c, at[i]) /\ at[i + 1] = After(at[i])
  /\ \A i, j \in 1 .. Len(q) + 1 : i <= j => NotAfter(at[i], at[j])
Stretch(c, q, p, e) == \E at : Marked(c, q, p, e, at)

LEMMA MarkType ==
  ASSUME NEW p \in Marks
  PROVE  /\ p[1] \in Nat \ {0} /\ p[2] \in Nat /\ p = <<p[1], p[2]>>
         /\ PayloadLen(p[1]) \in Nat \ {0} /\ p[2] <= PayloadLen(p[1])
<1>1. p[1] \in Nat \ {0} /\ p[2] \in Nat /\ p = <<p[1], p[2]>> /\ p[2] <= PayloadLen(p[1])
  BY DEF Marks
<1> QED BY <1>1, PayloadLenType

LEMMA MarkIntro ==
  ASSUME NEW m \in Nat \ {0}, NEW k \in Nat, k <= PayloadLen(m)
  PROVE  <<m, k>> \in Marks
BY DEF Marks

LEMMA AfterType ==
  ASSUME NEW p \in Marks
  PROVE  After(p) \in Marks /\ NotAfter(p, After(p))
<1>1. /\ p[1] \in Nat \ {0} /\ p[2] \in Nat
      /\ PayloadLen(p[1]) \in Nat \ {0} /\ p[2] <= PayloadLen(p[1])
      /\ PayloadLen(p[1] + 1) \in Nat \ {0}
  BY MarkType, PayloadLenType
<1>2. CASE p[2] < PayloadLen(p[1])
  <2>1. p[2] + 1 \in Nat /\ p[2] + 1 <= PayloadLen(p[1])
    BY <1>1, <1>2
  <2>2. After(p) = <<p[1], p[2] + 1>>
    BY <1>2 DEF After
  <2> QED BY <1>1, <2>1, <2>2, MarkIntro DEF NotAfter
<1>3. CASE ~(p[2] < PayloadLen(p[1]))
  <2>1. After(p) = <<p[1] + 1, 0>>
    BY <1>3 DEF After
  <2>2. p[1] + 1 \in Nat \ {0} /\ 0 \in Nat /\ 0 <= PayloadLen(p[1] + 1)
    BY <1>1
  <2> QED BY <1>1, <2>1, <2>2, MarkIntro DEF NotAfter
<1> QED BY <1>2, <1>3

LEMMA NotAfterOrder ==
  ASSUME NEW p \in Marks, NEW q \in Marks, NEW e \in Marks
  PROVE  /\ NotAfter(p, p)
         /\ NotAfter(p, q) /\ NotAfter(q, e) => NotAfter(p, e)
BY MarkType DEF NotAfter

LEMMA StretchEnds ==
  ASSUME NEW c, NEW q \in Seq(Units), NEW p, NEW e, Stretch(c, q, p, e)
  PROVE  /\ p \in Marks /\ e \in Marks /\ NotAfter(p, e)
         /\ q = <<>> => p = e
<1>1. PICK at : Marked(c, q, p, e, at)
  BY DEF Stretch
<1>2. Len(q) \in Nat /\ (q = <<>> => Len(q) = 0)
  OBVIOUS
<1>3. 1 \in 1 .. Len(q) + 1 /\ Len(q) + 1 \in 1 .. Len(q) + 1 /\ 1 <= Len(q) + 1
  BY <1>2
<1> QED BY <1>1, <1>2, <1>3 DEF Marked

LEMMA StretchEmpty ==
  ASSUME NEW c, NEW p \in Marks PROVE Stretch(c, <<>>, p, p)
<1> DEFINE at == [i \in 1 .. 1 |-> p]
<1>1. Len(<<>>) = 0 /\ 1 .. 0 + 1 = 1 .. 1 /\ 1 .. 0 = {}
  OBVIOUS
<1>2. Marked(c, <<>>, p, p, at)
  BY <1>1, NotAfterOrder DEF Marked
<1> QED BY <1>2 DEF Stretch

LEMMA StretchAppend ==
  ASSUME NEW c, NEW q \in Seq(Units), NEW p, NEW e, Stretch(c, q, p, e),
         UnitAt(c, e) \in Units
  PROVE  Stretch(c, Append(q, UnitAt(c, e)), p, After(e))
<1>1. PICK at : Marked(c, q, p, e, at)
  BY DEF Stretch
<1> DEFINE n == Len(q)
           r == Append(q, UnitAt(c, e))
           to == [i \in 1 .. n + 2 |-> IF i <= n + 1 THEN at[i] ELSE After(e)]
<1>2. /\ n \in Nat /\ Len(r) = n + 1 /\ r[n + 1] = UnitAt(c, e)
      /\ \A i \in 1 .. n : r[i] = q[i]
  BY AppendProperties
<1>3. e \in Marks /\ After(e) \in Marks /\ NotAfter(e, After(e))
  BY StretchEnds, AfterType
<1> HIDE DEF n, r
<1>4. /\ at \in [1 .. n + 1 -> Marks] /\ at[1] = p /\ at[n + 1] = e
      /\ \A i \in 1 .. n : q[i] = UnitAt(c, at[i]) /\ at[i + 1] = After(at[i])
      /\ \A i, j \in 1 .. n + 1 : i <= j => NotAfter(at[i], at[j])
  BY <1>1 DEF Marked, n
<1>5. /\ to \in [1 .. n + 2 -> Marks] /\ to[1] = p /\ to[n + 2] = After(e)
      /\ \A i \in 1 .. n + 1 : to[i] = at[i]
  BY <1>2, <1>3, <1>4
<1>6. \A i \in 1 .. n + 1 : r[i] = UnitAt(c, to[i]) /\ to[i + 1] = After(to[i])
  <2> SUFFICES ASSUME NEW i \in 1 .. n + 1
               PROVE  r[i] = UnitAt(c, to[i]) /\ to[i + 1] = After(to[i])
    OBVIOUS
  <2>1. CASE i \in 1 .. n
    <3>1. i + 1 \in 1 .. n + 1
      BY <1>2, <2>1
    <3> QED BY <1>2, <1>4, <1>5, <2>1, <3>1
  <2>2. CASE i = n + 1
    <3>1. i + 1 = n + 2
      BY <1>2, <2>2
    <3> QED BY <1>2, <1>4, <1>5, <2>2, <3>1
  <2> QED BY <1>2, <2>1, <2>2
<1>7. \A i, j \in 1 .. n + 2 : i <= j => NotAfter(to[i], to[j])
  <2> SUFFICES ASSUME NEW i \in 1 .. n + 2, NEW j \in 1 .. n + 2, i <= j
               PROVE  NotAfter(to[i], to[j])
    OBVIOUS
  <2>1. CASE j \in 1 .. n + 1
    <3>1. i \in 1 .. n + 1
      BY <1>2, <2>1
    <3> QED BY <1>4, <1>5, <2>1, <3>1
  <2>2. CASE j = n + 2 /\ i \in 1 .. n + 1
    <3>1. n + 1 \in 1 .. n + 1 /\ i <= n + 1
      BY <1>2, <2>2
    <3>2. NotAfter(at[i], e) /\ at[i] \in Marks
      BY <1>4, <2>2, <3>1
    <3>3. NotAfter(at[i], After(e))
      BY <1>3, <3>2, NotAfterOrder
    <3> QED BY <1>5, <2>2, <3>3
  <2>3. CASE j = n + 2 /\ i = n + 2
    BY <1>3, <1>5, <2>3, NotAfterOrder
  <2> QED BY <1>2, <2>1, <2>2, <2>3
<1> HIDE DEF to
<1>8. n + 1 + 1 = n + 2
  BY <1>2
<1>9. Marked(c, r, p, After(e), to)
  BY <1>2, <1>5, <1>6, <1>7, <1>8 DEF Marked
<1> QED BY <1>9 DEF Stretch, r

\* A part of a stretch is one.
LEMMA StretchPart ==
  ASSUME NEW c, NEW q \in Seq(Units), NEW p, NEW e, NEW at, Marked(c, q, p, e, at),
         NEW i \in 0 .. Len(q), NEW j \in i .. Len(q),
         NEW r \in Seq(Units), Len(r) = j - i, \A x \in 1 .. j - i : r[x] = q[x + i]
  PROVE  Stretch(c, r, at[i + 1], at[j + 1])
<1> DEFINE n == j - i
           to == [x \in 1 .. n + 1 |-> at[x + i]]
<1>1. Len(q) \in Nat /\ i \in Nat /\ j \in Nat /\ n \in Nat /\ Len(r) = n
  OBVIOUS
<1>2. \A x \in 1 .. n + 1 : x + i \in 1 .. Len(q) + 1
  BY <1>1
<1>3. \A x \in 1 .. n : x + i \in 1 .. Len(q) /\ x + i + 1 = (x + 1) + i /\ x + 1 \in 1 .. n + 1
                        /\ x \in 1 .. n + 1
  BY <1>1
<1>4. 1 + i = i + 1 /\ n + 1 + i = j + 1 /\ 1 \in 1 .. n + 1 /\ n + 1 \in 1 .. n + 1
  BY <1>1
<1>5. \A x, y \in 1 .. n + 1 : x <= y => x + i <= y + i
  BY <1>1
<1> HIDE DEF n
<1>6. to \in [1 .. n + 1 -> Marks]
  BY <1>2 DEF Marked
<1>7. to[1] = at[i + 1] /\ to[n + 1] = at[j + 1]
  BY <1>4
<1>8. \A x \in 1 .. n : r[x] = UnitAt(c, to[x]) /\ to[x + 1] = After(to[x])
  BY <1>3 DEF Marked, n
<1>9. \A x, y \in 1 .. n + 1 : x <= y => NotAfter(to[x], to[y])
  BY <1>2, <1>5 DEF Marked
<1>10. Marked(c, r, at[i + 1], at[j + 1], to)
  <2> HIDE DEF to
  <2> QED BY <1>1, <1>6, <1>7, <1>8, <1>9 DEF Marked
<1> QED BY <1>10 DEF Stretch

LEMMA StretchPrefix ==
  ASSUME NEW c, NEW q \in Seq(Units), NEW p, NEW e, Stretch(c, q, p, e),
         NEW k \in 0 .. Len(q)
  PROVE  /\ SubSeq(q, 1, k) \in Seq(Units)
         /\ \E f : Stretch(c, SubSeq(q, 1, k), p, f) /\ NotAfter(f, e)
<1>1. PICK at : Marked(c, q, p, e, at)
  BY DEF Stretch
<1>2. Len(q) \in Nat /\ k \in Nat /\ \A i \in 1 .. k : q[i] \in Units
  OBVIOUS
<1>3. /\ SubSeq(q, 1, k) \in Seq(Units)
      /\ Len(SubSeq(q, 1, k)) = IF 1 <= k THEN k - 1 + 1 ELSE 0
      /\ \A i \in 1 .. k - 1 + 1 : SubSeq(q, 1, k)[i] = q[1 + i - 1]
  BY <1>2, SubSeqProperties
<1>4. /\ Len(SubSeq(q, 1, k)) = k - 0 /\ 0 \in 0 .. Len(q) /\ k \in 0 .. Len(q)
      /\ \A i \in 1 .. k - 0 : SubSeq(q, 1, k)[i] = q[i + 0]
  BY <1>2, <1>3
<1>5. Stretch(c, SubSeq(q, 1, k), at[0 + 1], at[k + 1])
  BY <1>1, <1>3, <1>4, StretchPart
<1>6. at[0 + 1] = p /\ NotAfter(at[k + 1], e)
  <2>1. k + 1 \in 1 .. Len(q) + 1 /\ Len(q) + 1 \in 1 .. Len(q) + 1 /\ k + 1 <= Len(q) + 1
    BY <1>2
  <2> QED BY <1>1, <2>1 DEF Marked
<1> QED BY <1>3, <1>5, <1>6

\* What recv takes from a stretch's head leaves a stretch.
LEMMA StretchTail ==
  ASSUME NEW c, NEW q \in Seq(Units), NEW p, NEW e, Stretch(c, q, p, e), q # <<>>
  PROVE  /\ Head(q) = UnitAt(c, p) /\ Tail(q) \in Seq(Units)
         /\ Stretch(c, Tail(q), After(p), e)
<1>1. PICK at : Marked(c, q, p, e, at)
  BY DEF Stretch
<1>2. /\ Len(q) \in Nat \ {0} /\ Head(q) = q[1]
      /\ Tail(q) \in Seq(Units) /\ Len(Tail(q)) = Len(q) - 1
      /\ \A i \in 1 .. Len(q) - 1 : Tail(q)[i] = q[i + 1]
  BY HeadTailProperties, LenProperties, EmptySeq
<1>3. /\ 1 \in 1 .. Len(q) /\ 1 \in 0 .. Len(q) /\ Len(q) \in 1 .. Len(q)
  BY <1>2
<1>4. Stretch(c, Tail(q), at[1 + 1], at[Len(q) + 1])
  BY <1>1, <1>2, <1>3, StretchPart
<1>5. at[1] = p /\ at[Len(q) + 1] = e /\ q[1] = UnitAt(c, at[1]) /\ at[1 + 1] = After(at[1])
  BY <1>1, <1>3 DEF Marked
<1> QED BY <1>2, <1>4, <1>5

LEMMA UnitAtType ==
  ASSUME NEW c \in Clients, NEW p \in Marks PROVE UnitAt(c, p) \in Units
<1>1. /\ p[1] \in Nat \ {0} /\ p[2] \in Nat
      /\ PayloadLen(p[1]) \in Nat \ {0} /\ p[2] <= PayloadLen(p[1])
  BY MarkType
<1>2. CASE p[2] = 0
  BY <1>1, <1>2 DEF UnitAt, Header, Units
<1>3. CASE p[2] # 0
  <2>1. p[2] \in 1 .. PayloadLen(p[1])
    BY <1>1, <1>3
  <2>2. Payload(c, p[1])[p[2]] = [of |-> c, msg |-> p[1], part |-> p[2], len |-> 0]
    BY <1>1, <2>1, PayloadType
  <2> QED BY <1>1, <1>3, <2>2 DEF UnitAt, Units
<1> QED BY <1>2, <1>3

\* A PDU is the stretch of its message.
LEMMA PduStretch ==
  ASSUME NEW c \in Clients, NEW m \in Nat \ {0}
  PROVE  Stretch(c, Pdu(c, Payload(c, m)), <<m, 0>>, <<m + 1, 0>>)
<1> DEFINE n == PayloadLen(m)
           q == Pdu(c, Payload(c, m))
           at == [i \in 1 .. n + 2 |-> IF i <= n + 1 THEN <<m, i - 1>> ELSE <<m + 1, 0>>]
<1>1. n \in Nat \ {0} /\ PayloadLen(m + 1) \in Nat \ {0}
  BY PayloadLenType
<1>2. /\ Payload(c, m) \in Seq(Units) /\ Len(Payload(c, m)) = n
  BY PayloadType
<1>3. /\ q \in Seq(Units) /\ Len(q) = n + 1 /\ q[1] = Header(c, n)
      /\ \A i \in 1 .. n : q[i + 1] = Payload(c, m)[i]
  BY <1>2, PduType
<1> HIDE DEF n, q
<1>4. /\ \A i \in 1 .. n + 1 : at[i] = <<m, i - 1>>
      /\ at[n + 2] = <<m + 1, 0>>
  BY <1>1
<1>5. \A i \in 1 .. n + 1 : <<m, i - 1>> \in Marks
  <2> SUFFICES ASSUME NEW i \in 1 .. n + 1 PROVE <<m, i - 1>> \in Marks
    OBVIOUS
  <2>1. i - 1 \in Nat /\ i - 1 <= PayloadLen(m)
    BY <1>1 DEF n
  <2> QED BY <2>1, MarkIntro
<1>6. <<m + 1, 0>> \in Marks
  BY <1>1, MarkIntro
<1>7. at \in [1 .. n + 2 -> Marks]
  BY <1>1, <1>5, <1>6
<1> HIDE DEF at
<1>8. \A i \in 1 .. n + 1 : q[i] = UnitAt(c, at[i])
  <2> SUFFICES ASSUME NEW i \in 1 .. n + 1 PROVE q[i] = UnitAt(c, at[i])
    OBVIOUS
  <2>1. CASE i = 1
    <3>1. at[i] = <<m, 0>>
      BY <1>1, <1>4, <2>1
    <3> QED BY <1>3, <2>1, <3>1 DEF UnitAt, n
  <2>2. CASE i # 1
    <3>1. i - 1 \in 1 .. n /\ i - 1 # 0 /\ i = (i - 1) + 1
      BY <1>1, <2>2
    <3>2. q[i] = Payload(c, m)[i - 1]
      BY <1>3, <3>1
    <3> QED BY <1>4, <3>1, <3>2 DEF UnitAt
  <2> QED BY <2>1, <2>2
<1>9. \A i \in 1 .. n + 1 : at[i + 1] = After(at[i])
  <2> SUFFICES ASSUME NEW i \in 1 .. n + 1 PROVE at[i + 1] = After(at[i])
    OBVIOUS
  <2>1. at[i] = <<m, i - 1>>
    BY <1>4
  <2>2. CASE i <= n
    <3>1. i + 1 \in 1 .. n + 1 /\ i + 1 - 1 = (i - 1) + 1 /\ i - 1 < n
      BY <1>1, <2>2
    <3> QED BY <1>4, <2>1, <3>1 DEF After, n
  <2>3. CASE i = n + 1
    <3>1. i + 1 = n + 2 /\ ~(i - 1 < n)
      BY <1>1, <2>3
    <3> QED BY <1>4, <2>1, <3>1 DEF After, n
  <2> QED BY <1>1, <2>2, <2>3
<1>10. \A i, j \in 1 .. n + 2 : i <= j => NotAfter(at[i], at[j])
  <2> SUFFICES ASSUME NEW i \in 1 .. n + 2, NEW j \in 1 .. n + 2, i <= j
               PROVE  NotAfter(at[i], at[j])
    OBVIOUS
  <2>1. CASE j <= n + 1
    <3>1. at[i] = <<m, i - 1>> /\ at[j] = <<m, j - 1>> /\ i - 1 <= j - 1
      BY <1>1, <1>4, <2>1
    <3> QED BY <3>1 DEF NotAfter
  <2>2. CASE ~(j <= n + 1)
    <3>1. at[j] = <<m + 1, 0>>
      BY <1>1, <1>4, <2>2
    <3>2. CASE i <= n + 1
      <4>1. at[i] = <<m, i - 1>> /\ m < m + 1
        BY <1>1, <1>4, <3>2
      <4> QED BY <3>1, <4>1 DEF NotAfter
    <3>3. CASE ~(i <= n + 1)
      <4>1. i = j
        BY <1>1, <2>2, <3>3
      <4> QED BY <1>6, <3>1, <4>1, NotAfterOrder
    <3> QED BY <3>2, <3>3
  <2> QED BY <2>1, <2>2
<1>11. at[1] = <<m, 0>> /\ n + 1 + 1 = n + 2
  BY <1>1, <1>4
<1>12. Marked(c, q, <<m, 0>>, <<m + 1, 0>>, at)
  BY <1>3, <1>4, <1>7, <1>8, <1>9, <1>10, <1>11 DEF Marked
<1> QED BY <1>12 DEF Stretch, q

LEMMA Smallest ==
  ASSUME NEW S, S \subseteq Nat, S # {}
  PROVE  \E x \in S : \A y \in S : x <= y
<1> DEFINE less == OpToRel(<, Nat)
<1>1. \E x \in S : \A y \in S : <<y, x>> \notin less
  BY NatLessThanWellFounded, WFMin
<1>2. \A x, y \in Nat : <<y, x>> \in less <=> y < x
  BY DEF OpToRel
<1> HIDE DEF less
<1>3. PICK x \in S : \A y \in S : <<y, x>> \notin less
  BY <1>1
<1>4. \A y \in S : ~(y < x) /\ x \in Nat /\ y \in Nat
  BY <1>2, <1>3
<1>5. \A y \in S : x <= y
  BY <1>4
<1> QED BY <1>3, <1>5

\* The units from a mark in a payload on are the rest of the payload.
LEMMA StretchPayload ==
  ASSUME NEW c, NEW q \in Seq(Units), NEW p \in Marks, p[2] # 0,
         NEW e, NEW at, Marked(c, q, p, e, at),
         NEW t \in Seq(Units), Len(t) <= Len(q), p[2] + Len(t) <= PayloadLen(p[1]) + 1
  PROVE  /\ \A i \in 1 .. Len(t) : q[i] = Payload(c, p[1])[i - 1 + p[2]]
         /\ at[Len(t) + 1] = IF p[2] + Len(t) <= PayloadLen(p[1])
                            THEN <<p[1], p[2] + Len(t)>> ELSE <<p[1] + 1, 0>>
<1> DEFINE m == p[1]
           k == p[2]
           n == Len(t)
           size == PayloadLen(m)
           S == {i \in 1 .. n : at[i] # <<m, k + i - 1>>}
<1>1. /\ size \in Nat \ {0} /\ Len(q) \in Nat /\ n \in Nat /\ n <= Len(q)
      /\ k <= size /\ k + n <= size + 1 /\ k \in Nat \ {0} /\ m \in Nat \ {0}
  BY MarkType
<1>2. at[1] = <<m, k>>
  BY MarkType DEF Marked
<1>3. \A i \in 1 .. n : q[i] = UnitAt(c, at[i]) /\ at[i + 1] = After(at[i])
  <2>1. \A i \in 1 .. n : i \in 1 .. Len(q)
    BY <1>1
  <2> QED BY <2>1 DEF Marked
<1> HIDE DEF m, k, n, size
<1>4. S = {}
  <2> SUFFICES ASSUME S # {} PROVE FALSE
    OBVIOUS
  <2>1. S \subseteq Nat
    OBVIOUS
  <2> HIDE DEF S
  <2>2. PICK x \in S : \A y \in S : x <= y
    BY <2>1, Smallest
  <2>3. x \in 1 .. n /\ at[x] # <<m, k + x - 1>>
    BY <2>2 DEF S
  <2>4. x # 1
    <3>1. k + 1 - 1 = k
      BY <1>1
    <3> QED BY <1>2, <2>3, <3>1
  <2>5. x - 1 \in 1 .. n /\ ~(x <= x - 1) /\ (x - 1) + 1 = x
    BY <1>1, <2>3, <2>4
  <2>6. at[x - 1] = <<m, k + (x - 1) - 1>>
    BY <2>2, <2>5 DEF S
  <2>7. k + (x - 1) - 1 < size /\ (k + (x - 1) - 1) + 1 = k + x - 1
    BY <1>1, <2>3
  <2>8. at[x] = After(at[x - 1])
    BY <1>3, <2>5
  <2>9. at[x] = <<m, k + x - 1>>
    BY <2>6, <2>7, <2>8 DEF After, size
  <2> QED BY <2>3, <2>9
<1>5. \A i \in 1 .. n : at[i] = <<m, k + i - 1>>
  BY <1>4
<1> HIDE DEF S
<1>6. \A i \in 1 .. n : q[i] = Payload(c, m)[i - 1 + k]
  <2> SUFFICES ASSUME NEW i \in 1 .. n PROVE q[i] = Payload(c, m)[i - 1 + k]
    OBVIOUS
  <2>1. k + i - 1 # 0 /\ k + i - 1 = i - 1 + k
    BY <1>1
  <2>2. q[i] = UnitAt(c, <<m, k + i - 1>>)
    BY <1>3, <1>5
  <2> QED BY <2>1, <2>2 DEF UnitAt
<1>7. CASE n = 0
  <2>1. n + 1 = 1 /\ k + n = k /\ k + n <= size
    BY <1>1, <1>7
  <2>2. at[n + 1] = IF k + n <= size THEN <<m, k + n>> ELSE <<m + 1, 0>>
    BY <1>2, <2>1
  <2> QED BY <1>6, <2>2 DEF size, m, k, n
<1>8. CASE n # 0
  <2>1. n \in 1 .. n /\ (k + n - 1) + 1 = k + n /\ (k + n - 1 < size <=> k + n <= size)
    BY <1>1, <1>8
  <2>2. at[n + 1] = After(<<m, k + n - 1>>)
    BY <1>3, <1>5, <2>1
  <2>3. at[n + 1] = IF k + n <= size THEN <<m, k + n>> ELSE <<m + 1, 0>>
    BY <2>1, <2>2 DEF After, size
  <2> QED BY <1>6, <2>3 DEF size, m, k, n
<1> QED BY <1>7, <1>8

-----------------------------------------------------------------------------
(* recvPDU's second recv.                                                  *)

\* b is what has come of message m's payload, and is not all of it.
Partial(c, m, b) ==
  /\ b \in Seq(Units) /\ Len(b) < PayloadLen(m)
  /\ \A i \in 1 .. Len(b) : b[i] = Payload(c, m)[i]

LEMMA StretchCut ==
  ASSUME NEW c, NEW q \in Seq(Units), NEW p \in Marks, p[2] # 0,
         NEW e, Stretch(c, q, p, e),
         NEW t \in Seq(Units), NEW rest \in Seq(Units),
         Len(t) <= Len(q), p[2] + Len(t) <= PayloadLen(p[1]) + 1,
         Len(rest) = Len(q) - Len(t),
         \A i \in 1 .. Len(rest) : rest[i] = q[i + Len(t)]
  PROVE  /\ \A i \in 1 .. Len(t) : q[i] = Payload(c, p[1])[i - 1 + p[2]]
         /\ Stretch(c, rest, IF p[2] + Len(t) <= PayloadLen(p[1])
                             THEN <<p[1], p[2] + Len(t)>> ELSE <<p[1] + 1, 0>>, e)
<1>1. PICK at : Marked(c, q, p, e, at)
  BY DEF Stretch
<1>2. /\ \A i \in 1 .. Len(t) : q[i] = Payload(c, p[1])[i - 1 + p[2]]
      /\ at[Len(t) + 1] = IF p[2] + Len(t) <= PayloadLen(p[1])
                         THEN <<p[1], p[2] + Len(t)>> ELSE <<p[1] + 1, 0>>
  <2>1. \A i \in 1 .. Len(t) : q[i] = Payload(c, p[1])[i - 1 + p[2]]
    BY <1>1, StretchPayload, ZenonT(40)
  <2>2. at[Len(t) + 1] = IF p[2] + Len(t) <= PayloadLen(p[1])
                         THEN <<p[1], p[2] + Len(t)>> ELSE <<p[1] + 1, 0>>
    BY <1>1, StretchPayload
  <2> QED BY <2>1, <2>2
<1>3. Len(t) \in 0 .. Len(q) /\ Len(q) \in Len(t) .. Len(q) /\ Len(q) \in Nat
  OBVIOUS
<1>4. Stretch(c, rest, at[Len(t) + 1], at[Len(q) + 1])
  BY <1>1, <1>3, StretchPart
<1>5. at[Len(q) + 1] = e
  BY <1>1 DEF Marked
<1> QED BY <1>2, <1>4, <1>5

\* After it the payload is whole, or goes on later; rest is what follows it.
LEMMA Receive ==
  ASSUME NEW c \in Clients, NEW m \in Nat \ {0}, NEW b, Partial(c, m, b),
         NEW q \in Seq(Units), NEW e, Stretch(c, q, <<m, Len(b) + 1>>, e),
         NEW data, data = b \o Takes(q, b, PayloadLen(m)),
         NEW rest, rest = Leaves(q, b, PayloadLen(m))
  PROVE  /\ rest \in Seq(Units)
         /\ \/ /\ Len(data) = PayloadLen(m) /\ data = Payload(c, m)
               /\ Stretch(c, rest, <<m + 1, 0>>, e)
            \/ /\ Len(data) # PayloadLen(m) /\ Partial(c, m, data)
               /\ Stretch(c, rest, <<m, Len(data) + 1>>, e)
<1> DEFINE size == PayloadLen(m)
           t == Takes(q, b, size)
<1> PICK n : n = Len(t)
  OBVIOUS
<1> PICK k : k = Len(b) + 1
  OBVIOUS
<1>1. size \in Nat \ {0} /\ b \in Seq(Units) /\ Len(b) \in Nat /\ Len(b) < size
  BY PayloadLenType, LenProperties DEF Partial
<1>2. /\ t \in Seq(Units) /\ rest \in Seq(Units)
      /\ n = IF Len(q) <= size - Len(b) THEN Len(q)
             ELSE IF size - Len(b) >= 0 THEN size - Len(b) ELSE 0
      /\ Len(rest) = Len(q) - n
      /\ \A i \in 1 .. n : t[i] = q[i]
      /\ \A i \in 1 .. Len(rest) : rest[i] = q[i + n]
  <2>1. b \in Seq(Units) /\ size \in Nat
    BY <1>1
  <2> HIDE DEF size
  <2> QED BY <2>1, TakesType, ZenonT(40) DEF size
<1>3. Len(q) \in Nat /\ Len(t) \in Nat
  BY <1>2, LenProperties
<1> HIDE DEF size, t
<1>4. n \in 0 .. Len(q) /\ k + n <= size + 1 /\ k <= size /\ k \in Nat \ {0}
  <2>1. k \in Nat \ {0} /\ k <= size
    BY <1>1
  <2>2. n <= Len(q) /\ n <= size - Len(b)
    BY <1>1, <1>2, <1>3
  <2> QED BY <1>1, <1>3, <2>1, <2>2
<1>5. /\ \A i \in 1 .. n : q[i] = Payload(c, m)[k + i - 1]
      /\ Stretch(c, rest, IF k + n <= size THEN <<m, k + n>> ELSE <<m + 1, 0>>, e)
  <2>1. k <= PayloadLen(m) /\ k + n <= PayloadLen(m) + 1 /\ Stretch(c, q, <<m, k>>, e)
    BY <1>4 DEF size
  <2>2. Len(rest) = Len(q) - Len(t) /\ \A i \in 1 .. Len(rest) : rest[i] = q[i + Len(t)]
    BY <1>2
  <2>3. PICK p : p = <<m, k>>
    OBVIOUS
  <2>4. p \in Marks /\ p[1] = m /\ p[2] = k
    BY <1>4, <2>1, <2>3, MarkIntro
  <2>5. /\ Stretch(c, q, p, e) /\ p[2] # 0 /\ Len(t) <= Len(q)
        /\ p[2] + Len(t) <= PayloadLen(p[1]) + 1
    BY <1>3, <1>4, <2>1, <2>3, <2>4
  <2>6. /\ \A i \in 1 .. Len(t) : q[i] = Payload(c, p[1])[i - 1 + p[2]]
        /\ Stretch(c, rest, IF p[2] + Len(t) <= PayloadLen(p[1])
                            THEN <<p[1], p[2] + Len(t)>> ELSE <<p[1] + 1, 0>>, e)
    BY <1>2, <2>2, <2>4, <2>5, StretchCut
  <2> QED BY <2>4, <2>6 DEF size
<1>6. /\ data \in Seq(Units) /\ Len(data) = Len(b) + n
      /\ \A i \in 1 .. Len(b) + n : data[i] = IF i <= Len(b) THEN b[i] ELSE t[i - Len(b)]
  <2>1. data = b \o t
    BY DEF t, size
  <2>2. /\ b \o t \in Seq(Units) /\ Len(b \o t) = Len(b) + Len(t)
        /\ \A i \in 1 .. Len(b) + Len(t) :
             (b \o t)[i] = IF i <= Len(b) THEN b[i] ELSE t[i - Len(b)]
    BY <1>1, <1>2, ConcatProperties, Zenon
  <2> QED BY <2>1, <2>2
<1>7. \A i \in 1 .. Len(data) : data[i] = Payload(c, m)[i]
  <2> SUFFICES ASSUME NEW i \in 1 .. Len(b) + n PROVE data[i] = Payload(c, m)[i]
    BY <1>6
  <2>1. CASE i <= Len(b)
    <3>1. i \in 1 .. Len(b)
      BY <1>1, <1>3, <2>1
    <3> QED BY <1>6, <2>1, <3>1 DEF Partial
  <2>2. CASE ~(i <= Len(b))
    <3>1. i - Len(b) \in 1 .. n /\ k + (i - Len(b)) - 1 = i
      BY <1>1, <1>3, <2>2
    <3>2. t[i - Len(b)] = Payload(c, m)[k + (i - Len(b)) - 1]
      BY <1>2, <1>5, <3>1
    <3> QED BY <1>6, <2>2, <3>1, <3>2
  <2> QED BY <2>1, <2>2
<1>8. CASE Len(data) = size
  <2>1. ~(k + n <= size)
    BY <1>1, <1>3, <1>6, <1>8
  <2>2. Stretch(c, rest, <<m + 1, 0>>, e)
    BY <1>5, <2>1
  <2>3. /\ Payload(c, m) \in Seq(Units) /\ Len(Payload(c, m)) = size
    BY PayloadType DEF size
  <2>4. data = Payload(c, m)
    BY <1>6, <1>7, <1>8, <2>3, SeqEqual
  <2> QED BY <1>2, <1>8, <2>2, <2>4 DEF size
<1>9. CASE Len(data) # size
  <2>1. k + n <= size /\ k + n = Len(data) + 1 /\ Len(data) < size
    BY <1>1, <1>3, <1>4, <1>6, <1>9
  <2>2. Stretch(c, rest, <<m, Len(data) + 1>>, e)
    BY <1>5, <2>1
  <2>3. Partial(c, m, data)
    BY <1>6, <1>7, <2>1 DEF Partial, size
  <2> QED BY <1>2, <1>9, <2>2, <2>3 DEF size
<1> QED BY <1>8, <1>9

-----------------------------------------------------------------------------
(* The framing of both streams of every client.                            *)

\* A program that is at place at and has the buffer b reads message m, or sends b.
Reads(c, m, at, n, b) == at = "PAYLOAD" => n = PayloadLen(m) /\ Partial(c, m, b)
ReadMark(m, at, b) == <<m, IF at = "PAYLOAD" THEN Len(b) + 1 ELSE 0>>
Unsent(at, b) == IF at = "SEND" THEN b ELSE <<>>

\* All that a client has sent and not got back is where it belongs, in order and
\* without a gap: from mark read on in dn, in what the server sends, in upq, and
\* in what the client sends, which comes to mark end.  The server, at place at
\* with the buffer b, next reads message m or goes on with it.
Framed(c, at, n, b, dn, read, upq, sn, end) ==
  \E m \in Nat \ {0}, v \in Marks, w \in Marks :
    /\ Reads(c, m, at, n, b)
    /\ Stretch(c, dn, read, v) /\ Stretch(c, Unsent(at, b), v, <<m, 0>>)
    /\ Stretch(c, upq, ReadMark(m, at, b), w) /\ Stretch(c, sn, w, end)
FramedDown(c, dn, read, end) ==
  \E v \in Marks : Stretch(c, dn, read, v) /\ NotAfter(v, end)

-----------------------------------------------------------------------------
(* How the programs' steps keep what they share framed.                    *)

LEMMA FirstUnit ==
  ASSUME NEW m \in Nat \ {0}
  PROVE  /\ <<m, 0>> \in Marks /\ After(<<m, 0>>) = <<m, 1>>
         /\ \A c : UnitAt(c, <<m, 0>>).len = PayloadLen(m)
<1>1. PayloadLen(m) \in Nat \ {0}
  BY PayloadLenType
<1>2. <<m, 0>> \in Marks
  BY <1>1, MarkIntro
<1>3. After(<<m, 0>>) = <<m, 1>>
  <2>1. 0 < PayloadLen(m) /\ 0 + 1 = 1
    BY <1>1
  <2> QED BY <2>1 DEF After
<1> QED BY <1>2, <1>3 DEF UnitAt, Header

LEMMA NothingCame ==
  ASSUME NEW c, NEW m \in Nat \ {0}
  PROVE  /\ Reads(c, m, "PAYLOAD", PayloadLen(m), <<>>)
         /\ ReadMark(m, "PAYLOAD", <<>>) = <<m, 1>>
<1>1. PayloadLen(m) \in Nat \ {0}
  BY PayloadLenType
<1>2. <<>> \in Seq(Units) /\ Len(<<>>) = 0
  BY EmptySeq
<1> QED BY <1>1, <1>2 DEF Reads, Partial, ReadMark

\* recvPDU's first recv, in the server.
LEMMA HeaderKeepsFramed ==
  ASSUME NEW c, NEW n, NEW b, NEW dn, NEW read, NEW upq \in Seq(Units), NEW sn, NEW end,
         Framed(c, "POLL", n, b, dn, read, upq, sn, end), upq # <<>>
  PROVE  Framed(c, "PAYLOAD", Head(upq).len, <<>>, dn, read, Tail(upq), sn, end)
<1>1. PICK m \in Nat \ {0}, v \in Marks, w \in Marks :
        /\ Stretch(c, dn, read, v) /\ Stretch(c, <<>>, v, <<m, 0>>)
        /\ Stretch(c, upq, <<m, 0>>, w) /\ Stretch(c, sn, w, end)
  BY DEF Framed, Unsent, ReadMark
<1>2. Head(upq) = UnitAt(c, <<m, 0>>) /\ Stretch(c, Tail(upq), After(<<m, 0>>), w)
  BY <1>1, StretchTail
<1>3. Head(upq).len = PayloadLen(m) /\ Stretch(c, Tail(upq), <<m, 1>>, w)
  BY <1>2, FirstUnit
<1> SUFFICES /\ Reads(c, m, "PAYLOAD", Head(upq).len, <<>>)
             /\ Stretch(c, dn, read, v) /\ Stretch(c, Unsent("PAYLOAD", <<>>), v, <<m, 0>>)
             /\ Stretch(c, Tail(upq), ReadMark(m, "PAYLOAD", <<>>), w)
             /\ Stretch(c, sn, w, end)
  BY Zenon DEF Framed
<1> QED BY <1>1, <1>3, NothingCame DEF Unsent

\* recvPDU's second recv, in the server: the payload is whole, or goes on.
LEMMA PayloadKeepsFramed ==
  ASSUME NEW c \in Clients, NEW n, NEW b, NEW dn, NEW read,
         NEW upq \in Seq(Units), NEW sn, NEW end,
         Framed(c, "PAYLOAD", n, b, dn, read, upq, sn, end),
         NEW data, data = b \o Takes(upq, b, n), NEW rest, rest = Leaves(upq, b, n)
  PROVE  IF Len(data) = n
         THEN Framed(c, "SEND", n, Pdu(c, data), dn, read, rest, sn, end)
         ELSE Framed(c, "PAYLOAD", n, data, dn, read, rest, sn, end)
<1>1. PICK m \in Nat \ {0}, v \in Marks, w \in Marks :
        /\ n = PayloadLen(m) /\ Partial(c, m, b)
        /\ Stretch(c, dn, read, v) /\ Stretch(c, <<>>, v, <<m, 0>>)
        /\ Stretch(c, upq, <<m, Len(b) + 1>>, w) /\ Stretch(c, sn, w, end)
  BY DEF Framed, Unsent, ReadMark, Reads
<1>2. \/ /\ Len(data) = n /\ data = Payload(c, m)
         /\ Stretch(c, rest, <<m + 1, 0>>, w)
      \/ /\ Len(data) # n /\ Partial(c, m, data)
         /\ Stretch(c, rest, <<m, Len(data) + 1>>, w)
  BY <1>1, Receive
<1>3. v = <<m, 0>>
  <2>1. <<>> \in Seq(Units)
    BY EmptySeq
  <2> QED BY <1>1, <2>1, StretchEnds
<1>4. CASE Len(data) = n
  <2>1. Stretch(c, Pdu(c, data), v, <<m + 1, 0>>)
    BY <1>2, <1>3, <1>4, PduStretch
  <2>2. /\ Reads(c, m + 1, "SEND", n, Pdu(c, data))
        /\ Stretch(c, dn, read, v) /\ Stretch(c, Unsent("SEND", Pdu(c, data)), v, <<m + 1, 0>>)
        /\ Stretch(c, rest, ReadMark(m + 1, "SEND", Pdu(c, data)), w)
        /\ Stretch(c, sn, w, end)
    BY <1>1, <1>2, <1>4, <2>1 DEF Reads, ReadMark, Unsent
  <2>3. m + 1 \in Nat \ {0}
    OBVIOUS
  <2>4. Framed(c, "SEND", n, Pdu(c, data), dn, read, rest, sn, end)
    BY <2>2, <2>3, Zenon DEF Framed
  <2> QED BY <1>4, <2>4
<1>5. CASE Len(data) # n
  <2>1. /\ Reads(c, m, "PAYLOAD", n, data)
        /\ Stretch(c, dn, read, v) /\ Stretch(c, Unsent("PAYLOAD", data), v, <<m, 0>>)
        /\ Stretch(c, rest, ReadMark(m, "PAYLOAD", data), w)
        /\ Stretch(c, sn, w, end)
    BY <1>1, <1>2, <1>5 DEF Reads, ReadMark, Unsent
  <2>2. Framed(c, "PAYLOAD", n, data, dn, read, rest, sn, end)
    BY <2>1, Zenon DEF Framed
  <2> QED BY <1>5, <2>2
<1> QED BY <1>4, <1>5

\* sendPDU's send, in the server.
LEMMA SendKeepsFramed ==
  ASSUME NEW c \in Clients, NEW n, NEW b \in Seq(Units), NEW dn \in Seq(Units), NEW read,
         NEW upq, NEW sn, NEW end,
         Framed(c, "SEND", n, b, dn, read, upq, sn, end), b # <<>>,
         NEW at, at = IF Len(b) = 1 THEN "POLL" ELSE "SEND", NEW n2
  PROVE  Framed(c, at, n2, Tail(b), Append(dn, Head(b)), read, upq, sn, end)
<1>1. PICK m \in Nat \ {0}, v \in Marks, w \in Marks :
        /\ Stretch(c, dn, read, v) /\ Stretch(c, b, v, <<m, 0>>)
        /\ Stretch(c, upq, <<m, 0>>, w) /\ Stretch(c, sn, w, end)
  BY DEF Framed, Unsent, ReadMark
<1>2. /\ Head(b) = UnitAt(c, v) /\ Tail(b) \in Seq(Units)
      /\ Stretch(c, Tail(b), After(v), <<m, 0>>)
  BY <1>1, StretchTail
<1>3. Stretch(c, Append(dn, Head(b)), read, After(v)) /\ After(v) \in Marks
  BY <1>1, <1>2, UnitAtType, StretchAppend, AfterType
<1>4. Unsent(at, Tail(b)) = Tail(b)
  <2>1. Len(b) \in Nat /\ Len(Tail(b)) = Len(b) - 1
    BY HeadTailProperties, LenProperties
  <2>2. Len(b) = 1 => Tail(b) = <<>>
    <3>1. Len(b) = 1 => Len(Tail(b)) = 0
      BY <2>1
    <3> QED BY <1>2, <3>1, EmptySeq
  <2> QED BY <2>2 DEF Unsent
<1>5. /\ Reads(c, m, at, n2, Tail(b))
      /\ Stretch(c, Append(dn, Head(b)), read, After(v))
      /\ Stretch(c, Unsent(at, Tail(b)), After(v), <<m, 0>>)
      /\ Stretch(c, upq, ReadMark(m, at, Tail(b)), w) /\ Stretch(c, sn, w, end)
  BY <1>1, <1>2, <1>3, <1>4 DEF Reads, ReadMark
<1> QED BY <1>3, <1>5, Zenon DEF Framed

\* A server that is busy with another client, or with none.
LEMMA IdleKeepsFramed ==
  ASSUME NEW c, NEW n, NEW b, NEW dn, NEW read, NEW upq, NEW sn, NEW end,
         Framed(c, "POLL", n, b, dn, read, upq, sn, end), NEW n2, NEW b2
  PROVE  Framed(c, "POLL", n2, b2, dn, read, upq, sn, end)
BY DEF Framed, Reads, ReadMark, Unsent

\* A client takes what comes.
LEMMA ReadingKeepsFramed ==
  ASSUME NEW c, NEW at, NEW n, NEW b, NEW dn, NEW read, NEW upq, NEW sn, NEW end,
         NEW dn2, NEW read2,
         \A v \in Marks : Stretch(c, dn, read, v) => Stretch(c, dn2, read2, v)
  PROVE  /\ Framed(c, at, n, b, dn, read, upq, sn, end)
            => Framed(c, at, n, b, dn2, read2, upq, sn, end)
         /\ FramedDown(c, dn, read, end) => FramedDown(c, dn2, read2, end)
<1>1. ASSUME Framed(c, at, n, b, dn, read, upq, sn, end)
      PROVE  Framed(c, at, n, b, dn2, read2, upq, sn, end)
  <2>1. PICK m \in Nat \ {0}, v \in Marks, w \in Marks :
          /\ Reads(c, m, at, n, b)
          /\ Stretch(c, dn, read, v) /\ Stretch(c, Unsent(at, b), v, <<m, 0>>)
          /\ Stretch(c, upq, ReadMark(m, at, b), w) /\ Stretch(c, sn, w, end)
    BY <1>1, Zenon DEF Framed
  <2>2. Stretch(c, dn2, read2, v)
    BY <2>1
  <2> QED BY <2>1, <2>2, Zenon DEF Framed
<1>2. FramedDown(c, dn, read, end) => FramedDown(c, dn2, read2, end)
  BY DEF FramedDown
<1> QED BY <1>1, <1>2

\* A client sends.
LEMMA ClientSendKeepsFramed ==
  ASSUME NEW c \in Clients, NEW at, NEW n, NEW b, NEW dn, NEW read,
         NEW upq \in Seq(Units), NEW sn \in Seq(Units), NEW end,
         Framed(c, at, n, b, dn, read, upq, sn, end), sn # <<>>
  PROVE  Framed(c, at, n, b, dn, read, Append(upq, Head(sn)), Tail(sn), end)
<1>1. PICK m \in Nat \ {0}, v \in Marks, w \in Marks :
        /\ Reads(c, m, at, n, b)
        /\ Stretch(c, dn, read, v) /\ Stretch(c, Unsent(at, b), v, <<m, 0>>)
        /\ Stretch(c, upq, ReadMark(m, at, b), w) /\ Stretch(c, sn, w, end)
  BY Zenon DEF Framed
<1>2. /\ Head(sn) = UnitAt(c, w) /\ Tail(sn) \in Seq(Units)
      /\ Stretch(c, Tail(sn), After(w), end)
  BY <1>1, StretchTail
<1>3. /\ Stretch(c, Append(upq, Head(sn)), ReadMark(m, at, b), After(w))
      /\ After(w) \in Marks
  BY <1>1, <1>2, UnitAtType, StretchAppend, AfterType
<1> QED BY <1>1, <1>2, <1>3, Zenon DEF Framed

\* A client takes a message from its user.
LEMMA InputKeepsFramed ==
  ASSUME NEW c \in Clients, NEW at, NEW n, NEW b, NEW dn, NEW read, NEW upq,
         NEW s \in Nat, Framed(c, at, n, b, dn, read, upq, <<>>, <<s + 1, 0>>)
  PROVE  Framed(c, at, n, b, dn, read, upq, Pdu(c, Payload(c, s + 1)), <<s + 2, 0>>)
<1>1. PICK m \in Nat \ {0}, v \in Marks, w \in Marks :
        /\ Reads(c, m, at, n, b)
        /\ Stretch(c, dn, read, v) /\ Stretch(c, Unsent(at, b), v, <<m, 0>>)
        /\ Stretch(c, upq, ReadMark(m, at, b), w) /\ Stretch(c, <<>>, w, <<s + 1, 0>>)
  BY Zenon DEF Framed
<1>2. w = <<s + 1, 0>>
  <2>1. <<>> \in Seq(Units)
    BY EmptySeq
  <2> QED BY <1>1, <2>1, StretchEnds
<1>3. Stretch(c, Pdu(c, Payload(c, s + 1)), w, <<s + 2, 0>>)
  <2>1. s + 1 \in Nat \ {0} /\ s + 1 + 1 = s + 2
    OBVIOUS
  <2>2. Stretch(c, Pdu(c, Payload(c, s + 1)), <<s + 1, 0>>, <<s + 1 + 1, 0>>)
    BY <2>1, PduStretch
  <2> QED BY <1>2, <2>1, <2>2
<1> QED BY <1>1, <1>3, Zenon DEF Framed

\* What is under way to a client comes before what it has sent last.
LEMMA FramedIsDown ==
  ASSUME NEW c, NEW at, NEW n, NEW b \in Seq(Units), NEW dn \in Seq(Units), NEW read,
         NEW upq \in Seq(Units), NEW sn \in Seq(Units), NEW end,
         Framed(c, at, n, b, dn, read, upq, sn, end)
  PROVE  FramedDown(c, dn, read, end)
<1>1. PICK m \in Nat \ {0}, v \in Marks, w \in Marks :
        /\ Reads(c, m, at, n, b)
        /\ Stretch(c, dn, read, v) /\ Stretch(c, Unsent(at, b), v, <<m, 0>>)
        /\ Stretch(c, upq, ReadMark(m, at, b), w) /\ Stretch(c, sn, w, end)
  BY Zenon DEF Framed
<1>2. Unsent(at, b) \in Seq(Units)
  BY EmptySeq DEF Unsent
<1>3. /\ <<m, 0>> \in Marks /\ NotAfter(v, <<m, 0>>)
      /\ ReadMark(m, at, b) \in Marks /\ NotAfter(ReadMark(m, at, b), w)
      /\ end \in Marks /\ NotAfter(w, end)
  BY <1>1, <1>2, StretchEnds
<1>4. NotAfter(<<m, 0>>, ReadMark(m, at, b))
  <2>1. Len(b) \in Nat
    BY LenProperties
  <2>2. m = m /\ 0 <= Len(b) + 1 /\ 0 <= 0
    BY <2>1
  <2> QED BY <2>2 DEF NotAfter, ReadMark
<1>5. NotAfter(v, ReadMark(m, at, b))
  BY <1>3, <1>4, NotAfterOrder
<1>6. NotAfter(v, w)
  BY <1>3, <1>5, NotAfterOrder
<1>7. NotAfter(v, end)
  BY <1>3, <1>6, NotAfterOrder
<1> QED BY <1>1, <1>7 DEF FramedDown

-----------------------------------------------------------------------------
(* The invariant.                                                          *)

ServerAt(c) == IF current = c THEN sAt ELSE "POLL"
ReadAt(c) == ReadMark(Len(got[c]) + 1, cAt[c], cBuf[c])
Sending(c) == Unsent(cAt[c], cBuf[c])
SentMark(c) == <<sent[c] + 1, 0>>

\* A client next reads the message after those it has got.  When the server has
\* ended, some of what was under way may be lost, but no gap precedes the rest.
FramedAt(c) ==
  /\ Reads(c, Len(got[c]) + 1, cAt[c], cNeed[c], cBuf[c])
  /\ IF ServerRuns
     THEN Framed(c, ServerAt(c), need, sBuf, down[c], ReadAt(c), up[c], Sending(c),
                 SentMark(c))
     ELSE FramedDown(c, down[c], ReadAt(c), SentMark(c))

FramingInv ==
  /\ TypesInv
  /\ \A c \in Clients : downEnd[c] # "OPEN" => ~ServerRuns
  /\ \A c \in Clients : ~Gone(c) => FramedAt(c)

LEMMA InitFraming == Init => FramingInv
<1> SUFFICES ASSUME Init PROVE FramingInv
  OBVIOUS
<1>1. TypesInv
  BY InitTypes
<1>2. ServerRuns /\ \A c \in Clients : downEnd[c] = "OPEN"
  BY DEF Init, ServerInit, StreamInit, ServerRuns
<1>3. ASSUME NEW c \in Clients PROVE FramedAt(c)
  <2>1. /\ got[c] = <<>> /\ sent[c] = 0 /\ cAt[c] = "START" /\ cBuf[c] = <<>>
        /\ down[c] = <<>> /\ up[c] = <<>> /\ sAt = "POLL"
    BY DEF Init, ServerInit, StreamInit, ClientInit
  <2>2. /\ Len(got[c]) + 1 = 1 /\ sent[c] + 1 = 1
    BY <2>1
  <2>3. /\ ReadAt(c) = <<1, 0>> /\ Sending(c) = <<>> /\ SentMark(c) = <<1, 0>>
        /\ ServerAt(c) = "POLL"
    BY <2>1, <2>2 DEF ReadAt, Sending, SentMark, ServerAt, ReadMark, Unsent
  <2>4. <<1, 0>> \in Marks /\ Stretch(c, <<>>, <<1, 0>>, <<1, 0>>)
    <3>1. 1 \in Nat \ {0}
      OBVIOUS
    <3> QED BY <3>1, FirstUnit, StretchEmpty
  <2>5. Framed(c, "POLL", need, sBuf, <<>>, <<1, 0>>, <<>>, <<>>, <<1, 0>>)
    <3>1. /\ Reads(c, 1, "POLL", need, sBuf) /\ Unsent("POLL", sBuf) = <<>>
          /\ ReadMark(1, "POLL", sBuf) = <<1, 0>> /\ 1 \in Nat \ {0}
      BY DEF Reads, Unsent, ReadMark
    <3> QED BY <2>4, <3>1, Zenon DEF Framed
  <2> QED BY <1>2, <2>1, <2>3, <2>5 DEF FramedAt, Reads
<1> QED BY <1>1, <1>2, <1>3 DEF FramingInv

\* In either case.
LEMMA FramedAtDown ==
  ASSUME TypesInv, NEW c \in Clients, FramedAt(c)
  PROVE  FramedDown(c, down[c], ReadAt(c), SentMark(c))
<1>1. sBuf \in Seq(Units) /\ down[c] \in Seq(Units) /\ up[c] \in Seq(Units)
  BY DEF TypesInv, TypeOK, StreamTypeOK, ServerTypeOK
<1>2. Sending(c) \in Seq(Units)
  BY EmptySeq DEF TypesInv, TypeOK, ClientTypeOK, Sending, Unsent
<1> QED BY <1>1, <1>2, FramedIsDown DEF FramedAt

-----------------------------------------------------------------------------
(* The server's steps.                                                     *)

\* What a client has and knows is its own.
LEMMA ClientsSame ==
  ASSUME UNCHANGED clientVars, NEW c
  PROVE  /\ ReadAt(c)' = ReadAt(c) /\ Sending(c)' = Sending(c)
         /\ SentMark(c)' = SentMark(c) /\ Gone(c)' = Gone(c)
         /\ Reads(c, Len(got[c]) + 1, cAt[c], cNeed[c], cBuf[c])'
            = Reads(c, Len(got[c]) + 1, cAt[c], cNeed[c], cBuf[c])
BY DEF clientVars, ReadAt, Sending, SentMark, Gone

LEMMA ServerFraming ==
  ASSUME FramingInv, TypesInv', UNCHANGED <<clientVars, downEnd>>, ServerRuns,
         \A c \in Clients : ~Gone(c) => FramedAt(c)'
  PROVE  FramingInv'
<1>1. \A c \in Clients : downEnd'[c] = "OPEN"
  BY DEF FramingInv
<1>2. \A c \in Clients : Gone(c)' = Gone(c)
  BY ClientsSame
<1> QED BY <1>1, <1>2 DEF FramingInv

\* A client the server does not deal with.
LEMMA IdleFramed ==
  ASSUME FramingInv, UNCHANGED clientVars, ServerRuns, ServerRuns',
         NEW c \in Clients, ~Gone(c), up'[c] = up[c], down'[c] = down[c],
         ServerAt(c) = "POLL", ServerAt(c)' = "POLL"
  PROVE  FramedAt(c)'
<1>1. FramedAt(c)
  BY DEF FramingInv
<1>2. Framed(c, "POLL", need, sBuf, down[c], ReadAt(c), up[c], Sending(c), SentMark(c))
  BY <1>1 DEF FramedAt
<1>3. Framed(c, "POLL", need', sBuf', down[c], ReadAt(c), up[c], Sending(c), SentMark(c))
  BY <1>2, IdleKeepsFramed
<1>4. /\ ReadAt(c)' = ReadAt(c) /\ Sending(c)' = Sending(c) /\ SentMark(c)' = SentMark(c)
      /\ Reads(c, Len(got[c]) + 1, cAt[c], cNeed[c], cBuf[c])'
  BY <1>1, ClientsSame DEF FramedAt
<1> QED BY <1>3, <1>4 DEF FramedAt

LEMMA ServerEndsFraming ==
  ASSUME FramingInv, TypesInv', UNCHANGED clientVars,
         NEW how \in {"STOPPED", "EXITED"}, ServerEnds(how)
  PROVE  FramingInv'
<1>1. TypesInv
  BY DEF FramingInv
<1>2. /\ sAt' = how
      /\ \A c \in Clients : \E k \in 0 .. Len(down[c]) : down'[c] = SubSeq(down[c], 1, k)
  BY <1>1, ServerEndsTypes
<1>3. ~ServerRuns'
  BY <1>2 DEF ServerRuns
<1>4. ASSUME NEW c \in Clients, ~Gone(c)' PROVE FramedAt(c)'
  <2>1. FramedAt(c)
    BY <1>4, ClientsSame DEF FramingInv
  <2>2. PICK v \in Marks : Stretch(c, down[c], ReadAt(c), v) /\ NotAfter(v, SentMark(c))
    BY <1>1, <2>1, FramedAtDown DEF FramedDown
  <2>3. PICK k \in 0 .. Len(down[c]) : down'[c] = SubSeq(down[c], 1, k)
    BY <1>2
  <2>4. down[c] \in Seq(Units)
    BY <1>1 DEF TypesInv, TypeOK, StreamTypeOK
  <2>5. PICK f : Stretch(c, down'[c], ReadAt(c), f) /\ NotAfter(f, v)
    BY <2>2, <2>3, <2>4, StretchPrefix
  <2>6. f \in Marks
    <3>1. down'[c] \in Seq(Units)
      BY DEF TypesInv, TypeOK, StreamTypeOK
    <3> QED BY <2>5, <3>1, StretchEnds
  <2>7. SentMark(c) \in Marks
    <3>1. sent[c] \in 0 .. MaxMsgs
      BY <1>1 DEF TypesInv, TypeOK, ClientTypeOK
    <3>2. sent[c] + 1 \in Nat \ {0}
      BY <3>1, StreamAssumption
    <3> QED BY <3>2, FirstUnit DEF SentMark
  <2>8. NotAfter(f, SentMark(c))
    BY <2>2, <2>5, <2>6, <2>7, NotAfterOrder
  <2>9. FramedDown(c, down'[c], ReadAt(c), SentMark(c))
    BY <2>5, <2>6, <2>8 DEF FramedDown
  <2>10. /\ ReadAt(c)' = ReadAt(c) /\ SentMark(c)' = SentMark(c)
         /\ Reads(c, Len(got[c]) + 1, cAt[c], cNeed[c], cBuf[c])'
    BY <2>1, ClientsSame DEF FramedAt
  <2> QED BY <1>3, <2>9, <2>10 DEF FramedAt
<1> QED BY <1>3, <1>4 DEF FramingInv

LEMMA AddNewSocketFraming ==
  ASSUME FramingInv, TypesInv', UNCHANGED clientVars, AddNewSocket PROVE FramingInv'
<1>1. CASE UNCHANGED <<up, down, upEnd, downEnd, broken, sAt, current, need, sBuf>>
  <2>1. /\ \A c \in Clients : ServerAt(c)' = ServerAt(c)
        /\ ServerRuns /\ ServerRuns'
    BY <1>1 DEF ServerAt, ServerRuns, AddNewSocket
  <2>2. ASSUME NEW c \in Clients, ~Gone(c) PROVE FramedAt(c)'
    <3>1. ServerAt(c) = "POLL"
      BY DEF ServerAt, AddNewSocket
    <3> QED BY <1>1, <2>1, <2>2, <3>1, IdleFramed
  <2> QED BY <1>1, <2>1, <2>2, ServerFraming
<1>2. CASE ServerEnds("EXITED")
  BY <1>2, ServerEndsFraming
<1> QED BY <1>1, <1>2 DEF AddNewSocket

LEMMA ProcessStdinFraming ==
  ASSUME FramingInv, TypesInv', UNCHANGED clientVars, ProcessStdin PROVE FramingInv'
BY ServerEndsFraming DEF ProcessStdin

\* The client the server deals with.
LEMMA BusyFramed ==
  ASSUME UNCHANGED clientVars, ServerRuns', NEW c \in Clients, FramedAt(c),
         Framed(c, ServerAt(c)', need', sBuf', down'[c], ReadAt(c), up'[c],
                Sending(c), SentMark(c))
  PROVE  FramedAt(c)'
<1>1. /\ ReadAt(c)' = ReadAt(c) /\ Sending(c)' = Sending(c) /\ SentMark(c)' = SentMark(c)
      /\ Reads(c, Len(got[c]) + 1, cAt[c], cNeed[c], cBuf[c])'
  BY ClientsSame DEF FramedAt
<1> QED BY <1>1 DEF FramedAt

\* The connection of a client that runs is whole.
LEMMA LiveIsOpen ==
  ASSUME IInv, NEW c \in Clients, ~Gone(c) PROVE upEnd[c] = "OPEN"
BY DEF IInv, EndsKnown, Gone

LEMMA RecvHeaderFraming ==
  ASSUME FramingInv, TypesInv', UNCHANGED clientVars, NEW c \in Clients, RecvHeader(c)
  PROVE  FramingInv'
<1>1. sAt = "POLL" /\ ServerRuns /\ \A d \in Clients : ServerAt(d) = "POLL"
  BY DEF RecvHeader, PolledClient, ServerRuns, ServerAt
<1>2. CASE /\ up[c] # <<>> /\ up' = [up EXCEPT ![c] = Tail(@)]
           /\ need' = Head(up[c]).len
           /\ sAt' = "PAYLOAD" /\ current' = c /\ sBuf' = <<>>
           /\ UNCHANGED <<backlog, down, upEnd, downEnd, broken, pollSet>>
  <2>1. up \in [Clients -> Seq(Units)]
    BY DEF FramingInv, TypesInv, TypeOK, StreamTypeOK
  <2>2. ServerRuns' /\ ServerAt(c)' = "PAYLOAD"
    BY <1>2 DEF ServerRuns, ServerAt
  <2>3. ASSUME ~Gone(c) PROVE FramedAt(c)'
    <3>1. FramedAt(c)
      BY <2>3 DEF FramingInv
    <3>2. Framed(c, "POLL", need, sBuf, down[c], ReadAt(c), up[c], Sending(c), SentMark(c))
      BY <1>1, <3>1 DEF FramedAt
    <3>3. Framed(c, "PAYLOAD", Head(up[c]).len, <<>>, down[c], ReadAt(c), Tail(up[c]),
                 Sending(c), SentMark(c))
      BY <1>2, <2>1, <3>2, HeaderKeepsFramed
    <3>4. up'[c] = Tail(up[c]) /\ down'[c] = down[c]
      BY <1>2, <2>1
    <3> QED BY <1>2, <2>2, <3>1, <3>3, <3>4, BusyFramed
  <2>4. ASSUME NEW d \in Clients, d # c, ~Gone(d) PROVE FramedAt(d)'
    <3>1. ServerAt(d)' = "POLL" /\ up'[d] = up[d] /\ down'[d] = down[d]
      BY <1>2, <2>1, <2>4 DEF ServerAt
    <3> QED BY <1>1, <2>2, <2>4, <3>1, IdleFramed
  <2> QED BY <1>1, <1>2, <2>3, <2>4, ServerFraming
<1>3. CASE ClientClosed(c) /\ UNCHANGED streamVars
  <2>1. ServerRuns' /\ \A d \in Clients : ServerAt(d)' = "POLL"
    BY <1>3 DEF ClientClosed, ServerRuns, ServerAt
  <2>2. UNCHANGED <<up, down, downEnd>>
    BY <1>3 DEF streamVars
  <2>3. ASSUME NEW d \in Clients, ~Gone(d) PROVE FramedAt(d)'
    BY <1>1, <2>1, <2>2, <2>3, IdleFramed
  <2> QED BY <1>1, <2>2, <2>3, ServerFraming
<1>4. CASE ServerEnds("EXITED")
  BY <1>4, ServerEndsFraming
<1> QED BY <1>2, <1>3, <1>4 DEF RecvHeader

LEMMA RecvPayloadFraming ==
  ASSUME FramingInv, TypesInv', UNCHANGED clientVars, NEW c \in Clients, RecvPayload(c)
  PROVE  FramingInv'
<1>1. /\ sAt = "PAYLOAD" /\ current = c /\ ServerRuns /\ ServerAt(c) = "PAYLOAD"
      /\ \A d \in Clients \ {c} : ServerAt(d) = "POLL"
  BY DEF RecvPayload, ServerRuns, ServerAt
<1>2. up \in [Clients -> Seq(Units)] /\ IInv
  BY DEF FramingInv, TypesInv, TypeOK, StreamTypeOK
<1>3. CASE /\ up' = [up EXCEPT ![c] = Leaves(@, sBuf, need)]
           /\ LET data == sBuf \o Takes(up[c], sBuf, need) IN
              IF Len(data) = need THEN StartEcho(c, data)
              ELSE sBuf' = data /\ UNCHANGED <<sAt, current, need, pollSet>>
           /\ UNCHANGED <<backlog, down, upEnd, downEnd, broken>>
  <2>1. PICK data : data = sBuf \o Takes(up[c], sBuf, need)
    OBVIOUS
  <2>2. PICK rest : rest = Leaves(up[c], sBuf, need)
    OBVIOUS
  <2>3. /\ IF Len(data) = need
           THEN sAt' = "SEND" /\ sBuf' = Pdu(c, data) ELSE sAt' = "PAYLOAD" /\ sBuf' = data
        /\ current' = c /\ need' = need
    BY <1>1, <1>3, <2>1 DEF StartEcho
  <2>4. up'[c] = rest /\ down'[c] = down[c] /\ UNCHANGED downEnd
    BY <1>2, <1>3, <2>2
  <2>5. ServerRuns' /\ ServerAt(c)' = sAt' /\ \A d \in Clients \ {c} : ServerAt(d)' = "POLL"
    BY <2>3 DEF ServerRuns, ServerAt
  <2>6. ASSUME ~Gone(c) PROVE FramedAt(c)'
    <3>1. FramedAt(c)
      BY <2>6 DEF FramingInv
    <3>2. Framed(c, "PAYLOAD", need, sBuf, down[c], ReadAt(c), up[c], Sending(c),
                 SentMark(c))
      BY <1>1, <3>1 DEF FramedAt
    <3>3. IF Len(data) = need
          THEN Framed(c, "SEND", need, Pdu(c, data), down[c], ReadAt(c), rest, Sending(c),
                      SentMark(c))
          ELSE Framed(c, "PAYLOAD", need, data, down[c], ReadAt(c), rest, Sending(c),
                      SentMark(c))
      BY <1>2, <2>1, <2>2, <3>2, PayloadKeepsFramed
    <3>4. Framed(c, ServerAt(c)', need', sBuf', down'[c], ReadAt(c), up'[c], Sending(c),
                 SentMark(c))
      BY <2>3, <2>4, <2>5, <3>3
    <3> QED BY <2>5, <3>1, <3>4, BusyFramed
  <2>7. ASSUME NEW d \in Clients, d # c, ~Gone(d) PROVE FramedAt(d)'
    <3>1. up'[d] = up[d] /\ down'[d] = down[d]
      BY <1>2, <1>3, <2>7
    <3> QED BY <1>1, <2>5, <2>7, <3>1, IdleFramed
  <2> QED BY <1>1, <2>4, <2>6, <2>7, ServerFraming
\* What follows cannot be while the client runs.
<1>4. ASSUME UNCHANGED streamVars, upEnd[c] # "OPEN", ServerRuns',
             \A d \in Clients \ {c} : ServerAt(d)' = "POLL"
      PROVE  FramingInv'
  <2>1. Gone(c) /\ UNCHANGED <<up, down, downEnd>>
    BY <1>2, <1>4, LiveIsOpen DEF streamVars
  <2>2. ASSUME NEW d \in Clients, ~Gone(d) PROVE FramedAt(d)'
    <3>1. d \in Clients \ {c}
      BY <2>1, <2>2
    <3> QED BY <1>1, <1>4, <2>1, <2>2, <3>1, IdleFramed
  <2> QED BY <1>1, <2>1, <2>2, ServerFraming
<1>5. CASE upEnd[c] # "OPEN" /\ StartEcho(c, sBuf) /\ UNCHANGED streamVars
  <2>1. ServerRuns' /\ \A d \in Clients \ {c} : ServerAt(d)' = "POLL"
    BY <1>1, <1>5 DEF StartEcho, ServerRuns, ServerAt
  <2> QED BY <1>4, <1>5, <2>1
<1>6. CASE upEnd[c] = "FIN" /\ ClientClosed(c) /\ UNCHANGED streamVars
  <2>1. ServerRuns' /\ \A d \in Clients \ {c} : ServerAt(d)' = "POLL"
    BY <1>6 DEF ClientClosed, ServerRuns, ServerAt
  <2> QED BY <1>4, <1>6, <2>1
<1>7. CASE ServerEnds("EXITED")
  BY <1>7, ServerEndsFraming
<1> QED BY <1>3, <1>5, <1>6, <1>7 DEF RecvPayload

LEMMA SendToClientFraming ==
  ASSUME FramingInv, TypesInv', UNCHANGED clientVars, NEW c \in Clients, SendToClient(c)
  PROVE  FramingInv'
<1>1. /\ sAt = "SEND" /\ current = c /\ ServerRuns /\ ServerAt(c) = "SEND"
      /\ \A d \in Clients \ {c} : ServerAt(d) = "POLL"
  BY DEF SendToClient, ServerRuns, ServerAt
<1>2. CASE /\ down' = [down EXCEPT ![c] = Append(@, Head(sBuf))]
           /\ sBuf' = Tail(sBuf)
           /\ IF Len(sBuf) = 1
              THEN sAt' = "POLL" /\ current' = Nobody /\ need' = 0
              ELSE UNCHANGED <<sAt, current, need>>
           /\ UNCHANGED <<backlog, up, upEnd, downEnd, broken>>
  <2>1. down \in [Clients -> Seq(Units)] /\ sBuf \in Seq(Units) /\ sBuf # <<>>
    BY <1>1 DEF FramingInv, TypesInv, TypeOK, StreamTypeOK, ServerTypeOK
  <2>2. /\ ServerRuns' /\ ServerAt(c)' = IF Len(sBuf) = 1 THEN "POLL" ELSE "SEND"
        /\ \A d \in Clients \ {c} : ServerAt(d)' = "POLL"
    BY <1>1, <1>2 DEF ServerRuns, ServerAt
  <2>3. ASSUME ~Gone(c) PROVE FramedAt(c)'
    <3>1. FramedAt(c)
      BY <2>3 DEF FramingInv
    <3>2. Framed(c, "SEND", need, sBuf, down[c], ReadAt(c), up[c], Sending(c), SentMark(c))
      BY <1>1, <3>1 DEF FramedAt
    <3>3. Framed(c, ServerAt(c)', need', Tail(sBuf), Append(down[c], Head(sBuf)), ReadAt(c),
                 up[c], Sending(c), SentMark(c))
      BY <2>1, <2>2, <3>2, SendKeepsFramed
    <3>4. down'[c] = Append(down[c], Head(sBuf)) /\ up'[c] = up[c]
      BY <1>2, <2>1
    <3> QED BY <1>2, <2>2, <3>1, <3>3, <3>4, BusyFramed
  <2>4. ASSUME NEW d \in Clients, d # c, ~Gone(d) PROVE FramedAt(d)'
    <3>1. up'[d] = up[d] /\ down'[d] = down[d]
      BY <1>2, <2>1, <2>4
    <3> QED BY <1>1, <2>2, <2>4, <3>1, IdleFramed
  <2> QED BY <1>1, <1>2, <2>3, <2>4, ServerFraming
<1>3. CASE ServerEnds("EXITED")
  BY <1>3, ServerEndsFraming
<1> QED BY <1>2, <1>3 DEF SendToClient

LEMMA ServerStepFraming == FramingInv /\ ServerStep => FramingInv'
<1> SUFFICES ASSUME FramingInv, ServerStep PROVE FramingInv'
  OBVIOUS
<1>1. TypesInv' /\ UNCHANGED clientVars
  BY ServerStepTypes DEF FramingInv, ServerStep
<1> QED BY <1>1, AddNewSocketFraming, ProcessStdinFraming, RecvHeaderFraming,
           RecvPayloadFraming, SendToClientFraming DEF ServerStep, ServerNext

LEMMA FaultStepFraming == FramingInv /\ FaultStep => FramingInv'
<1> SUFFICES ASSUME FramingInv, FaultStep PROVE FramingInv'
  OBVIOUS
<1>1. TypesInv' /\ UNCHANGED clientVars
  BY FaultStepTypes DEF FramingInv, FaultStep
<1>2. CASE ServerStopped
  BY <1>1, <1>2, ServerEndsFraming DEF ServerStopped
<1>3. CASE StdinHangsUp
  <2>1. UNCHANGED <<streamVars, sAt, current, need, sBuf>>
    BY <1>3 DEF StdinHangsUp
  <2>2. /\ UNCHANGED <<up, down, downEnd>> /\ ServerRuns' = ServerRuns
        /\ \A c \in Clients : ServerAt(c)' = ServerAt(c)
    BY <2>1 DEF streamVars, ServerRuns, ServerAt
  <2>3. \A c \in Clients : Gone(c)' = Gone(c) /\ FramedAt(c)' = FramedAt(c)
    BY <1>1, <2>1, <2>2, ClientsSame DEF FramedAt
  <2> QED BY <1>1, <2>2, <2>3 DEF FramingInv
<1> QED BY <1>2, <1>3 DEF FaultStep

-----------------------------------------------------------------------------
(* The clients' steps.                                                     *)

\* The other clients keep what they have.
LEMMA ClientFraming ==
  ASSUME FramingInv, TypesInv', UNCHANGED <<serverVars, downEnd>>, NEW c \in Clients,
         \A d \in Clients \ {c} :
           /\ up'[d] = up[d] /\ down'[d] = down[d] /\ cAt'[d] = cAt[d]
           /\ cNeed'[d] = cNeed[d] /\ cBuf'[d] = cBuf[d]
           /\ sent'[d] = sent[d] /\ got'[d] = got[d],
         ~Gone(c)' => FramedAt(c)'
  PROVE  FramingInv'
<1>1. UNCHANGED <<sAt, current, need, sBuf>> /\ ServerRuns' = ServerRuns
  BY DEF serverVars, ServerRuns
<1>2. ASSUME NEW d \in Clients, d # c, ~Gone(d)' PROVE FramedAt(d)'
  <2>1. /\ up'[d] = up[d] /\ down'[d] = down[d] /\ cAt'[d] = cAt[d]
        /\ cNeed'[d] = cNeed[d] /\ cBuf'[d] = cBuf[d]
        /\ sent'[d] = sent[d] /\ got'[d] = got[d]
    BY <1>2
  <2>2. FramedAt(d)
    BY <1>2, <2>1 DEF FramingInv, Gone
  <2>3. /\ ReadAt(d)' = ReadAt(d) /\ Sending(d)' = Sending(d)
        /\ SentMark(d)' = SentMark(d) /\ ServerAt(d)' = ServerAt(d)
    BY <1>1, <2>1 DEF ReadAt, Sending, SentMark, ServerAt
  <2> QED BY <1>1, <2>1, <2>2, <2>3 DEF FramedAt
<1>3. \A d \in Clients : downEnd'[d] # "OPEN" => ~ServerRuns'
  BY <1>1 DEF FramingInv
<1> QED BY <1>2, <1>3 DEF FramingInv

\* What a step of client c does to the others' fields.
LEMMA OthersSame ==
  ASSUME TypesInv, NEW c \in Clients
  PROVE  /\ \A at : Goto(c, at) => /\ cAt'[c] = at
                                  /\ \A d \in Clients \ {c} : cAt'[d] = cAt[d]
         /\ \A n, b : Hold(c, n, b) =>
              /\ cNeed'[c] = n /\ cBuf'[c] = b
              /\ \A d \in Clients \ {c} : cNeed'[d] = cNeed[d] /\ cBuf'[d] = cBuf[d]
BY DEF TypesInv, TypeOK, ClientTypeOK, Goto, Hold

LEMMA ClientEndsFraming ==
  ASSUME FramingInv, TypesInv', UNCHANGED <<serverVars, up, down, downEnd, sent, got>>,
         NEW c \in Clients, NEW how \in {"TERMINATED", "FAILED", "KILLED"},
         ClientEnds(c, how)
  PROVE  FramingInv'
<1>1. TypesInv /\ Goto(c, how) /\ Hold(c, 0, <<>>)
  BY DEF FramingInv, ClientEnds
<1>2. /\ cAt'[c] = how
      /\ \A d \in Clients \ {c} :
           cAt'[d] = cAt[d] /\ cNeed'[d] = cNeed[d] /\ cBuf'[d] = cBuf[d]
  BY <1>1, OthersSame
<1>3. Gone(c)'
  BY <1>2 DEF Gone
<1> QED BY <1>2, <1>3, ClientFraming

LEMMA ConnectFraming ==
  ASSUME FramingInv, TypesInv', UNCHANGED serverVars, NEW c \in Clients, Connect(c)
  PROVE  FramingInv'
<1>1. /\ UNCHANGED <<up, down, downEnd, sent, cNeed, cBuf, got>> /\ cAt[c] = "START"
      /\ TypesInv
  BY DEF Connect, streamVars, FramingInv
<1>2. PICK at \in {"POLL", "FAILED"} : Goto(c, at)
  BY DEF Connect
<1>3. cAt'[c] = at /\ \A d \in Clients \ {c} : cAt'[d] = cAt[d]
  BY <1>1, <1>2, OthersSame
<1>4. ASSUME ~Gone(c)' PROVE FramedAt(c)'
  <2>1. at = "POLL" /\ FramedAt(c)
    BY <1>1, <1>3, <1>4 DEF Gone, FramingInv
  <2>2. /\ ReadAt(c)' = ReadAt(c) /\ Sending(c)' = Sending(c)
        /\ SentMark(c)' = SentMark(c)
        /\ Reads(c, Len(got[c]) + 1, cAt[c], cNeed[c], cBuf[c])'
    BY <1>1, <1>3, <2>1 DEF ReadAt, Sending, SentMark, ReadMark, Unsent, Reads
  <2>3. ServerAt(c)' = ServerAt(c) /\ ServerRuns' = ServerRuns /\ UNCHANGED <<need, sBuf>>
    BY DEF serverVars, ServerAt, ServerRuns
  <2> QED BY <1>1, <2>1, <2>2, <2>3 DEF FramedAt
<1> QED BY <1>1, <1>3, <1>4, ClientFraming

LEMMA ServerSame ==
  ASSUME UNCHANGED serverVars, NEW c
  PROVE  ServerAt(c)' = ServerAt(c) /\ ServerRuns' = ServerRuns /\ UNCHANGED <<need, sBuf>>
BY DEF serverVars, ServerAt, ServerRuns

LEMMA ReadPieceFraming ==
  ASSUME FramingInv, TypesInv', UNCHANGED serverVars, NEW c \in Clients, ReadPiece(c)
  PROVE  FramingInv'
<1>1. /\ UNCHANGED <<up, down, downEnd, sent, cNeed, cBuf, got>>
      /\ cAt[c] \in {"POLL", "READ"} /\ Goto(c, "READ") /\ TypesInv /\ FramedAt(c)
  BY DEF ReadPiece, InProcessStdin, streamVars, FramingInv, Gone
<1>2. cAt'[c] = "READ" /\ \A d \in Clients \ {c} : cAt'[d] = cAt[d]
  BY <1>1, OthersSame
<1>3. /\ ReadAt(c)' = ReadAt(c) /\ Sending(c)' = Sending(c) /\ SentMark(c)' = SentMark(c)
      /\ Reads(c, Len(got[c]) + 1, cAt[c], cNeed[c], cBuf[c])'
  BY <1>1, <1>2 DEF ReadAt, Sending, SentMark, ReadMark, Unsent, Reads
<1>4. FramedAt(c)'
  BY <1>1, <1>3, ServerSame DEF FramedAt
<1> QED BY <1>1, <1>2, <1>4, ClientFraming

LEMMA ProcessInputFraming ==
  ASSUME FramingInv, TypesInv', UNCHANGED serverVars, NEW c \in Clients, ProcessInput(c)
  PROVE  FramingInv'
<1>1. /\ UNCHANGED <<up, down, downEnd, got>> /\ cAt[c] \in {"POLL", "READ"} /\ Goto(c, "SEND")
      /\ sent' = [sent EXCEPT ![c] = @ + 1] /\ Hold(c, 0, Pdu(c, Payload(c, sent[c] + 1)))
      /\ TypesInv /\ FramedAt(c)
  BY DEF ProcessInput, InProcessStdin, streamVars, FramingInv, Gone
<1>2. /\ cAt'[c] = "SEND" /\ cBuf'[c] = Pdu(c, Payload(c, sent[c] + 1))
      /\ \A d \in Clients \ {c} :
           cAt'[d] = cAt[d] /\ cNeed'[d] = cNeed[d] /\ cBuf'[d] = cBuf[d]
  BY <1>1, OthersSame
<1>3. /\ sent[c] \in Nat /\ sent'[c] = sent[c] + 1
      /\ \A d \in Clients \ {c} : sent'[d] = sent[d]
  BY <1>1, StreamAssumption DEF TypesInv, TypeOK, ClientTypeOK
<1>4. /\ SentMark(c) = <<sent[c] + 1, 0>> /\ SentMark(c)' = <<sent[c] + 2, 0>>
  <2>1. sent[c] + 1 + 1 = sent[c] + 2
    BY <1>3
  <2> QED BY <1>3, <2>1 DEF SentMark
<1>5. /\ ReadAt(c)' = ReadAt(c) /\ Sending(c) = <<>>
      /\ Sending(c)' = Pdu(c, Payload(c, sent[c] + 1))
      /\ Reads(c, Len(got[c]) + 1, cAt[c], cNeed[c], cBuf[c])'
  BY <1>1, <1>2 DEF ReadAt, Sending, ReadMark, Unsent, Reads
<1>6. FramedAt(c)'
  <2>1. CASE ServerRuns
    <3>1. Framed(c, ServerAt(c), need, sBuf, down[c], ReadAt(c), up[c], <<>>,
                 <<sent[c] + 1, 0>>)
      BY <1>1, <1>4, <1>5, <2>1 DEF FramedAt
    <3>2. Framed(c, ServerAt(c), need, sBuf, down[c], ReadAt(c), up[c],
                 Pdu(c, Payload(c, sent[c] + 1)), <<sent[c] + 2, 0>>)
      BY <1>3, <3>1, InputKeepsFramed
    <3> QED BY <1>1, <1>4, <1>5, <2>1, <3>2, ServerSame DEF FramedAt
  <2>2. CASE ~ServerRuns
    <3>1. PICK v \in Marks : Stretch(c, down[c], ReadAt(c), v) /\ NotAfter(v, SentMark(c))
      BY <1>1, <2>2 DEF FramedAt, FramedDown
    <3>2. NotAfter(SentMark(c), SentMark(c)') /\ SentMark(c) \in Marks /\ SentMark(c)' \in Marks
      <4>1. /\ sent[c] + 1 \in Nat \ {0} /\ sent[c] + 2 \in Nat \ {0}
            /\ sent[c] + 1 < sent[c] + 2
        BY <1>3
      <4> QED BY <1>4, <4>1, FirstUnit DEF NotAfter
    <3>3. NotAfter(v, SentMark(c)')
      BY <3>1, <3>2, NotAfterOrder
    <3>4. FramedDown(c, down[c], ReadAt(c), SentMark(c)')
      BY <3>1, <3>3 DEF FramedDown
    <3> QED BY <1>1, <1>5, <2>2, <3>4, ServerSame DEF FramedAt
  <2> QED BY <2>1, <2>2
<1> QED BY <1>1, <1>2, <1>3, <1>6, ClientFraming

LEMMA SendToServerFraming ==
  ASSUME FramingInv, TypesInv', UNCHANGED serverVars, NEW c \in Clients, SendToServer(c)
  PROVE  FramingInv'
<1>1. UNCHANGED <<sent, got>> /\ cAt[c] = "SEND" /\ TypesInv /\ FramedAt(c)
  BY DEF SendToServer, FramingInv, Gone
<1>2. CASE ClientEnds(c, "FAILED") /\ UNCHANGED streamVars
  BY <1>1, <1>2, ClientEndsFraming DEF streamVars
<1>3. CASE /\ up' = [up EXCEPT ![c] = Append(@, Head(cBuf[c]))]
           /\ Hold(c, 0, Tail(cBuf[c]))
           /\ Goto(c, IF Len(cBuf[c]) = 1 THEN "POLL" ELSE "SEND")
           /\ UNCHANGED <<backlog, down, upEnd, downEnd, broken>>
  <2>1. /\ cAt'[c] = IF Len(cBuf[c]) = 1 THEN "POLL" ELSE "SEND"
        /\ cBuf'[c] = Tail(cBuf[c])
        /\ \A d \in Clients \ {c} :
             cAt'[d] = cAt[d] /\ cNeed'[d] = cNeed[d] /\ cBuf'[d] = cBuf[d]
    BY <1>1, <1>3, OthersSame
  <2>2. /\ up \in [Clients -> Seq(Units)] /\ cBuf[c] \in Seq(Units) /\ cBuf[c] # <<>>
    BY <1>1 DEF TypesInv, TypeOK, StreamTypeOK, ClientTypeOK
  <2>3. up'[c] = Append(up[c], Head(cBuf[c])) /\ \A d \in Clients \ {c} : up'[d] = up[d]
    BY <1>3, <2>2
  <2>4. /\ Tail(cBuf[c]) \in Seq(Units)
        /\ Len(cBuf[c]) = 1 => Tail(cBuf[c]) = <<>>
    <3>1. /\ Tail(cBuf[c]) \in Seq(Units) /\ Len(Tail(cBuf[c])) = Len(cBuf[c]) - 1
      BY <2>2, HeadTailProperties
    <3>2. Len(cBuf[c]) = 1 => Len(Tail(cBuf[c])) = 0
      BY <3>1
    <3> QED BY <3>1, <3>2, EmptySeq
  <2>5. /\ ReadAt(c)' = ReadAt(c) /\ Sending(c) = cBuf[c] /\ Sending(c)' = Tail(cBuf[c])
        /\ SentMark(c)' = SentMark(c)
        /\ Reads(c, Len(got[c]) + 1, cAt[c], cNeed[c], cBuf[c])'
    BY <1>1, <2>1, <2>4 DEF ReadAt, Sending, SentMark, ReadMark, Unsent, Reads
  <2>6. FramedAt(c)'
    <3>1. CASE ServerRuns
      <4>1. Framed(c, ServerAt(c), need, sBuf, down[c], ReadAt(c), up[c], cBuf[c],
                   SentMark(c))
        BY <1>1, <2>5, <3>1 DEF FramedAt
      <4>2. Framed(c, ServerAt(c), need, sBuf, down[c], ReadAt(c),
                   Append(up[c], Head(cBuf[c])), Tail(cBuf[c]), SentMark(c))
        BY <2>2, <4>1, ClientSendKeepsFramed
      <4> QED BY <1>3, <2>3, <2>5, <3>1, <4>2, ServerSame DEF FramedAt
    <3>2. CASE ~ServerRuns
      BY <1>1, <1>3, <2>5, <3>2, ServerSame DEF FramedAt
    <3> QED BY <3>1, <3>2
  <2> QED BY <1>1, <1>3, <2>1, <2>3, <2>6, ClientFraming
<1> QED BY <1>2, <1>3 DEF SendToServer

\* A client takes some of what is under way to it.
LEMMA TakingFramed ==
  ASSUME UNCHANGED serverVars, NEW c \in Clients, FramedAt(c),
         up'[c] = up[c], Sending(c)' = Sending(c), SentMark(c)' = SentMark(c),
         Reads(c, Len(got[c]) + 1, cAt[c], cNeed[c], cBuf[c])',
         \A v \in Marks : Stretch(c, down[c], ReadAt(c), v)
                          => Stretch(c, down'[c], ReadAt(c)', v)
  PROVE  FramedAt(c)'
<1>1. /\ ServerRuns => Framed(c, ServerAt(c), need, sBuf, down'[c], ReadAt(c)', up[c],
                              Sending(c), SentMark(c))
      /\ ~ServerRuns => FramedDown(c, down'[c], ReadAt(c)', SentMark(c))
  BY ReadingKeepsFramed DEF FramedAt
<1> QED BY <1>1, ServerSame DEF FramedAt

LEMMA MsgFromServerFraming ==
  ASSUME FramingInv, TypesInv', UNCHANGED serverVars, NEW c \in Clients, MsgFromServer(c)
  PROVE  FramingInv'
<1>1. UNCHANGED sent /\ cAt[c] = "POLL" /\ TypesInv /\ FramedAt(c)
  BY DEF MsgFromServer, FramingInv, Gone
<1>2. CASE /\ down[c] # <<>> /\ down' = [down EXCEPT ![c] = Tail(@)]
           /\ Hold(c, Head(down[c]).len, <<>>) /\ Goto(c, "PAYLOAD")
           /\ UNCHANGED <<backlog, up, upEnd, downEnd, broken, got>>
  <2> DEFINE m == Len(got[c]) + 1
  <2>1. /\ cAt'[c] = "PAYLOAD" /\ cNeed'[c] = Head(down[c]).len /\ cBuf'[c] = <<>>
        /\ \A d \in Clients \ {c} :
             cAt'[d] = cAt[d] /\ cNeed'[d] = cNeed[d] /\ cBuf'[d] = cBuf[d]
    BY <1>1, <1>2, OthersSame
  <2>2. down \in [Clients -> Seq(Units)] /\ m \in Nat \ {0}
    <3>1. down \in [Clients -> Seq(Units)]
      BY <1>1 DEF TypesInv, TypeOK, StreamTypeOK
    <3>2. got[c] \in Seq(0 .. MaxMsgs)
      BY <1>1 DEF TypesInv, TypeOK, ClientTypeOK
    <3>3. Len(got[c]) \in Nat
      BY <3>2, LenProperties
    <3> QED BY <3>1, <3>3
  <2> HIDE DEF m
  <2>3. down'[c] = Tail(down[c]) /\ \A d \in Clients \ {c} : down'[d] = down[d]
    BY <1>2, <2>2
  <2>4. ReadAt(c) = <<m, 0>>
    BY <1>1 DEF ReadAt, ReadMark, m
  <2>5. ASSUME NEW v \in Marks, Stretch(c, down[c], <<m, 0>>, v)
        PROVE  Head(down[c]).len = PayloadLen(m) /\ Stretch(c, Tail(down[c]), <<m, 1>>, v)
    <3>1. /\ Head(down[c]) = UnitAt(c, <<m, 0>>)
          /\ Stretch(c, Tail(down[c]), After(<<m, 0>>), v)
      BY <1>2, <2>2, <2>5, StretchTail
    <3> QED BY <2>2, <3>1, FirstUnit
  <2>6. Head(down[c]).len = PayloadLen(m)
    <3>1. FramedDown(c, down[c], <<m, 0>>, SentMark(c))
      BY <1>1, <2>4, FramedAtDown
    <3> QED BY <2>5, <3>1 DEF FramedDown
  <2>7. /\ ReadAt(c)' = <<m, 1>> /\ Sending(c)' = Sending(c) /\ SentMark(c)' = SentMark(c)
        /\ Reads(c, Len(got[c]) + 1, cAt[c], cNeed[c], cBuf[c])'
    <3>1. /\ Reads(c, m, "PAYLOAD", PayloadLen(m), <<>>)
          /\ ReadMark(m, "PAYLOAD", <<>>) = <<m, 1>>
      BY <2>2, NothingCame
    <3>2. got'[c] = got[c]
      BY <1>2
    <3> QED BY <1>1, <2>1, <2>6, <3>1, <3>2 DEF ReadAt, Sending, SentMark, Unsent, m
  <2>8. FramedAt(c)'
    BY <1>1, <1>2, <2>3, <2>4, <2>5, <2>7, TakingFramed
  <2> QED BY <1>1, <1>2, <2>1, <2>3, <2>8, ClientFraming
<1>3. CASE RecvFails(c) \/ ServerTerminated(c)
  BY <1>1, <1>3, ClientEndsFraming DEF RecvFails, ServerTerminated, streamVars
<1> QED BY <1>2, <1>3 DEF MsgFromServer

\* A client that waits for the rest of a message: the message is one of those it has
\* sent, recv takes the rest or a part of it, and only a server that has ended
\* leaves it at a part.
LEMMA Waiting ==
  ASSUME FramingInv, NEW c \in Clients, cAt[c] = "PAYLOAD",
         NEW m, m = Len(got[c]) + 1
  PROVE  /\ m \in 1 .. sent[c] /\ cNeed[c] = PayloadLen(m) /\ Partial(c, m, cBuf[c])
         /\ FramedAt(c) /\ ReadAt(c) = <<m, Len(cBuf[c]) + 1>> /\ down[c] \in Seq(Units)
         /\ sent[c] \in 0 .. MaxMsgs
         /\ ~ServerRuns \/ downEnd[c] = "OPEN"
<1>1. TypesInv /\ FramedAt(c) /\ (~ServerRuns \/ downEnd[c] = "OPEN")
  BY DEF FramingInv, Gone
<1>2. cNeed[c] = PayloadLen(m) /\ Partial(c, m, cBuf[c])
  BY <1>1 DEF FramedAt, Reads
<1>3. ReadAt(c) = <<m, Len(cBuf[c]) + 1>>
  BY DEF ReadAt, ReadMark
<1>4. /\ down[c] \in Seq(Units) /\ sent[c] \in 0 .. MaxMsgs /\ MaxMsgs \in Nat
      /\ Len(got[c]) \in Nat /\ Len(cBuf[c]) \in Nat
  BY <1>1, LenProperties, StreamAssumption DEF TypesInv, TypeOK, StreamTypeOK, ClientTypeOK
<1>5. PICK v \in Marks : Stretch(c, down[c], ReadAt(c), v) /\ NotAfter(v, SentMark(c))
  BY <1>1, FramedAtDown DEF FramedDown
<1>6. ReadAt(c) \in Marks /\ NotAfter(ReadAt(c), v) /\ SentMark(c) \in Marks
  <2>1. sent[c] + 1 \in Nat \ {0}
    BY <1>4
  <2> QED BY <1>4, <1>5, <2>1, StretchEnds, FirstUnit DEF SentMark
<1>7. NotAfter(<<m, Len(cBuf[c]) + 1>>, <<sent[c] + 1, 0>>)
  BY <1>3, <1>5, <1>6, NotAfterOrder DEF SentMark
<1>8. m < sent[c] + 1
  <2>1. ~(Len(cBuf[c]) + 1 <= 0)
    BY <1>4
  <2> QED BY <1>7, <2>1 DEF NotAfter
<1>9. m \in 1 .. sent[c]
  BY <1>4, <1>8
<1> QED BY <1>1, <1>2, <1>3, <1>4, <1>9

LEMMA RecvMessageFraming ==
  ASSUME FramingInv, TypesInv', UNCHANGED serverVars, NEW c \in Clients, RecvMessage(c)
  PROVE  FramingInv'
<1>1. UNCHANGED sent /\ cAt[c] = "PAYLOAD" /\ TypesInv
  BY DEF RecvMessage, FramingInv
<1>2. PICK m : m = Len(got[c]) + 1
  OBVIOUS
<1>3. /\ m \in 1 .. sent[c] /\ cNeed[c] = PayloadLen(m) /\ Partial(c, m, cBuf[c])
      /\ FramedAt(c) /\ ReadAt(c) = <<m, Len(cBuf[c]) + 1>> /\ down[c] \in Seq(Units)
      /\ sent[c] \in 0 .. MaxMsgs /\ (~ServerRuns \/ downEnd[c] = "OPEN")
  BY <1>1, <1>2, Waiting
<1>4. /\ down \in [Clients -> Seq(Units)] /\ got \in [Clients -> Seq(0 .. MaxMsgs)]
      /\ MaxMsgs \in Nat /\ m \in Nat \ {0}
  <2>1. down \in [Clients -> Seq(Units)] /\ got \in [Clients -> Seq(0 .. MaxMsgs)]
    BY <1>1 DEF TypesInv, TypeOK, StreamTypeOK, ClientTypeOK
  <2>2. MaxMsgs \in Nat
    BY StreamAssumption
  <2>3. m \in Nat \ {0}
    BY <1>3, <2>2
  <2> QED BY <2>1, <2>2, <2>3
\* What printing a message changes.
<1>5. ASSUME NEW data, PrintMessage(c, data), UNCHANGED sent
      PROVE  /\ ReadAt(c)' = <<m + 1, 0>> /\ Sending(c)' = Sending(c)
             /\ SentMark(c)' = SentMark(c)
             /\ Reads(c, Len(got[c]) + 1, cAt[c], cNeed[c], cBuf[c])'
             /\ \A d \in Clients \ {c} :
                  /\ cAt'[d] = cAt[d] /\ cNeed'[d] = cNeed[d] /\ cBuf'[d] = cBuf[d]
                  /\ got'[d] = got[d]
  <2>1. /\ cAt'[c] = "POLL"
        /\ \A d \in Clients \ {c} :
             cAt'[d] = cAt[d] /\ cNeed'[d] = cNeed[d] /\ cBuf'[d] = cBuf[d]
    BY <1>1, <1>5, OthersSame DEF PrintMessage
  <2>2. got'[c] = Append(got[c], MessageOf(c, data)) /\ \A d \in Clients \ {c} : got'[d] = got[d]
    BY <1>4, <1>5 DEF PrintMessage
  <2>3. Len(got'[c]) = m
    <3>1. MessageOf(c, data) \in 0 .. MaxMsgs /\ got[c] \in Seq(0 .. MaxMsgs)
      BY <1>4, MessageOfType
    <3> QED BY <1>2, <2>2, <3>1, AppendProperties
  <2> QED BY <1>1, <1>5, <2>1, <2>2, <2>3 DEF ReadAt, ReadMark, Sending, Unsent, SentMark, Reads
<1>6. CASE /\ down' = [down EXCEPT ![c] = Leaves(@, cBuf[c], cNeed[c])]
           /\ LET data == cBuf[c] \o Takes(down[c], cBuf[c], cNeed[c]) IN
              IF Len(data) = cNeed[c] THEN PrintMessage(c, data)
              ELSE Hold(c, cNeed[c], data) /\ UNCHANGED <<cAt, got>>
           /\ UNCHANGED <<backlog, up, upEnd, downEnd, broken>>
  <2>1. PICK data : data = cBuf[c] \o Takes(down[c], cBuf[c], PayloadLen(m))
    OBVIOUS
  <2>2. PICK rest : rest = Leaves(down[c], cBuf[c], PayloadLen(m))
    OBVIOUS
  <2>3. down'[c] = rest /\ \A d \in Clients \ {c} : down'[d] = down[d]
    BY <1>3, <1>4, <1>6, <2>2
  <2>4. ASSUME NEW v \in Marks, Stretch(c, down[c], ReadAt(c), v)
        PROVE  \/ /\ Len(data) = PayloadLen(m) /\ Stretch(c, rest, <<m + 1, 0>>, v)
               \/ /\ Len(data) # PayloadLen(m) /\ Partial(c, m, data)
                  /\ Stretch(c, rest, <<m, Len(data) + 1>>, v)
    <3>1. /\ Stretch(c, down[c], <<m, Len(cBuf[c]) + 1>>, v) /\ down[c] \in Seq(Units)
          /\ m \in Nat \ {0} /\ Partial(c, m, cBuf[c])
      BY <1>3, <1>4, <2>4
    <3> QED BY <2>1, <2>2, <3>1, Receive, ZenonT(40)
  <2>5. CASE Len(data) = PayloadLen(m)
    <3>1. PrintMessage(c, data)
      BY <1>3, <1>6, <2>1, <2>5
    <3>2. FramedAt(c)'
      <4>1. \A v \in Marks : Stretch(c, down[c], ReadAt(c), v)
                             => Stretch(c, down'[c], ReadAt(c)', v)
        BY <1>1, <1>5, <2>3, <2>4, <2>5, <3>1
      <4> QED BY <1>1, <1>3, <1>5, <1>6, <3>1, <4>1, TakingFramed
    <3> QED BY <1>1, <1>5, <1>6, <2>3, <3>1, <3>2, ClientFraming
  <2>6. CASE Len(data) # PayloadLen(m)
    <3>1. Hold(c, cNeed[c], data) /\ UNCHANGED <<cAt, got>>
      BY <1>3, <1>6, <2>1, <2>6
    <3>2. /\ cNeed'[c] = cNeed[c] /\ cBuf'[c] = data
          /\ \A d \in Clients \ {c} : cNeed'[d] = cNeed[d] /\ cBuf'[d] = cBuf[d]
      BY <1>1, <3>1, OthersSame
    <3>3. Partial(c, m, data)
      <4>1. FramedDown(c, down[c], ReadAt(c), SentMark(c))
        BY <1>1, <1>3, FramedAtDown
      <4> QED BY <2>4, <2>6, <4>1 DEF FramedDown
    <3>4. /\ ReadAt(c)' = <<m, Len(data) + 1>> /\ Sending(c)' = Sending(c)
          /\ SentMark(c)' = SentMark(c)
          /\ Reads(c, Len(got[c]) + 1, cAt[c], cNeed[c], cBuf[c])'
      BY <1>1, <1>2, <1>3, <3>1, <3>2, <3>3
      DEF ReadAt, ReadMark, Sending, Unsent, SentMark, Reads
    <3>5. FramedAt(c)'
      <4>1. \A v \in Marks : Stretch(c, down[c], ReadAt(c), v)
                             => Stretch(c, down'[c], ReadAt(c)', v)
        BY <2>3, <2>4, <2>6, <3>4
      <4> QED BY <1>3, <1>6, <3>4, <4>1, TakingFramed
    <3> QED BY <1>1, <1>6, <2>3, <3>1, <3>2, <3>5, ClientFraming
  <2> QED BY <2>5, <2>6
<1>7. CASE /\ down[c] = <<>> /\ downEnd[c] # "OPEN"
           /\ PrintMessage(c, cBuf[c]) /\ UNCHANGED streamVars
  <2>1. UNCHANGED <<up, down, downEnd>> /\ ~ServerRuns
    BY <1>3, <1>7 DEF streamVars
  <2>2. FramedDown(c, <<>>, <<m + 1, 0>>, SentMark(c))
    <3>1. m + 1 \in Nat \ {0} /\ (m + 1 < sent[c] + 1 \/ (m + 1 = sent[c] + 1 /\ 0 <= 0))
      BY <1>3, <1>4
    <3>2. <<m + 1, 0>> \in Marks /\ NotAfter(<<m + 1, 0>>, SentMark(c))
      BY <3>1, FirstUnit DEF NotAfter, SentMark
    <3>3. Stretch(c, <<>>, <<m + 1, 0>>, <<m + 1, 0>>)
      BY <3>2, StretchEmpty
    <3> QED BY <3>2, <3>3, Zenon DEF FramedDown
  <2>3. FramedAt(c)'
    BY <1>1, <1>5, <1>7, <2>1, <2>2, ServerSame DEF FramedAt
  <2> QED BY <1>1, <1>5, <1>7, <2>1, <2>3, ClientFraming
<1>8. CASE RecvFails(c) \/ ServerTerminated(c)
  BY <1>1, <1>8, ClientEndsFraming DEF RecvFails, ServerTerminated, streamVars
<1> QED BY <1>6, <1>7, <1>8 DEF RecvMessage

LEMMA ClientStepFraming ==
  ASSUME FramingInv, NEW c \in Clients, ClientStep(c) PROVE FramingInv'
<1>1. TypesInv' /\ UNCHANGED serverVars
  BY ClientStepTypes DEF FramingInv, ClientStep
<1> QED BY <1>1, ConnectFraming, ReadPieceFraming, ProcessInputFraming, SendToServerFraming,
           MsgFromServerFraming, RecvMessageFraming DEF ClientStep, ClientNext

LEMMA UserStepFraming ==
  ASSUME FramingInv, NEW c \in Clients, UserStep(c) PROVE FramingInv'
<1>1. TypesInv' /\ UNCHANGED serverVars
  BY UserStepTypes DEF FramingInv, UserStep
<1>2. CASE TypeLine(c) \/ InputEnds(c)
  <2>1. UNCHANGED <<up, down, downEnd, cAt, sent, cNeed, cBuf, got>>
    BY <1>2 DEF TypeLine, InputEnds, streamVars
  <2>2. \A d \in Clients : FramedAt(d)' = FramedAt(d) /\ Gone(d)' = Gone(d)
    BY <1>1, <2>1, ServerSame DEF FramedAt, ReadAt, Sending, SentMark, Gone
  <2>3. ServerRuns' = ServerRuns
    BY <1>1, ServerSame
  <2> QED BY <1>1, <2>1, <2>2, <2>3 DEF FramingInv
<1>3. CASE KillClient(c)
  BY <1>1, <1>3, ClientEndsFraming DEF KillClient, CloseClientEnd
<1> QED BY <1>2, <1>3 DEF UserStep

LEMMA ResetStepFraming ==
  ASSUME FramingInv, NEW c \in Clients, ResetStep(c) PROVE FramingInv'
<1>1. TypesInv' /\ UNCHANGED <<serverVars, clientVars>>
  BY ResetStepTypes DEF FramingInv, ResetStep
<1>2. UNCHANGED <<cAt, sent, cNeed, cBuf, got>> /\ UNCHANGED downEnd
  BY <1>1 DEF clientVars, ResetStep, Resets, ResetServerEnd, ResetClientEnd
<1>3. \A d \in Clients \ {c} : up'[d] = up[d] /\ down'[d] = down[d]
  BY DEF ResetStep, Resets, ResetServerEnd, ResetClientEnd, FramingInv, TypesInv, TypeOK,
    StreamTypeOK
<1>4. ASSUME ~Gone(c)' PROVE FramedAt(c)'
  <2>1. ~Gone(c) /\ FramedAt(c)
    BY <1>1, <1>4, ClientsSame DEF FramingInv
  <2>2. ~ServerRuns /\ UNCHANGED down
    BY <2>1 DEF ResetStep, Resets, ResetClientEnd, Gone
  <2>3. /\ ReadAt(c)' = ReadAt(c) /\ SentMark(c)' = SentMark(c)
        /\ Reads(c, Len(got[c]) + 1, cAt[c], cNeed[c], cBuf[c])'
    BY <1>1, <2>1, ClientsSame DEF FramedAt
  <2> QED BY <1>1, <2>1, <2>2, <2>3, ServerSame DEF FramedAt
<1> QED BY <1>1, <1>2, <1>3, <1>4, ClientFraming

LEMMA NextFraming == FramingInv /\ [Next]_vars => FramingInv'
<1> SUFFICES ASSUME FramingInv, [Next]_vars PROVE FramingInv'
  OBVIOUS
<1>1. CASE UNCHANGED vars
  <2>1. UNCHANGED <<streamVars, serverVars, clientVars>> /\ TypesInv'
    BY <1>1, NextTypes DEF vars, FramingInv
  <2>2. UNCHANGED <<up, down, downEnd>>
    BY <2>1 DEF streamVars
  <2>3. /\ ServerRuns' = ServerRuns
        /\ \A d \in Clients : FramedAt(d)' = FramedAt(d) /\ Gone(d)' = Gone(d)
    BY <2>1, <2>2, ServerSame, ClientsSame DEF FramedAt
  <2> QED BY <2>1, <2>2, <2>3 DEF FramingInv
<1> QED BY <1>1, ServerStepFraming, FaultStepFraming, ClientStepFraming, UserStepFraming,
           ResetStepFraming DEF Next

\* No unit of a client's messages is lost, doubled or moved while the server runs:
\* what is in the two buffers of each connection, in the server and in the client is
\* always what the client has sent and not got back (sendPDU, recvPDU).
THEOREM StreamsFramed == Spec => []FramingInv
BY InitFraming, NextFraming, PTL DEF Spec

-----------------------------------------------------------------------------
(* The refinement.                                                         *)

LEMMA InitImplements == Init => ES!Init
BY DEF Init, ServerInit, ClientInit, ServerRuns, ES!Init

\* A whole payload is known from all others, and from a part of it.
LEMMA MessageOfPayload ==
  ASSUME NEW c \in Clients, NEW m \in 1 .. MaxMsgs
  PROVE  MessageOf(c, Payload(c, m)) = m
<1>1. MaxMsgs \in Nat
  BY StreamAssumption
<1>2. ASSUME NEW j \in 1 .. MaxMsgs
      PROVE  Payload(c, j)[1].msg = j
  <2>1. j \in Nat /\ PayloadLen(j) \in Nat \ {0}
    BY <1>1, PayloadLenType
  <2>2. 1 \in 1 .. PayloadLen(j)
    BY <2>1
  <2>3. Payload(c, j)[1] = [of |-> c, msg |-> j, part |-> 1, len |-> 0]
    BY <2>1, <2>2, PayloadType
  <2> QED BY <2>3
<1>3. \A j \in 1 .. MaxMsgs : Payload(c, m) = Payload(c, j) => j = m
  BY <1>2
<1> QED BY <1>3 DEF MessageOf

LEMMA MessageOfPart ==
  ASSUME NEW c \in Clients, NEW m \in 1 .. MaxMsgs, NEW b, Partial(c, m, b), b # <<>>
  PROVE  MessageOf(c, b) = CutShort
<1>1. MaxMsgs \in Nat /\ m \in Nat
  BY StreamAssumption
<1>2. b \in Seq(Units) /\ Len(b) \in Nat \ {0} /\ Len(b) < PayloadLen(m)
      /\ b[1] = Payload(c, m)[1] /\ PayloadLen(m) \in Nat
  <2>1. b \in Seq(Units) /\ Len(b) \in Nat /\ Len(b) < PayloadLen(m) /\ PayloadLen(m) \in Nat
    BY <1>1, LenProperties, PayloadLenType DEF Partial
  <2>2. Len(b) # 0
    BY <2>1, EmptySeq
  <2>3. 1 \in 1 .. Len(b)
    BY <2>1, <2>2
  <2> QED BY <2>1, <2>2, <2>3 DEF Partial
<1>3. ASSUME NEW j \in 1 .. MaxMsgs, b = Payload(c, j) PROVE FALSE
  <2>1. j \in Nat /\ PayloadLen(j) \in Nat \ {0} /\ PayloadLen(m) \in Nat \ {0}
    BY <1>1, PayloadLenType
  <2>2. 1 \in 1 .. PayloadLen(j) /\ 1 \in 1 .. PayloadLen(m)
    BY <2>1
  <2>3. /\ Payload(c, j)[1] = [of |-> c, msg |-> j, part |-> 1, len |-> 0]
        /\ Len(Payload(c, j)) = PayloadLen(j)
    BY <2>1, <2>2, PayloadType
  <2>4. Payload(c, m)[1] = [of |-> c, msg |-> m, part |-> 1, len |-> 0]
    BY <1>1, <2>2, PayloadType
  <2>5. j = m
    BY <1>2, <1>3, <2>3, <2>4
  <2> QED BY <1>2, <1>3, <2>1, <2>3, <2>5
<1> QED BY <1>3 DEF MessageOf

LEMMA ServerSideImplements ==
  ASSUME UNCHANGED clientVars, ServerRuns \/ ServerRuns' = ServerRuns
  PROVE  [ES!Next]_ES!vars
<1>1. UNCHANGED <<sent, got>>
  BY DEF clientVars
<1>2. CASE ServerRuns' = ServerRuns
  BY <1>1, <1>2 DEF ES!vars
<1>3. CASE ServerRuns /\ ~ServerRuns'
  <2>1. ServerRuns' = FALSE
    BY <1>3 DEF ServerRuns
  <2>2. ES!End
    BY <1>1, <1>3, <2>1 DEF ES!End
  <2> QED BY <2>2 DEF ES!Next
<1> QED BY <1>2, <1>3 DEF ServerRuns

LEMMA PrintImplements ==
  ASSUME FramingInv, UNCHANGED serverVars, NEW c \in Clients, cAt[c] = "PAYLOAD",
         UNCHANGED sent, NEW data, PrintMessage(c, data),
         \/ data = Payload(c, Len(got[c]) + 1)
         \/ data = cBuf[c] /\ cBuf[c] # <<>> /\ downEnd[c] # "OPEN"
  PROVE  ES!Next
<1>1. PICK m : m = Len(got[c]) + 1
  OBVIOUS
<1>2. /\ m \in 1 .. sent[c] /\ Partial(c, m, cBuf[c]) /\ sent[c] \in 0 .. MaxMsgs
      /\ (~ServerRuns \/ downEnd[c] = "OPEN")
  BY <1>1, Waiting
<1>3. m \in 1 .. MaxMsgs /\ Len(got[c]) < sent[c]
  <2>1. MaxMsgs \in Nat /\ Len(got[c]) \in Nat
    BY StreamAssumption, LenProperties DEF FramingInv, TypesInv, TypeOK, ClientTypeOK
  <2> QED BY <1>1, <1>2, <2>1
<1>4. /\ got' = [got EXCEPT ![c] = Append(@, MessageOf(c, data))]
      /\ UNCHANGED <<sent, ServerRuns>>
  BY ServerSame DEF PrintMessage
<1>5. CASE data = Payload(c, m)
  <2>1. MessageOf(c, data) = m
    BY <1>3, <1>5, MessageOfPayload
  <2>2. ES!Echo(c)
    BY <1>1, <1>3, <1>4, <2>1 DEF ES!Echo
  <2> QED BY <2>2 DEF ES!Next
<1>6. CASE data = cBuf[c] /\ cBuf[c] # <<>> /\ downEnd[c] # "OPEN"
  <2>1. MessageOf(c, data) = CutShort
    BY <1>2, <1>3, <1>6, MessageOfPart
  <2>2. ES!Truncate(c)
    BY <1>2, <1>3, <1>4, <1>6, <2>1 DEF ES!Truncate
  <2> QED BY <2>2 DEF ES!Next
<1> QED BY <1>1, <1>5, <1>6

LEMMA RecvMessageImplements ==
  ASSUME FramingInv, UNCHANGED serverVars, NEW c \in Clients, RecvMessage(c)
  PROVE  [ES!Next]_ES!vars
<1>1. UNCHANGED <<sent, ServerRuns>> /\ cAt[c] = "PAYLOAD"
  BY ServerSame DEF RecvMessage
<1>2. CASE UNCHANGED got
  BY <1>1, <1>2 DEF ES!vars
<1>3. CASE /\ cBuf[c] # <<>> /\ downEnd[c] # "OPEN" /\ PrintMessage(c, cBuf[c])
  BY <1>1, <1>3, PrintImplements
<1>4. ASSUME NEW data, data = cBuf[c] \o Takes(down[c], cBuf[c], cNeed[c]),
             Len(data) = cNeed[c], PrintMessage(c, data)
      PROVE  [ES!Next]_ES!vars
  <2>1. PICK m : m = Len(got[c]) + 1
    OBVIOUS
  <2>2. /\ m \in 1 .. sent[c] /\ cNeed[c] = PayloadLen(m) /\ Partial(c, m, cBuf[c])
        /\ FramedAt(c) /\ ReadAt(c) = <<m, Len(cBuf[c]) + 1>> /\ down[c] \in Seq(Units)
        /\ sent[c] \in 0 .. MaxMsgs
    BY <1>1, <2>1, Waiting
  <2>3. m \in Nat \ {0} /\ TypesInv
    BY <2>2, StreamAssumption DEF FramingInv
  <2>4. PICK v \in Marks : Stretch(c, down[c], <<m, Len(cBuf[c]) + 1>>, v)
    BY <2>2, <2>3, FramedAtDown DEF FramedDown
  <2>5. data = Payload(c, m)
    <3>1. /\ data = cBuf[c] \o Takes(down[c], cBuf[c], PayloadLen(m))
          /\ Len(data) = PayloadLen(m)
      BY <1>4, <2>2
    <3> QED BY <2>2, <2>3, <2>4, <3>1, Receive, ZenonT(40)
  <2>6. ES!Next
    BY <1>1, <1>4, <2>1, <2>5, PrintImplements
  <2> QED BY <2>6
<1> QED BY <1>2, <1>3, <1>4 DEF RecvMessage, RecvFails, ServerTerminated

LEMMA ClientStepImplements ==
  ASSUME FramingInv, NEW c \in Clients, ClientStep(c)
  PROVE  [ES!Next]_ES!vars
<1>1. UNCHANGED serverVars /\ ServerRuns' = ServerRuns
  BY ServerSame DEF ClientStep
<1>2. CASE Connect(c) \/ ReadPiece(c) \/ SendToServer(c) \/ MsgFromServer(c)
  <2>1. UNCHANGED <<sent, got>>
    BY <1>2 DEF Connect, ReadPiece, SendToServer, MsgFromServer, RecvFails, ServerTerminated
  <2> QED BY <1>1, <2>1 DEF ES!vars
<1>3. CASE ProcessInput(c)
  <2>1. ES!Send(c)
    BY <1>1, <1>3 DEF ProcessInput, ES!Send
  <2> QED BY <2>1 DEF ES!Next
<1>4. CASE RecvMessage(c)
  BY <1>1, <1>4, RecvMessageImplements
<1> QED BY <1>2, <1>3, <1>4 DEF ClientStep, ClientNext

LEMMA NextImplements == FramingInv /\ [Next]_vars => [ES!Next]_ES!vars
<1> SUFFICES ASSUME FramingInv, [Next]_vars PROVE [ES!Next]_ES!vars
  OBVIOUS
<1>1. CASE UNCHANGED vars
  <2>1. UNCHANGED <<sent, got>> /\ ServerRuns' = ServerRuns
    BY <1>1 DEF vars, serverVars, clientVars, ServerRuns
  <2> QED BY <2>1 DEF ES!vars
<1>2. CASE ServerStep
  <2>1. ServerRuns
    BY <1>2 DEF ServerStep, ServerNext, AddNewSocket, ProcessStdin, RecvHeader, PolledClient,
      RecvPayload, SendToClient, ServerRuns
  <2> QED BY <1>2, <2>1, ServerSideImplements DEF ServerStep
<1>3. CASE FaultStep
  <2>1. ServerRuns
    BY <1>3 DEF FaultStep, ServerStopped, StdinHangsUp
  <2> QED BY <1>3, <2>1, ServerSideImplements DEF FaultStep
<1>4. ASSUME NEW c \in Clients, ResetStep(c) PROVE [ES!Next]_ES!vars
  <2>1. UNCHANGED clientVars /\ ServerRuns' = ServerRuns
    BY <1>4, ServerSame DEF ResetStep
  <2> QED BY <2>1, ServerSideImplements
<1>5. ASSUME NEW c \in Clients, UserStep(c) PROVE [ES!Next]_ES!vars
  <2>1. UNCHANGED <<sent, got>> /\ ServerRuns' = ServerRuns
    BY <1>5, ServerSame DEF UserStep, TypeLine, InputEnds, KillClient
  <2> QED BY <2>1 DEF ES!vars
<1> QED BY <1>1, <1>2, <1>3, <1>4, <1>5, ClientStepImplements DEF Next

\* p2 implements EchoService: each client gets back its own messages, whole, once each
\* and in order, and a last one cut short only when the server has ended (sendPDU,
\* recvPDU, recvFromClient).
THEOREM Implements == Spec => ImplementsEchoService
<1>1. Init => ES!Init
  BY InitImplements
<1>2. FramingInv /\ [Next]_vars => [ES!Next]_ES!vars
  BY NextImplements
<1> QED BY <1>1, <1>2, StreamsFramed, PTL DEF Spec, ImplementsEchoService, ES!Spec
=============================================================================
