------------------------------- MODULE Window -------------------------------
(***************************************************************************)
(* window.c: the circular buffer both ends keep.  The file's one global    *)
(* `window` is a value here, since rcopy and every server child have a     *)
(* copy of their own: the functions of the file are operators from a       *)
(* window to a window.  dataSize is 0 for a slot nothing was stored in     *)
(* (or that was skipped) and 1 for any other size.                         *)
(***************************************************************************)
EXTENDS Packet

CONSTANT WindowSize
ASSUME WindowSizeAssumption == WindowSize \in Nat \ {0}

Slots == 0 .. WindowSize - 1
Elements == [valid : BOOLEAN, dataSize : {0, 1}, packet : Packets]
Windows ==
  [lower : Nat, current : Nat, upper : Nat, elements : [Slots -> Elements]]

Slot(n) == n % WindowSize

\* Mutants of the operators below stand before them; their names say the bug.
NewWindow_OneSlotMore ==
  [lower |-> SEQ_NUM_START,
   current |-> SEQ_NUM_START,
   upper |-> SEQ_NUM_START + WindowSize + 1,
   elements |->
     [i \in Slots |-> [valid |-> FALSE, dataSize |-> 0, packet |-> ZeroPacket]]]

\* windowInit
NewWindow ==
  [lower |-> SEQ_NUM_START,
   current |-> SEQ_NUM_START,
   upper |-> SEQ_NUM_START + WindowSize,
   elements |->
     [i \in Slots |-> [valid |-> FALSE, dataSize |-> 0, packet |-> ZeroPacket]]]

IsWindowOpen_AtUpper(w) == w.current <= w.upper
IsWindowOpen(w) == w.current # w.upper

PacketValidInWindow(w, n) == w.elements[Slot(n)].valid

Stored(p) == [valid |-> TRUE, dataSize |-> 1, packet |-> p]

\* The slots of the numbers from ..  to - 1, as the for loops walk them.
SlotsFrom(from, to) == {Slot(i) : i \in from .. (to - 1)}

\* addPacket stores the packet first and then invalidates every slot it
\* skips over: also the slot just stored, if the skip wraps around the ring.
\* The caller has checked IsWindowOpen (otherwise addPacket returns false).
AddPacket(w, p) ==
  LET stored  == [w.elements EXCEPT ![Slot(p.seq)] = Stored(p)]
      skipped == SlotsFrom(w.current, p.seq)
  IN  [w EXCEPT
        !.elements =
          [i \in Slots |->
             IF i \in skipped
             THEN [stored[i] EXCEPT !.valid = FALSE, !.dataSize = 0]
             ELSE stored[i]],
        !.current = IF p.seq >= w.current THEN p.seq + 1 ELSE w.current]

ReplacePacket(w, p) == [w EXCEPT !.elements[Slot(p.seq)] = Stored(p)]

\* getPacket and getLowestPacket: whatever the slot holds, valid or not.
GetPacket(w, n) == w.elements[Slot(n)]
GetLowestPacket(w) == GetPacket(w, w.lower)

RemovePacket_KeepsValid(w, n) == [w EXCEPT !.lower = n, !.upper = n + WindowSize]
RemovePacket_OneSlotMore(w, n) ==
  [w EXCEPT
    !.elements =
      [i \in Slots |-> IF i \in SlotsFrom(w.lower, n)
                       THEN [w.elements[i] EXCEPT !.valid = FALSE]
                       ELSE w.elements[i]],
    !.lower = n,
    !.upper = n + WindowSize + 1]
RemovePacket_MovesCurrent(w, n) ==
  [w EXCEPT
    !.elements =
      [i \in Slots |-> IF i \in SlotsFrom(w.lower, n)
                       THEN [w.elements[i] EXCEPT !.valid = FALSE]
                       ELSE w.elements[i]],
    !.lower = n,
    !.current = n,
    !.upper = n + WindowSize]
RemovePacket(w, n) ==
  [w EXCEPT
    !.elements =
      [i \in Slots |-> IF i \in SlotsFrom(w.lower, n)
                       THEN [w.elements[i] EXCEPT !.valid = FALSE]
                       ELSE w.elements[i]],
    !.lower = n,
    !.upper = n + WindowSize]

\* inorderValidPackets counts valid slots from lower, stopping at current or
\* at the first invalid slot: n is that count.  Exactly one n qualifies.
Span_StopsEarly(w) ==
  IF w.current > w.lower + 1 THEN w.current - w.lower - 1 ELSE 0
Span(w) == IF w.current > w.lower THEN w.current - w.lower ELSE 0
InorderValidPackets_AnySlot(w) == {Span(w)}
InorderValidPackets(w) ==
  {n \in 0 .. Span(w) :
     /\ \A k \in 0 .. n - 1 : PacketValidInWindow(w, w.lower + k)
     /\ n = Span(w) \/ ~PacketValidInWindow(w, w.lower + n)}

\* The packets flushWindow copies out, each fetched by the number its slot holds.
InorderPackets_NextSlot(w, n) ==
  [k \in 1 .. n |->
     GetPacket(w, GetPacket(w, w.lower + k).packet.seq).packet]
InorderPackets(w, n) ==
  [k \in 1 .. n |->
     GetPacket(w, GetPacket(w, w.lower + k - 1).packet.seq).packet]
=============================================================================
