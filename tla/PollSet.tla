------------------------------ MODULE PollSet ------------------------------
(***************************************************************************)
(* pollLib.c: the table behind poll() that the programs of p2 and of       *)
(* project3 keep.  Entry i stands for descriptor i.  An entry that is not  *)
(* watched is all zero: its fd is 0 and it asks for no event, so poll      *)
(* still reports on it when descriptor 0, standard input, hangs up.  The   *)
(* file's one table is a value here, since each process has its own.       *)
(***************************************************************************)
EXTENDS Integers, FiniteSets, FiniteSetsExt

CONSTANT POLL_SET_SIZE
ASSUME PollSetSizeAssumption == POLL_SET_SIZE \in Nat \ {0}

STDIN_FILENO == 0

\* pollCall's answer on a timeout.
TimedOut == -1

SetupPollSet ==
  [watched |-> [i \in 0 .. POLL_SET_SIZE - 1 |-> FALSE], max |-> 0]

CurrentPollSetSize(ps) == Cardinality(DOMAIN ps.watched)

IsPollSet(ps) ==
  /\ IsFiniteSet(DOMAIN ps.watched)
  /\ ps \in [watched : [0 .. CurrentPollSetSize(ps) - 1 -> BOOLEAN],
             max : 0 .. CurrentPollSetSize(ps)]
  /\ \A i \in DOMAIN ps.watched : ps.watched[i] => i < ps.max

\* srealloc keeps the old entries, and the loop zeroes the new ones.
GrowPollSet_Forgets(ps, newSetSize) ==
  [ps EXCEPT !.watched = [i \in 0 .. newSetSize - 1 |-> FALSE]]
GrowPollSet(ps, newSetSize) ==
  [ps EXCEPT !.watched =
     [i \in 0 .. newSetSize - 1 |-> i \in DOMAIN ps.watched /\ ps.watched[i]]]

AddToPollSet_LastLeftOut(ps, socketNumber) ==
  LET grown == IF socketNumber >= CurrentPollSetSize(ps)
               THEN GrowPollSet(ps, socketNumber + POLL_SET_SIZE) ELSE ps
  IN  [grown EXCEPT !.watched[socketNumber] = TRUE,
                    !.max = IF socketNumber >= ps.max THEN socketNumber ELSE @]
AddToPollSet_GrowsTooLate(ps, socketNumber) ==
  LET grown == IF socketNumber > CurrentPollSetSize(ps)
               THEN GrowPollSet(ps, socketNumber + POLL_SET_SIZE) ELSE ps
  IN  [grown EXCEPT
        !.watched[socketNumber] = TRUE,
        !.max = IF socketNumber + 1 >= ps.max THEN socketNumber + 1 ELSE @]
AddToPollSet(ps, socketNumber) ==
  LET grown == IF socketNumber >= CurrentPollSetSize(ps)
               THEN GrowPollSet(ps, socketNumber + POLL_SET_SIZE) ELSE ps
  IN  [grown EXCEPT
        !.watched[socketNumber] = TRUE,
        !.max = IF socketNumber + 1 >= ps.max THEN socketNumber + 1 ELSE @]

\* maxFileDescriptor keeps its value.
RemoveFromPollSet_LowersMax(ps, socketNumber) ==
  [ps EXCEPT !.watched[socketNumber] = FALSE, !.max = socketNumber]
RemoveFromPollSet(ps, socketNumber) ==
  [ps EXCEPT !.watched[socketNumber] = FALSE]

\* The entries whose revents poll makes positive: ready are the descriptors
\* with something to read or an error, hungUp says whether stdin has hung up.
Reported(ps, ready, hungUp) ==
  {i \in 0 .. ps.max - 1 :
     IF ps.watched[i] THEN i \in ready ELSE hungUp}

\* The lowest of them.
PollCall(ps, ready, hungUp) ==
  IF Reported(ps, ready, hungUp) = {} THEN TimedOut
  ELSE Min(Reported(ps, ready, hungUp))

Watched(ps) == {i \in 0 .. ps.max - 1 : ps.watched[i]}
=============================================================================
