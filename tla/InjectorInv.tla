----------------------------- MODULE InjectorInv -----------------------------
(***************************************************************************)
(* The inductive invariant of libcpe464's state in a program that forks:   *)
(* what each process has loaded and been asked for, how the numbers it     *)
(* draws are seeded, and why two processes with one seed treat their i-th  *)
(* messages alike.                                                         *)
(***************************************************************************)
EXTENDS Injector

Numbers == ParserLong2Uint32(env.drop)
Scripted == env.drop # NotSet /\ Numbers # {}
ScriptedDrop == SetDropSpecific(ErrorDrop, Numbers)

\* The processes whose messages count: rcopy, or the server's children.
Sender(p) == proc[p].at \in {"READY", "DONE"} /\ (Program = "rcopy" \/ p # Main)
Started == {p \in Procs : proc[p].at # "NONE"}

EnvOK ==
  /\ env \in [seed : (Int \cap Seeds) \cup {NotSet}, rate : Int \cup {NotSet},
              drop : Seq(Int) \cup {NotSet}, flip : Seq(Int) \cup {NotSet}]
  /\ rand \in [Seeds -> [1 .. 3 * MaxMsgs -> 0 .. RandMax - 1]]
  /\ now \in StartTime .. MaxTime

\* Who is there: rcopy never forks, and the server's parent neither sends nor ends.
Roles ==
  /\ proc[Main].at # "NONE"
  /\ \A p \in Procs \ {Main} : proc[p].at # "NONE" =>
       Program = "server" /\ proc[Main].at = "READY"
  /\ Program = "server" => proc[Main].at # "DONE"

\* Only senders have sent; each message costs at most three numbers.
Counted ==
  \A p \in Procs :
    /\ proc[p].msgNo = Len(log[p]) % UINT_RANGE /\ Len(log[p]) <= MaxMsgs
    /\ proc[p].drawn <= 3 * Len(log[p])
    /\ ~Sender(p) => log[p] = <<>>

\* A constant event that drops is the scripted one, which nobody loses, and none
\* flips, though a child's are added twice; a random
\* one is ErrorDrop or ErrorFlipBits, and none drops beside a script.
RandomEvents == (IF Scripted THEN {} ELSE {ErrorDrop}) \cup {ErrorFlipBits}
EventsOf(s) ==
  /\ \A i \in DOMAIN s.constant : s.constant[i].kind = "drop" =>
       Scripted /\ s.constant[i] = ScriptedDrop
  /\ \A i \in DOMAIN s.constant : s.constant[i].kind # "flip"
  /\ Scripted /\ s.at # "NONE" =>
       \E i \in DOMAIN s.constant : s.constant[i] = ScriptedDrop
  /\ \A i \in DOMAIN s.chance :
       s.chance[i] \in RandomEvents
EventsOK == \A p \in Procs : EventsOf(proc[p])

\* What sendErr_init adds to the random events.
Asked(chance) ==
  LET dropping == IF env.drop # NotSet THEN chance ELSE Append(chance, ErrorDrop) IN
  IF env.flip # NotSet THEN dropping ELSE Append(dropping, ErrorFlipBits)

\* Every child was asked the same things, since the parent was asked only once.
AskedAlike ==
  \A p \in Procs :
    /\ env.rate # NotSet /\ proc[p].at # "NONE" => proc[p].rate = env.rate
    /\ env.rate = NotSet /\ proc[p].at \in {"READY", "DONE"} => proc[p].rate = ErrorRate
    /\ p # Main /\ proc[p].at = "STARTED" => proc[p].chance = proc[Main].chance
    /\ p # Main /\ proc[p].at \in {"READY", "DONE"} =>
         proc[p].chance = Asked(proc[Main].chance)

\* The seed that a child draws from, or will once it has called sendErr_init.
SeedOf(p) == IF proc[p].at = "STARTED" THEN proc[p].nextSeed ELSE proc[p].seed

\* The counter is past every seed it has given, and moves once for each process.
SeedsOK ==
  /\ \A p \in Procs : proc[p].at \in {"READY", "DONE"} => proc[p].seed \in Seeds
  /\ env.seed # NotSet => \A p \in Started : proc[p].seed = env.seed
  /\ ~randomFlag /\ env.seed = NotSet =>
       /\ proc[Main].at = "STARTED" => proc[Main].nextSeed = RANDOM_SEED
       /\ proc[Main].at # "STARTED" => proc[Main].nextSeed \in
            RANDOM_SEED .. RANDOM_SEED + Cardinality(Started)
       /\ \A p \in Started \ {Main} : SeedOf(p) \in RANDOM_SEED .. proc[Main].nextSeed
       /\ \A p, q \in Started \ {Main} : SeedOf(p) = SeedOf(q) => p = q

\* The i-th message of p, had it been sent after d numbers were drawn.
At(p, d, i) == [proc[p] EXCEPT !.drawn = d, !.msgNo = i % UINT_RANGE]

\* Under the environment's seed there is one sequence of draws, and each sender is
\* somewhere along it: drawn[i] numbers have been drawn once i messages are sent.
After(drawn, i) == IF i = 0 THEN 0 ELSE drawn[i]
Replayed ==
  env.seed # NotSet =>
    \E drawn \in [1 .. MaxMsgs -> 1 .. 3 * MaxMsgs] :
      \A p \in Procs : Sender(p) =>
        /\ proc[p].drawn = After(drawn, Len(log[p]))
        /\ \A i \in 1 .. Len(log[p]) :
             LET s == At(p, After(drawn, i - 1), i) IN
             drawn[i] = s.drawn + Draws(s) /\ log[p][i] = ProcessEvents(s)

LibraryInv ==
  /\ EnvOK /\ Roles /\ Counted /\ EventsOK /\ AskedAlike /\ SeedsOK /\ Replayed
=============================================================================
