------------------------------ MODULE Injector ------------------------------
(***************************************************************************)
(* libcpe464: the library that drops and damages what a program sends      *)
(* (network-hooks.c, SettingsManager.cpp, PacketManager.cpp, MsgEvents).   *)
(* The environment's settings are read before main; sendErr_init adds what *)
(* the program asks for; every sendto runs the constant events and then,   *)
(* by chance, one of the random ones; fork copies the library's whole      *)
(* state.  project3's server forks and its children send; rcopy only sends.*)
(*                                                                         *)
(* A number drawn by drand48 is one of 0 .. RandMax - 1, in units of       *)
(* 1/RandMax, and so are error rates.  What a seed yields is a function of *)
(* the seed and of how many numbers have been drawn.  A long goes up to    *)
(* LONG_MAX, and a uint32_t holds one of UINT_RANGE numbers.               *)
(***************************************************************************)
EXTENDS Integers, Sequences, FiniteSets, FiniteSetsExt, Functions

CONSTANTS
  Procs, Main,
  Program,        \* "server" or "rcopy"
  Environments,   \* what the CPE464_OVERRIDE_... variables may be
  NotSet,         \* a variable that is not defined, or not usable
  Junk,           \* a token that is not a number
  RandomFlags,    \* sendErr_init's random_flag: project3 gives TRUE
  ErrorRate,      \* sendErr_init's error_rate
  RandMax,
  Seeds,          \* what srand48 may be called with
  Generators,     \* what drand48 may yield then
  LONG_MAX, UINT_RANGE,
  MaxMsgs, StartTime, MaxTime

ASSUME InjectorAssumption ==
  /\ Main \in Procs /\ Program \in {"server", "rcopy"}
  /\ RandomFlags \subseteq BOOLEAN
  /\ RandMax \in Nat \ {0} /\ ErrorRate \in 0 .. RandMax
  /\ LONG_MAX \in Nat \ {0} /\ UINT_RANGE \in Nat \ {0}
  /\ MaxMsgs \in Nat /\ MaxTime \in Nat /\ StartTime \in 0 .. MaxTime

Tokens == Int \cup {Junk}
ASSUME EnvironmentAssumption ==
  /\ NotSet \notin Tokens /\ Junk \notin Int
  /\ NotSet \notin Seq(Tokens)
  /\ \A e \in Environments :
       e \in [seed : Tokens \cup {NotSet}, rate : Tokens \cup {NotSet},
             drop : Seq(Tokens) \cup {NotSet}, flip : Seq(Tokens) \cup {NotSet}]

RANDOM_SEED == 10

\* strtol of a number: the nearest long.
Strtol(n) ==
  IF n > LONG_MAX THEN LONG_MAX ELSE IF n < -LONG_MAX - 1 THEN -LONG_MAX - 1 ELSE n

LoadLong(token) == IF token \in {Junk, NotSet} THEN NotSet ELSE Strtol(token)
LoadFloat(token) == IF token = Junk THEN NotSet ELSE token

\* A generator has a number for every draw of every process, whether it is
\* seeded by the environment, by the time or by the counter, which each process
\* moves once.
ASSUME GeneratorAssumption ==
  /\ IsFiniteSet(Procs)
  /\ Generators \subseteq [Seeds -> [1 .. 3 * MaxMsgs -> 0 .. RandMax - 1]]
  /\ \A e \in Environments : LoadLong(e.seed) \in Seeds \cup {NotSet}
  /\ StartTime .. MaxTime \subseteq Seeds
  /\ RANDOM_SEED .. RANDOM_SEED + Cardinality(Procs) \subseteq Seeds

VARIABLES
  randomFlag,
  env,    \* the settings that loadEnvData found
  rand,   \* rand[seed][k]: the k-th number that seed yields
  now,    \* time(NULL)
  proc,   \* the library's state in each process
  log     \* what became of each message a process itself has sent

vars == <<randomFlag, env, rand, now, proc, log>>

-----------------------------------------------------------------------------
(* The events (MsgEvents).  seen is infoSeqNo's history.                   *)

Events ==
  [kind : {"info", "drop", "flip"}, all : BOOLEAN, list : SUBSET Nat, seen : Nat]

InfoSeqNo == [kind |-> "info", all |-> FALSE, list |-> {}, seen |-> 0]
ErrorDrop == [kind |-> "drop", all |-> TRUE, list |-> {}, seen |-> 0]
SetDropSpecific(event, dropList) ==
  [event EXCEPT !.all = FALSE, !.list = dropList]
ErrorFlipBits == [kind |-> "flip", all |-> FALSE, list |-> {}, seen |-> 0]

Drops(event, msgNo) ==
  event.kind = "drop" /\ (event.all \/ msgNo \in event.list)

\* run of an event: only infoSeqNo keeps anything.
Ran(event) == IF event.kind = "info" THEN [event EXCEPT !.seen = @ + 1] ELSE event

-----------------------------------------------------------------------------
(* The environment.                                                        *)

\* parser2ListLong stops at the first token that is no number.
Parser2ListLong(tokens) ==
  LET bad == {i \in DOMAIN tokens : tokens[i] = Junk}
      count == IF bad = {} THEN Len(tokens) ELSE Min(bad) - 1
  IN [i \in 1 .. count |-> Strtol(tokens[i])]

\* A variable with an empty value is defined, and its list is empty.
LoadList(tokens) == IF tokens = NotSet THEN NotSet ELSE Parser2ListLong(tokens)

LoadEnvData(e) ==
  [seed |-> LoadLong(e.seed), rate |-> LoadFloat(e.rate),
   drop |-> LoadList(e.drop), flip |-> LoadList(e.flip)]

\* A long becomes a uint32_t: an entry that is too big names another message.
ParserLong2Uint32_KeepsAll(list) == Range(list)
ParserLong2Uint32(list) == {n % UINT_RANGE : n \in {m \in Range(list) : m >= 0}}

-----------------------------------------------------------------------------
(* PacketManager's setters and SettingsManager's two ways to them.         *)

States == {"NONE", "STARTED", "READY", "DONE"}
ProcStates ==
  [at : States, constant : Seq(Events), chance : Seq(Events), rate : Int,
   seed : Int, drawn : Nat, msgNo : Nat, nextSeed : Nat]

\* PacketManager::PacketManager
PacketManager(at, time) ==
  [at |-> at, constant |-> <<>>, chance |-> <<>>, rate |-> 0,
   seed |-> time, drawn |-> 0, msgNo |-> 0, nextSeed |-> RANDOM_SEED]

SetRandSeed(s, seed) == [s EXCEPT !.seed = seed, !.drawn = 0]
SetErrorRate(s, rate) == [s EXCEPT !.rate = rate]
AddMsgEvent_Standard(s, event) == [s EXCEPT !.constant = Append(@, event)]
AddMsgEvent_Random(s, event) == [s EXCEPT !.chance = Append(@, event)]

LoadEnvData_SeedRand(s, e) ==
  IF e.seed = NotSet THEN s ELSE SetRandSeed(s, e.seed)
LoadEnvData_ErrRate(s, e) ==
  IF e.rate = NotSet THEN s ELSE SetErrorRate(s, e.rate)
LoadEnvData_ErrDrop(s, e) ==
  IF e.drop = NotSet THEN s
  ELSE LET numbers == ParserLong2Uint32(e.drop) IN
       IF numbers = {} THEN AddMsgEvent_Random(s, ErrorDrop)
       ELSE AddMsgEvent_Standard(s, SetDropSpecific(ErrorDrop, numbers))
\* A list of numbers is not implemented.
LoadEnvData_ErrFlip(s, e) ==
  IF e.flip # NotSet /\ ParserLong2Uint32(e.flip) = {}
  THEN AddMsgEvent_Random(s, ErrorFlipBits) ELSE s

SettingsManager(s, e) ==
  LoadEnvData_ErrFlip(LoadEnvData_ErrDrop(LoadEnvData_ErrRate(
    LoadEnvData_SeedRand(s, e), e), e), e)

SetUserMode_SeedRand_Always(s, seed) == SetRandSeed(s, seed)
SetUserMode_SeedRand(s, seed) ==
  IF env.seed # NotSet THEN s ELSE SetRandSeed(s, seed)
SetUserMode_ErrRate_Always(s, rate) == SetErrorRate(s, rate)
SetUserMode_ErrRate(s, rate) ==
  IF env.rate # NotSet THEN s ELSE SetErrorRate(s, rate)
SetUserMode_ErrDrop_Always(s) == AddMsgEvent_Random(s, ErrorDrop)
SetUserMode_ErrDrop(s) ==
  IF env.drop # NotSet THEN s ELSE AddMsgEvent_Random(s, ErrorDrop)
SetUserMode_ErrFlip_Standard(s) ==
  IF env.flip # NotSet THEN s ELSE AddMsgEvent_Standard(s, ErrorFlipBits)
SetUserMode_ErrFlip(s) ==
  IF env.flip # NotSet THEN s ELSE AddMsgEvent_Random(s, ErrorFlipBits)

-----------------------------------------------------------------------------
(* The programs.                                                           *)

Init ==
  /\ \E e \in Environments : env = LoadEnvData(e)
  /\ rand \in Generators
  /\ randomFlag \in RandomFlags
  /\ now = StartTime
  /\ proc = [p \in Procs |->
       IF p = Main THEN SettingsManager(PacketManager("STARTED", now), env)
       ELSE PacketManager("NONE", now)]
  /\ log = [p \in Procs |-> <<>>]

\* Both programs ask for drops and flips, DROP_ON and FLIP_ON.
SendErr_init(p) ==
  /\ proc[p].at = "STARTED"
  /\ LET s == proc[p]
         asked == SetUserMode_ErrFlip(SetUserMode_ErrDrop(SetUserMode_ErrRate(
                    AddMsgEvent_Standard(s, InfoSeqNo), ErrorRate)))
         seeded == SetUserMode_SeedRand(asked,
                     IF randomFlag THEN now ELSE s.nextSeed)
     IN proc' = [proc EXCEPT ![p] =
          [seeded EXCEPT !.at = "READY",
             !.nextSeed = IF randomFlag THEN now ELSE @ + 1]]
  /\ UNCHANGED <<randomFlag, env, rand, now, log>>

\* forkMod: the child gets the next seed, and calls sendErr_init again.
ForkMod_CountsInChild(c) ==
  /\ Program = "server"
  /\ proc[Main].at = "READY" /\ proc[c].at = "NONE"
  /\ LET s == proc[Main] IN
     proc' = [proc EXCEPT
       ![c] = [SetUserMode_SeedRand(s, s.nextSeed)
                 EXCEPT !.at = "STARTED", !.nextSeed = @ + 1]]
  /\ UNCHANGED <<randomFlag, env, rand, now, log>>
ForkMod(c) ==
  /\ Program = "server"
  /\ proc[Main].at = "READY" /\ proc[c].at = "NONE"
  /\ LET s == [proc[Main] EXCEPT !.nextSeed = @ + 1] IN
     proc' = [proc EXCEPT
       ![Main] = s,
       ![c] = [SetUserMode_SeedRand(s, s.nextSeed - 1) EXCEPT !.at = "STARTED"]]
  /\ UNCHANGED <<randomFlag, env, rand, now, log>>

-----------------------------------------------------------------------------
(* Sending.                                                                *)

Outcomes == [dropped : BOOLEAN, flips : Nat]

\* runMsgEvents on the constant events returns at the first that drops.
Droppers(s) == {i \in DOMAIN s.constant : Drops(s.constant[i], s.msgNo)}
Runs(s) == {i \in DOMAIN s.constant : \A k \in Droppers(s) : i <= k}
RunMsgEvents(s) ==
  [s EXCEPT !.constant = [i \in DOMAIN @ |-> IF i \in Runs(s) THEN Ran(@[i]) ELSE @[i]]]
ConstantFlips(s) == Cardinality({i \in Runs(s) : s.constant[i].kind = "flip"})

\* The k-th number from here on, once the constant events have run: a flip draws
\* one for its byte.
Drand48(s, k) == rand[s.seed][s.drawn + ConstantFlips(s) + k]
Chance(s) == s.chance # <<>> /\ Drand48(s, 1) <= s.rate
RandCase(s) == s.chance[1 + (Len(s.chance) * Drand48(s, 2)) \div RandMax]
RandomFlips(s) == IF Chance(s) /\ RandCase(s).kind = "flip" THEN 1 ELSE 0

\* A number decides whether a random event runs, and a second one which.
Draws(s) == ConstantFlips(s) + (IF Chance(s) THEN 2 ELSE 1) + RandomFlips(s)

ProcessEvents(s) ==
  [dropped |-> Droppers(s) # {} \/ (Chance(s) /\ Drops(RandCase(s), s.msgNo)),
   flips |-> ConstantFlips(s) + RandomFlips(s)]

MaySend(p) == proc[p].at = "READY" /\ (Program = "rcopy" \/ p # Main)

SendTo_Err(p) ==
  /\ MaySend(p) /\ Len(log[p]) < MaxMsgs
  /\ LET s == [proc[p] EXCEPT !.msgNo = (@ + 1) % UINT_RANGE] IN
     /\ log' = [log EXCEPT ![p] = Append(@, ProcessEvents(s))]
     /\ proc' = [proc EXCEPT ![p] =
          [RunMsgEvents(s) EXCEPT !.drawn = @ + Draws(s)]]
  /\ UNCHANGED <<randomFlag, env, rand, now>>

\* exit runs PacketManager's destructor, and that the infoSeqNos' reports.
Exit(p) ==
  /\ MaySend(p)
  /\ proc' = [proc EXCEPT ![p].at = "DONE"]
  /\ UNCHANGED <<randomFlag, env, rand, now, log>>

Tick ==
  /\ now < MaxTime
  /\ now' = now + 1
  /\ UNCHANGED <<randomFlag, env, rand, proc, log>>

Next ==
  \/ Tick
  \/ \E p \in Procs : SendErr_init(p) \/ SendTo_Err(p) \/ Exit(p) \/ ForkMod(p)

Spec == Init /\ [][Next]_vars
-----------------------------------------------------------------------------
(* Properties.                                                             *)

TypeOK ==
  /\ now \in Nat
  /\ proc \in [Procs -> ProcStates]
  /\ log \in [Procs -> Seq(Outcomes)]

\* CPE464_OVERRIDE_ERR_DROP with numbers: of what a process itself sends, just
\* the messages with these numbers are dropped, whatever the program has asked
\* for, and in the server's children, which initialise twice, as well.  A message's
\* number and an entry of the list count modulo 2^32 (SettingsManager.cpp:254-256).
ScriptedDrops ==
  env.drop # NotSet /\ (\E n \in Range(env.drop) : n >= 0) =>
    \A p \in Procs : \A i \in DOMAIN log[p] :
      log[p][i].dropped <=>
        \E n \in Range(env.drop) : n >= 0 /\ n % UINT_RANGE = i % UINT_RANGE

\* A message has at most one damaged byte, all that the checksum has to find: a
\* child runs all its constant events, whatever was added twice, and one of its
\* random ones (PacketManager.cpp:144-178).
OneFlipAtMost == \A p \in Procs : \A i \in DOMAIN log[p] : log[p][i].flips <= 1

\* CPE464_OVERRIDE_SEEDRAND makes runs repeatable: the fate of a child's i-th
\* message depends neither on the time nor on when the child was forked.
Repeatable ==
  env.seed # NotSet =>
    \A p, q \in Procs : \A i \in DOMAIN log[p] \cap DOMAIN log[q] :
      log[p][i] = log[q][i]

\* Without random_flag no two processes that send draw the same numbers, although
\* fork copies the counter that seeds them (network-hooks.c:196).
SeedsDiffer ==
  ~randomFlag /\ env.seed = NotSet =>
    \A p, q \in Procs :
      p # q /\ log[p] # <<>> /\ log[q] # <<>> => proc[p].seed # proc[q].seed
=============================================================================
