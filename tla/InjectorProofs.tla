--------------------------- MODULE InjectorProofs ---------------------------
(***************************************************************************)
(* Proofs that LibraryInv is inductive and that Injector's properties      *)
(* follow from it, for every program, environment, set of processes, error *)
(* rate and random numbers.                                                *)
(***************************************************************************)
EXTENDS InjectorInv, SequenceTheorems, FiniteSetTheorems, WellFoundedInduction, TLAPS

-----------------------------------------------------------------------------
(* Sequences and numbers.                                                  *)

\* A function on 1 .. n is a sequence of its values.
LEMMA FunctionIsSeq ==
  ASSUME NEW S, NEW n \in Nat, NEW f \in [1 .. n -> S]
  PROVE  f \in Seq(S) /\ Len(f) = n /\ DOMAIN f = 1 .. n
<1>1. f \in Seq(S)
  BY SeqDef
<1> QED BY <1>1, LenProperties

\* What Append does, in full.
LEMMA Appended ==
  ASSUME NEW S, NEW s \in Seq(S), NEW e \in S
  PROVE  /\ Append(s, e) \in Seq(S)
         /\ Len(Append(s, e)) = Len(s) + 1
         /\ DOMAIN Append(s, e) = 1 .. Len(s) + 1 /\ DOMAIN s = 1 .. Len(s)
         /\ \A i \in 1 .. Len(s) : Append(s, e)[i] = s[i]
         /\ Append(s, e)[Len(s) + 1] = e
         /\ Len(s) \in Nat
  OBVIOUS

\* A number below m picks one of n things.
LEMMA Picks ==
  ASSUME NEW n \in Nat \ {0}, NEW m \in Nat \ {0}, NEW x \in 0 .. m - 1
  PROVE  1 + (n * x) \div m \in 1 .. n
<1> DEFINE q == (n * x) \div m
<1>1. n * x \in Nat /\ n * m \in Nat
  OBVIOUS
<1>2. n * x < n * m
  OBVIOUS
<1>3. q \in Int /\ m * q <= n * x /\ n * x < m * (q + 1)
  BY <1>1
<1> HIDE DEF q
<1>4. q < n
  <2> SUFFICES ASSUME n <= q PROVE FALSE
    BY <1>3
  <2>1. m * n <= m * q
    BY <1>3
  <2>2. m * n = n * m
    OBVIOUS
  <2> QED BY <2>1, <2>2, <1>1, <1>2, <1>3
<1>5. 0 <= q
  <2> SUFFICES ASSUME q < 0 PROVE FALSE
    BY <1>3
  <2>1. m * (q + 1) <= 0
    BY <1>3
  <2> QED BY <2>1, <1>1, <1>3
<1> QED BY <1>3, <1>4, <1>5 DEF q

\* Nothing sent counts as nothing.
LEMMA NoneSent ==
  ASSUME NEW q, q = <<>>
  PROVE  Len(q) = 0 /\ Len(q) % UINT_RANGE = 0 /\ 0 % UINT_RANGE = 0
<1>1. Len(q) = 0
  OBVIOUS
<1>2. 0 % UINT_RANGE = 0
  BY InjectorAssumption
<1> QED BY <1>1, <1>2

\* The remainder is the only one in its range.
LEMMA ModUnique ==
  ASSUME NEW u \in Nat \ {0}, NEW q \in Int, NEW r \in 0 .. u - 1, NEW n \in Int, n = u * q + r
  PROVE  n % u = r
<1> DEFINE d == n \div u
           m == n % u
<1>1. n = u * d + m /\ m \in 0 .. u - 1 /\ d \in Int
  OBVIOUS
<1> HIDE DEF d, m
<1>2. u * (q - d) = m - r
  BY <1>1
<1>3. ~(q - d >= 1)
  <2> SUFFICES ASSUME q - d >= 1 PROVE FALSE
    OBVIOUS
  <2>1. u * (q - d) >= u
    BY <1>1
  <2> QED BY <2>1, <1>1, <1>2
<1>4. ~(q - d <= -1)
  <2> SUFFICES ASSUME q - d <= -1 PROVE FALSE
    OBVIOUS
  <2>1. u * (q - d) <= -u
    BY <1>1
  <2> QED BY <2>1, <1>1, <1>2
<1>5. q = d
  BY <1>1, <1>3, <1>4
<1> QED BY <1>5, <1>1, <1>2 DEF m

\* A counter of limited width after one more step.
LEMMA ModNext ==
  ASSUME NEW u \in Nat \ {0}, NEW n \in Nat
  PROVE  ((n % u) + 1) % u = (n + 1) % u /\ n % u \in Nat
<1> DEFINE d == n \div u
           m == n % u
<1>1. n = u * d + m /\ m \in 0 .. u - 1 /\ d \in Int
  OBVIOUS
<1> HIDE DEF d, m
<1>2. CASE m + 1 < u
  <2>1. (n + 1) % u = m + 1
    BY <1>1, <1>2, ModUnique
  <2>2. (m + 1) % u = m + 1
    BY <1>1, <1>2
  <2> QED BY <2>1, <2>2, <1>1 DEF m
<1>3. CASE m + 1 = u
  <2>1. n + 1 = u * (d + 1) + 0
    BY <1>1, <1>3
  <2>2. (n + 1) % u = 0
    BY <2>1, <1>1, ModUnique
  <2>3. (m + 1) % u = 0
    BY <1>1, <1>3
  <2> QED BY <2>2, <2>3, <1>1 DEF m
<1> QED BY <1>1, <1>2, <1>3 DEF m

\* A nonempty set of numbers has a least one.
LEMMA HasMin ==
  ASSUME NEW S, S \subseteq Nat, S # {}
  PROVE  Min(S) \in S /\ \A x \in S : Min(S) <= x
<1> DEFINE less == OpToRel(<, Nat)
<1>1. \E x \in S : \A y \in S : <<y, x>> \notin less
  BY NatLessThanWellFounded, WFMin
<1>2. \A x, y \in Nat : <<y, x>> \in less <=> y < x
  BY DEF OpToRel
<1> HIDE DEF less
<1>3. PICK x \in S : \A y \in S : <<y, x>> \notin less
  BY <1>1
<1>4. \A y \in S : ~(y < x) /\ x \in Nat /\ y \in Nat
  BY <1>2, <1>3
<1>5. \A y \in S : x <= y
  BY <1>4
<1> QED BY <1>3, <1>5 DEF Min

-----------------------------------------------------------------------------
(* What the environment gives.                                             *)

\* strtol gives a number.
LEMMA StrtolType ==
  ASSUME NEW n \in Int
  PROVE  Strtol(n) \in Int
  BY InjectorAssumption DEF Strtol

\* A list ends at the first token that is no number.
LEMMA LoadListType ==
  ASSUME NEW tokens \in Seq(Tokens) \cup {NotSet}
  PROVE  LoadList(tokens) \in Seq(Int) \cup {NotSet}
<1>1. CASE tokens = NotSet
  BY <1>1 DEF LoadList
<1>2. CASE tokens # NotSet
  <2> DEFINE bad == {i \in DOMAIN tokens : tokens[i] = Junk}
  <2>1. tokens \in Seq(Tokens) /\ DOMAIN tokens = 1 .. Len(tokens)
    BY <1>2
  <2>2. Len(tokens) \in Nat /\ \A i \in 1 .. Len(tokens) : tokens[i] \in Tokens
    BY <2>1
  <2> DEFINE count == IF bad = {} THEN Len(tokens) ELSE Min(bad) - 1
  <2>3. count \in Nat /\ \A i \in 1 .. count : i \in 1 .. Len(tokens) /\ i \notin bad
    <3>1. CASE bad = {}
      BY <3>1, <2>2
    <3>2. CASE bad # {}
      <4>1. bad \subseteq 1 .. Len(tokens)
        BY <2>1
      <4> HIDE DEF bad
      <4>2. Min(bad) \in bad /\ \A i \in bad : Min(bad) <= i
        <5>1. bad \subseteq Nat
          BY <4>1, <2>2
        <5> QED BY <5>1, <3>2, HasMin
      <4> PICK first : first = Min(bad)
        OBVIOUS
      <4>3. first \in 1 .. Len(tokens) /\ \A i \in bad : first <= i
        BY <4>1, <4>2
      <4>4. count = first - 1
        BY <3>2
      <4>5. \A i \in 1 .. first - 1 : ~(first <= i)
        BY <4>3, <2>2
      <4> HIDE DEF count
      <4> QED BY <4>3, <4>4, <4>5, <2>2
    <3> QED BY <3>1, <3>2
  <2>4. \A i \in 1 .. Len(tokens) : i \notin bad => tokens[i] \in Int
    BY <2>1, <2>2 DEF Tokens
  <2>5. LoadList(tokens) = [i \in 1 .. count |-> Strtol(tokens[i])]
    BY <1>2 DEF LoadList, Parser2ListLong
  <2> HIDE DEF count, bad
  <2>6. \A i \in 1 .. count : Strtol(tokens[i]) \in Int
    BY <2>3, <2>4, StrtolType
  <2>7. [i \in 1 .. count |-> Strtol(tokens[i])] \in [1 .. count -> Int]
    BY <2>6
  <2> QED BY <2>3, <2>5, <2>7, FunctionIsSeq
<1> QED BY <1>1, <1>2

\* A number that the environment gives is a number.
LEMMA LoadNumberTypes ==
  ASSUME NEW token \in Tokens \cup {NotSet}
  PROVE  /\ LoadLong(token) \in Int \cup {NotSet}
         /\ LoadFloat(token) \in Int \cup {NotSet}
<1>1. token \in {Junk, NotSet} \/ token \in Int
  BY DEF Tokens
<1> QED BY <1>1, StrtolType DEF LoadLong, LoadFloat

\* What a list of numbers gives is a set of numbers.
LEMMA NumbersType ==
  ASSUME NEW list \in Seq(Int)
  PROVE  ParserLong2Uint32(list) \in SUBSET Nat
<1>1. Range(list) \subseteq Int
  BY DEF Range
<1>2. \A n \in Nat : n % UINT_RANGE \in Nat
  BY InjectorAssumption
<1> QED BY <1>1, <1>2 DEF ParserLong2Uint32

\* The numbers of a list are those of its entries that are not negative.
LEMMA NumbersOf ==
  ASSUME NEW list \in Seq(Int)
  PROVE  /\ ParserLong2Uint32(list) # {} <=> \E n \in Range(list) : n >= 0
         /\ \A k : k \in ParserLong2Uint32(list) <=>
                     \E n \in Range(list) : n >= 0 /\ n % UINT_RANGE = k
  BY DEF ParserLong2Uint32

-----------------------------------------------------------------------------
(* The setters, field by field.                                            *)

\* The events that the library has are events.
LEMMA EventTypes ==
  /\ InfoSeqNo \in Events /\ ErrorDrop \in Events /\ ErrorFlipBits \in Events
  /\ \A list \in SUBSET Nat : SetDropSpecific(ErrorDrop, list) \in Events
  BY DEF InfoSeqNo, ErrorDrop, ErrorFlipBits, SetDropSpecific, Events

\* setRandSeed starts a new stream of numbers.
LEMMA SetRandSeedFields ==
  ASSUME NEW s \in ProcStates, NEW seed \in Int
  PROVE  LET t == SetRandSeed(s, seed) IN
         /\ t \in ProcStates
         /\ t.seed = seed
         /\ t.drawn = 0
         /\ t.at = s.at /\ t.constant = s.constant /\ t.chance = s.chance
         /\ t.rate = s.rate /\ t.msgNo = s.msgNo /\ t.nextSeed = s.nextSeed
  BY DEF SetRandSeed, ProcStates

\* setErrorRate sets the rate only.
LEMMA SetErrorRateFields ==
  ASSUME NEW s \in ProcStates, NEW rate \in Int
  PROVE  LET t == SetErrorRate(s, rate) IN
         /\ t \in ProcStates
         /\ t.rate = rate
         /\ t.at = s.at /\ t.constant = s.constant /\ t.chance = s.chance
         /\ t.seed = s.seed /\ t.drawn = s.drawn /\ t.msgNo = s.msgNo
         /\ t.nextSeed = s.nextSeed
  BY DEF SetErrorRate, ProcStates

\* addMsgEvent_Standard adds a constant event.
LEMMA AddStandardFields ==
  ASSUME NEW s \in ProcStates, NEW event \in Events
  PROVE  LET t == AddMsgEvent_Standard(s, event) IN
         /\ t \in ProcStates
         /\ t.constant = Append(s.constant, event)
         /\ t.at = s.at /\ t.chance = s.chance /\ t.rate = s.rate
         /\ t.seed = s.seed /\ t.drawn = s.drawn /\ t.msgNo = s.msgNo
         /\ t.nextSeed = s.nextSeed
  BY Appended DEF AddMsgEvent_Standard, ProcStates

\* addMsgEvent_Random adds a random event.
LEMMA AddRandomFields ==
  ASSUME NEW s \in ProcStates, NEW event \in Events
  PROVE  LET t == AddMsgEvent_Random(s, event) IN
         /\ t \in ProcStates
         /\ t.chance = Append(s.chance, event)
         /\ t.at = s.at /\ t.constant = s.constant /\ t.rate = s.rate
         /\ t.seed = s.seed /\ t.drawn = s.drawn /\ t.msgNo = s.msgNo
         /\ t.nextSeed = s.nextSeed
  BY Appended DEF AddMsgEvent_Random, ProcStates

\* fork moves the counter of seeds.
LEMMA CounterFields ==
  ASSUME NEW s \in ProcStates, NEW n \in Nat
  PROVE  LET t == [s EXCEPT !.nextSeed = n] IN
         /\ t \in ProcStates /\ t.nextSeed = n /\ t.at = s.at
         /\ t.constant = s.constant /\ t.chance = s.chance /\ t.rate = s.rate
         /\ t.seed = s.seed /\ t.drawn = s.drawn /\ t.msgNo = s.msgNo
  BY DEF ProcStates

\* Appending keeps what all elements of a sequence are.
LEMMA ChanceAppended ==
  ASSUME NEW q \in Seq(Events), NEW e \in Events, NEW kinds,
         \A i \in DOMAIN q : q[i] \in kinds, e \in kinds
  PROVE  \A i \in DOMAIN Append(q, e) : Append(q, e)[i] \in kinds
<1>1. DOMAIN Append(q, e) = 1 .. Len(q) + 1 /\ DOMAIN q = 1 .. Len(q) /\ Len(q) \in Nat
  BY Appended
<1>2. /\ \A i \in 1 .. Len(q) : Append(q, e)[i] = q[i]
      /\ Append(q, e)[Len(q) + 1] = e
  BY Appended
<1>3. \A i \in 1 .. Len(q) + 1 : i \in 1 .. Len(q) \/ i = Len(q) + 1
  BY <1>1
<1> QED BY <1>1, <1>2, <1>3

-----------------------------------------------------------------------------
(* What a process has loaded when main begins.                             *)

LEMMA EnvTypes ==
  ASSUME EnvOK
  PROVE  /\ env.seed # NotSet => env.seed \in Int /\ env.seed \in Seeds
         /\ env.rate # NotSet => env.rate \in Int
         /\ env.drop # NotSet => env.drop \in Seq(Int) /\ Numbers \in SUBSET Nat
         /\ Scripted => ScriptedDrop \in Events
         /\ RandomEvents \subseteq Events
         /\ now \in Nat /\ now \in Seeds
<1>1. /\ env.seed \in (Int \cap Seeds) \cup {NotSet} /\ env.rate \in Int \cup {NotSet}
      /\ env.drop \in Seq(Int) \cup {NotSet}
  BY DEF EnvOK
<1>2. env.drop # NotSet => Numbers \in SUBSET Nat
  BY <1>1, NumbersType DEF Numbers
<1>3. Scripted => ScriptedDrop \in Events
  BY <1>2, EventTypes DEF Scripted, ScriptedDrop
<1>4. RandomEvents \subseteq Events
  BY EventTypes DEF RandomEvents
<1>5. now \in Nat /\ now \in Seeds
  BY InjectorAssumption, GeneratorAssumption DEF EnvOK
<1> QED BY <1>1, <1>2, <1>3, <1>4, <1>5

\* The settings of the environment, loaded into an empty state.
LEMMA Loaded ==
  ASSUME EnvOK, NEW t \in Int
  PROVE  LET s == SettingsManager(PacketManager("STARTED", t), env) IN
         /\ s \in ProcStates /\ s.at = "STARTED"
         /\ s.drawn = 0 /\ s.msgNo = 0 /\ s.nextSeed = RANDOM_SEED
         /\ s.seed = IF env.seed = NotSet THEN t ELSE env.seed
         /\ env.rate # NotSet => s.rate = env.rate
         /\ EventsOf(s)
<1> DEFINE s0 == PacketManager("STARTED", t)
           s1 == LoadEnvData_SeedRand(s0, env)
           s2 == LoadEnvData_ErrRate(s1, env)
           s3 == LoadEnvData_ErrDrop(s2, env)
           s4 == LoadEnvData_ErrFlip(s3, env)
<1>0. /\ s0 \in ProcStates /\ s0.at = "STARTED" /\ s0.constant = <<>> /\ s0.chance = <<>>
      /\ s0.drawn = 0 /\ s0.msgNo = 0 /\ s0.nextSeed = RANDOM_SEED /\ s0.seed = t
  BY DEF PacketManager, ProcStates, States, RANDOM_SEED
<1> HIDE DEF s0
<1>1. /\ s1 \in ProcStates /\ s1.at = "STARTED" /\ s1.constant = <<>> /\ s1.chance = <<>>
      /\ s1.drawn = 0 /\ s1.msgNo = 0 /\ s1.nextSeed = RANDOM_SEED
      /\ s1.seed = IF env.seed = NotSet THEN t ELSE env.seed
  BY <1>0, EnvTypes, SetRandSeedFields DEF LoadEnvData_SeedRand
<1> HIDE DEF s1
<1>2. /\ s2 \in ProcStates /\ s2.at = "STARTED" /\ s2.constant = <<>> /\ s2.chance = <<>>
      /\ s2.drawn = 0 /\ s2.msgNo = 0 /\ s2.nextSeed = RANDOM_SEED
      /\ s2.seed = s1.seed /\ (env.rate # NotSet => s2.rate = env.rate)
  BY <1>1, EnvTypes, SetErrorRateFields DEF LoadEnvData_ErrRate
<1> HIDE DEF s2
<1>3. /\ s3 \in ProcStates /\ s3.at = "STARTED"
      /\ s3.drawn = 0 /\ s3.msgNo = 0 /\ s3.nextSeed = RANDOM_SEED
      /\ s3.seed = s1.seed /\ (env.rate # NotSet => s3.rate = env.rate)
      /\ s3.constant = IF Scripted THEN Append(<<>>, ScriptedDrop) ELSE <<>>
      /\ s3.chance = IF env.drop # NotSet /\ ~Scripted THEN Append(<<>>, ErrorDrop) ELSE <<>>
  <2>1. CASE env.drop = NotSet
    BY <2>1, <1>2 DEF LoadEnvData_ErrDrop, Scripted
  <2>2. CASE env.drop # NotSet /\ ~Scripted
    <3>1. s3 = AddMsgEvent_Random(s2, ErrorDrop)
      BY <2>2 DEF LoadEnvData_ErrDrop, Scripted, Numbers
    <3> HIDE DEF s3
    <3> QED BY <2>2, <3>1, <1>2, EventTypes, AddRandomFields
  <2>3. CASE Scripted
    <3>1. s3 = AddMsgEvent_Standard(s2, ScriptedDrop)
      BY <2>3 DEF LoadEnvData_ErrDrop, Scripted, Numbers, ScriptedDrop
    <3>2. ScriptedDrop \in Events
      BY <2>3, EnvTypes
    <3> HIDE DEF s3
    <3> QED BY <2>3, <3>1, <3>2, <1>2, AddStandardFields DEF Scripted
  <2> QED BY <2>1, <2>2, <2>3
<1> HIDE DEF s3
<1>4. /\ s4 \in ProcStates /\ s4.at = "STARTED" /\ s4.constant = s3.constant
      /\ s4.drawn = 0 /\ s4.msgNo = 0 /\ s4.nextSeed = RANDOM_SEED
      /\ s4.seed = s1.seed /\ (env.rate # NotSet => s4.rate = env.rate)
      /\ s4.chance \in {s3.chance, Append(s3.chance, ErrorFlipBits)}
  BY <1>3, EventTypes, AddRandomFields DEF LoadEnvData_ErrFlip
<1>5. SettingsManager(PacketManager("STARTED", t), env) = s4
  BY DEF SettingsManager, s0, s1, s2, s3
<1> HIDE DEF s4
<1>6. \A i \in DOMAIN s4.chance : s4.chance[i] \in RandomEvents
  <2>1. s3.chance \in Seq(Events) /\ ErrorFlipBits \in RandomEvents
    BY <1>3 DEF ProcStates, RandomEvents
  <2>2. \A i \in DOMAIN s3.chance : s3.chance[i] \in RandomEvents
    BY <1>3, EventTypes DEF RandomEvents
  <2> QED BY <2>1, <2>2, <1>4, ChanceAppended, EventTypes
<1>7. EventsOf(s4)
  <2>1. CASE Scripted
    <3>1. s4.constant = <<ScriptedDrop>>
      BY <2>1, <1>3, <1>4
    <3>2. ScriptedDrop.kind = "drop"
      BY DEF ScriptedDrop, SetDropSpecific, ErrorDrop
    <3> QED BY <3>1, <3>2, <2>1, <1>6 DEF EventsOf
  <2>2. CASE ~Scripted
    BY <2>2, <1>3, <1>4, <1>6 DEF EventsOf
  <2> QED BY <2>1, <2>2
<1> QED BY <1>1, <1>4, <1>5, <1>7

-----------------------------------------------------------------------------
(* The initial states.                                                     *)

\* A process that does not exist holds nothing.
LEMMA NotLoaded ==
  ASSUME NEW t \in Int
  PROVE  LET s == PacketManager("NONE", t) IN
         /\ s \in ProcStates /\ s.at = "NONE" /\ s.drawn = 0 /\ s.msgNo = 0
         /\ EventsOf(s)
<1>1. LET s == PacketManager("NONE", t) IN
      /\ s \in ProcStates /\ s.at = "NONE" /\ s.drawn = 0 /\ s.msgNo = 0
      /\ s.constant = <<>> /\ s.chance = <<>>
  BY DEF PacketManager, ProcStates, States, RANDOM_SEED
<1> QED BY <1>1 DEF EventsOf

LEMMA InitEnv ==
  ASSUME Init
  PROVE  EnvOK
<1>1. PICK e \in Environments : env = LoadEnvData(e)
  BY DEF Init
<1>2. /\ e.seed \in Tokens \cup {NotSet} /\ e.rate \in Tokens \cup {NotSet}
      /\ e.drop \in Seq(Tokens) \cup {NotSet} /\ e.flip \in Seq(Tokens) \cup {NotSet}
  BY EnvironmentAssumption
<1>3. /\ LoadFloat(e.rate) \in Int \cup {NotSet}
      /\ LoadList(e.drop) \in Seq(Int) \cup {NotSet}
      /\ LoadList(e.flip) \in Seq(Int) \cup {NotSet}
  BY <1>2, LoadNumberTypes, LoadListType
<1>4. LoadLong(e.seed) \in (Int \cap Seeds) \cup {NotSet}
  BY <1>2, LoadNumberTypes, GeneratorAssumption
<1>5. env \in [seed : (Int \cap Seeds) \cup {NotSet}, rate : Int \cup {NotSet},
               drop : Seq(Int) \cup {NotSet}, flip : Seq(Int) \cup {NotSet}]
  BY <1>1, <1>3, <1>4 DEF LoadEnvData
<1>6. rand \in [Seeds -> [1 .. 3 * MaxMsgs -> 0 .. RandMax - 1]]
  BY GeneratorAssumption DEF Init
<1>7. now \in StartTime .. MaxTime
  BY InjectorAssumption DEF Init
<1> QED BY <1>5, <1>6, <1>7 DEF EnvOK

\* Every initial state satisfies everything that is proved of all states.
LEMMA InitAll ==
  ASSUME Init
  PROVE  TypeOK /\ LibraryInv /\ ScriptedDrops /\ OneFlipAtMost
<1>1. EnvOK /\ now \in Nat
  BY InitEnv, EnvTypes
<1>2. proc = [p \in Procs |->
        IF p = Main THEN SettingsManager(PacketManager("STARTED", now), env)
        ELSE PacketManager("NONE", now)]
      /\ log = [p \in Procs |-> <<>>]
  BY DEF Init
<1>3. LET s == proc[Main] IN
      /\ s \in ProcStates /\ s.at = "STARTED"
      /\ s.drawn = 0 /\ s.msgNo = 0 /\ s.nextSeed = RANDOM_SEED
      /\ s.seed = IF env.seed = NotSet THEN now ELSE env.seed
      /\ env.rate # NotSet => s.rate = env.rate
      /\ EventsOf(s)
  BY <1>1, <1>2, Loaded, InjectorAssumption
<1>4. \A p \in Procs \ {Main} : LET s == proc[p] IN
      /\ s \in ProcStates /\ s.at = "NONE" /\ s.drawn = 0 /\ s.msgNo = 0
      /\ EventsOf(s)
  BY <1>1, <1>2, NotLoaded
<1>5. \A p \in Procs : log[p] = <<>> /\ Len(log[p]) = 0 /\ DOMAIN log[p] = {}
  BY <1>2
<1>6. TypeOK
  <2>1. proc \in [Procs -> ProcStates]
    BY <1>2, <1>3, <1>4
  <2>2. log \in [Procs -> Seq(Outcomes)]
    BY <1>2
  <2> QED BY <1>1, <2>1, <2>2 DEF TypeOK
<1>7. Roles
  BY <1>3, <1>4 DEF Roles
<1>8. Counted
  <2>1. \A p \in Procs : proc[p].msgNo = 0 /\ proc[p].drawn = 0
    BY <1>3, <1>4
  <2>2. \A p \in Procs : Len(log[p]) = 0 /\ Len(log[p]) % UINT_RANGE = 0
    BY <1>5, NoneSent
  <2>3. 0 <= MaxMsgs /\ 0 <= 3 * 0
    BY InjectorAssumption
  <2> QED BY <2>1, <2>2, <2>3, <1>5 DEF Counted
<1>9. EventsOK
  BY <1>3, <1>4 DEF EventsOK
<1>10. AskedAlike
  BY <1>3, <1>4 DEF AskedAlike
<1>11. Started = {Main}
  BY <1>3, <1>4, InjectorAssumption DEF Started
<1>12. SeedsOK
  BY <1>3, <1>4, <1>11 DEF SeedsOK
<1>13. Replayed
  <2>1. \A p \in Procs : ~Sender(p)
    BY <1>3, <1>4 DEF Sender
  <2>2. [i \in 1 .. MaxMsgs |-> 1] \in [1 .. MaxMsgs -> 1 .. 3 * MaxMsgs]
    BY InjectorAssumption
  <2> QED BY <2>1, <2>2 DEF Replayed
<1>14. ScriptedDrops /\ OneFlipAtMost
  BY <1>5 DEF ScriptedDrops, OneFlipAtMost
<1> QED BY <1>1, <1>6, <1>7, <1>8, <1>9, <1>10, <1>12, <1>13, <1>14 DEF LibraryInv

-----------------------------------------------------------------------------
(* What each step does.                                                    *)

\* sendErr_init, field by field.
LEMMA SendErrInitStep ==
  ASSUME TypeOK, EnvOK, NEW p \in Procs, SendErr_init(p)
  PROVE  LET s == proc[p]
             t == proc'[p] IN
         /\ s \in ProcStates /\ s.at = "STARTED"
         /\ t \in ProcStates /\ t.at = "READY"
         /\ t.constant = Append(s.constant, InfoSeqNo)
         /\ t.chance = Asked(s.chance)
         /\ t.rate = IF env.rate # NotSet THEN s.rate ELSE ErrorRate
         /\ t.msgNo = s.msgNo
         /\ t.drawn = IF env.seed # NotSet THEN s.drawn ELSE 0
         /\ t.seed = IF env.seed # NotSet THEN s.seed
                     ELSE IF randomFlag THEN now ELSE s.nextSeed
         /\ t.nextSeed = IF randomFlag THEN now ELSE s.nextSeed + 1
         /\ proc' \in [Procs -> ProcStates]
         /\ \A r \in Procs : r # p => proc'[r] = proc[r]
<1> DEFINE s == proc[p]
           s1 == AddMsgEvent_Standard(s, InfoSeqNo)
           s2 == SetUserMode_ErrRate(s1, ErrorRate)
           s3 == SetUserMode_ErrDrop(s2)
           s4 == SetUserMode_ErrFlip(s3)
           first == IF randomFlag THEN now ELSE s.nextSeed
           s5 == SetUserMode_SeedRand(s4, first)
           s6 == [s5 EXCEPT !.at = "READY",
                    !.nextSeed = IF randomFlag THEN now ELSE @ + 1]
<1>0. /\ s \in ProcStates /\ s.at = "STARTED" /\ now \in Nat
      /\ proc \in [Procs -> ProcStates] /\ ErrorRate \in Int
      /\ first \in Int /\ s.nextSeed \in Nat
  <2>1. proc \in [Procs -> ProcStates] /\ now \in Nat
    BY DEF TypeOK
  <2>2. s.nextSeed \in Nat /\ s \in ProcStates
    BY <2>1 DEF ProcStates
  <2> QED BY <2>1, <2>2, InjectorAssumption DEF SendErr_init
<1>1. proc' = [proc EXCEPT ![p] = s6]
  BY DEF SendErr_init
<1> HIDE DEF s, first
<1>2. /\ s1 \in ProcStates /\ s1.constant = Append(s.constant, InfoSeqNo)
      /\ s1.chance = s.chance /\ s1.rate = s.rate /\ s1.seed = s.seed
      /\ s1.drawn = s.drawn /\ s1.msgNo = s.msgNo /\ s1.nextSeed = s.nextSeed
  BY <1>0, EventTypes, AddStandardFields
<1> HIDE DEF s1
<1>3. /\ s2 \in ProcStates /\ s2.constant = s1.constant
      /\ s2.chance = s1.chance /\ s2.seed = s1.seed
      /\ s2.drawn = s1.drawn /\ s2.msgNo = s1.msgNo /\ s2.nextSeed = s1.nextSeed
      /\ s2.rate = IF env.rate # NotSet THEN s1.rate ELSE ErrorRate
  BY <1>0, <1>2, SetErrorRateFields DEF SetUserMode_ErrRate
<1> HIDE DEF s2
<1>4. /\ s3 \in ProcStates /\ s3.constant = s2.constant
      /\ s3.rate = s2.rate /\ s3.seed = s2.seed
      /\ s3.drawn = s2.drawn /\ s3.msgNo = s2.msgNo /\ s3.nextSeed = s2.nextSeed
      /\ s3.chance = IF env.drop # NotSet THEN s2.chance ELSE Append(s2.chance, ErrorDrop)
  BY <1>3, EventTypes, AddRandomFields DEF SetUserMode_ErrDrop
<1> HIDE DEF s3
<1>5. /\ s4 \in ProcStates /\ s4.constant = s3.constant
      /\ s4.rate = s3.rate /\ s4.seed = s3.seed
      /\ s4.drawn = s3.drawn /\ s4.msgNo = s3.msgNo /\ s4.nextSeed = s3.nextSeed
      /\ s4.chance = IF env.flip # NotSet THEN s3.chance
                     ELSE Append(s3.chance, ErrorFlipBits)
  BY <1>4, EventTypes, AddRandomFields DEF SetUserMode_ErrFlip
<1> HIDE DEF s4
<1>6. /\ s5 \in ProcStates /\ s5.constant = s4.constant /\ s5.chance = s4.chance
      /\ s5.rate = s4.rate /\ s5.msgNo = s4.msgNo /\ s5.nextSeed = s4.nextSeed
      /\ s5.drawn = IF env.seed # NotSet THEN s4.drawn ELSE 0
      /\ s5.seed = IF env.seed # NotSet THEN s4.seed ELSE first
  BY <1>0, <1>5, SetRandSeedFields DEF SetUserMode_SeedRand
<1> HIDE DEF s5
<1>7. /\ s6 \in ProcStates /\ s6.at = "READY"
      /\ s6.constant = s5.constant /\ s6.chance = s5.chance /\ s6.rate = s5.rate
      /\ s6.msgNo = s5.msgNo /\ s6.drawn = s5.drawn /\ s6.seed = s5.seed
      /\ s6.nextSeed = IF randomFlag THEN now ELSE s5.nextSeed + 1
  <2> DEFINE n == IF randomFlag THEN now ELSE s5.nextSeed + 1
  <2>0. ASSUME NEW u \in ProcStates PROVE u.nextSeed \in Nat
    BY DEF ProcStates
  <2>1. n \in Nat
    BY <1>0, <1>6, <2>0
  <2>2. s6 = [s5 EXCEPT !.at = "READY", !.nextSeed = n] /\ "READY" \in States
    BY DEF States
  <2> HIDE DEF n, s6
  <2>3. /\ s6 \in ProcStates /\ s6.at = "READY" /\ s6.nextSeed = n
        /\ s6.constant = s5.constant /\ s6.chance = s5.chance /\ s6.rate = s5.rate
        /\ s6.msgNo = s5.msgNo /\ s6.drawn = s5.drawn /\ s6.seed = s5.seed
    <3>1. s5 \in ProcStates
      BY <1>6
    <3> QED BY <3>1, <2>1, <2>2 DEF ProcStates
  <2> QED BY <2>3 DEF n
<1> HIDE DEF s6
<1>8. s6.chance = Asked(s.chance)
  BY <1>2, <1>3, <1>4, <1>5, <1>6, <1>7 DEF Asked
<1>9. proc'[p] = s6 /\ proc' \in [Procs -> ProcStates]
      /\ \A r \in Procs : r # p => proc'[r] = proc[r]
  BY <1>0, <1>1, <1>7
<1> QED
  BY <1>0, <1>2, <1>3, <1>4, <1>5, <1>6, <1>7, <1>8, <1>9 DEF s, first

\* forkMod, field by field.
LEMMA ForkModStep ==
  ASSUME TypeOK, EnvOK, NEW c \in Procs, ForkMod(c)
  PROVE  LET s == proc[Main]
             m == proc'[Main]
             t == proc'[c] IN
         /\ Program = "server" /\ c # Main
         /\ s \in ProcStates /\ s.at = "READY" /\ proc[c].at = "NONE"
         /\ m \in ProcStates /\ m.nextSeed = s.nextSeed + 1
         /\ m.at = "READY" /\ m.constant = s.constant /\ m.chance = s.chance
         /\ m.rate = s.rate /\ m.seed = s.seed /\ m.drawn = s.drawn /\ m.msgNo = s.msgNo
         /\ t \in ProcStates /\ t.nextSeed = s.nextSeed + 1
         /\ t.at = "STARTED" /\ t.constant = s.constant /\ t.chance = s.chance
         /\ t.rate = s.rate /\ t.msgNo = s.msgNo
         /\ t.drawn = IF env.seed # NotSet THEN s.drawn ELSE 0
         /\ t.seed = IF env.seed # NotSet THEN s.seed ELSE s.nextSeed
         /\ proc' \in [Procs -> ProcStates]
         /\ \A r \in Procs : r # Main /\ r # c => proc'[r] = proc[r]
<1> DEFINE s == proc[Main]
           m == [s EXCEPT !.nextSeed = @ + 1]
           u == SetUserMode_SeedRand(m, m.nextSeed - 1)
           t == [u EXCEPT !.at = "STARTED"]
<1>0. /\ s \in ProcStates /\ s.at = "READY" /\ proc[c].at = "NONE" /\ c # Main
      /\ Program = "server" /\ proc \in [Procs -> ProcStates] /\ s.nextSeed \in Nat
  BY InjectorAssumption DEF TypeOK, ForkMod, ProcStates
<1>1. proc' = [proc EXCEPT ![Main] = m, ![c] = t]
  BY DEF ForkMod
<1> HIDE DEF s
<1>2. /\ m \in ProcStates /\ m.nextSeed = s.nextSeed + 1
      /\ m.at = "READY" /\ m.constant = s.constant /\ m.chance = s.chance
      /\ m.rate = s.rate /\ m.seed = s.seed /\ m.drawn = s.drawn /\ m.msgNo = s.msgNo
  <2>1. s.nextSeed + 1 \in Nat
    BY <1>0
  <2> QED BY <2>1, <1>0, CounterFields
<1> HIDE DEF m
<1>3. /\ u \in ProcStates /\ u.nextSeed = s.nextSeed + 1
      /\ u.constant = s.constant /\ u.chance = s.chance
      /\ u.rate = s.rate /\ u.msgNo = s.msgNo
      /\ u.drawn = IF env.seed # NotSet THEN s.drawn ELSE 0
      /\ u.seed = IF env.seed # NotSet THEN s.seed ELSE s.nextSeed
  <2>1. m.nextSeed - 1 = s.nextSeed /\ m.nextSeed - 1 \in Int
    BY <1>0, <1>2
  <2> QED BY <2>1, <1>2, SetRandSeedFields DEF SetUserMode_SeedRand
<1> HIDE DEF u
<1>4. /\ t \in ProcStates /\ t.at = "STARTED" /\ t.nextSeed = u.nextSeed
      /\ t.constant = u.constant /\ t.chance = u.chance
      /\ t.rate = u.rate /\ t.msgNo = u.msgNo /\ t.drawn = u.drawn /\ t.seed = u.seed
  BY <1>3 DEF ProcStates, States
<1> HIDE DEF t
<1>5. /\ proc'[Main] = m /\ proc'[c] = t /\ proc' \in [Procs -> ProcStates]
      /\ \A r \in Procs : r # Main /\ r # c => proc'[r] = proc[r]
  BY <1>0, <1>1, <1>2, <1>4, InjectorAssumption
<1> QED BY <1>0, <1>2, <1>3, <1>4, <1>5 DEF s

\* What an event keeps of what it is when it has run.
LEMMA RanEvent ==
  ASSUME NEW event \in Events
  PROVE  /\ Ran(event) \in Events /\ Ran(event).kind = event.kind
         /\ event.kind = "drop" => Ran(event) = event
  BY DEF Ran, Events

\* runMsgEvents changes nothing but the history of the infoSeqNos.
LEMMA RunFields ==
  ASSUME NEW s \in ProcStates
  PROVE  LET t == RunMsgEvents(s) IN
         /\ t \in ProcStates /\ t.at = s.at
         /\ t.chance = s.chance /\ t.rate = s.rate /\ t.seed = s.seed
         /\ t.drawn = s.drawn /\ t.msgNo = s.msgNo /\ t.nextSeed = s.nextSeed
         /\ DOMAIN t.constant = DOMAIN s.constant
         /\ \A i \in DOMAIN s.constant :
              /\ t.constant[i].kind = s.constant[i].kind
              /\ s.constant[i].kind = "drop" => t.constant[i] = s.constant[i]
<1> DEFINE q == s.constant
           ran == [i \in DOMAIN q |->
                     IF i \in Runs(s) THEN Ran(q[i]) ELSE q[i]]
           t == [s EXCEPT !.constant = ran]
<1>1. q \in Seq(Events)
  BY DEF ProcStates
<1>2. RunMsgEvents(s) = t
  BY DEF RunMsgEvents
<1> HIDE DEF q
<1>3. /\ Len(q) \in Nat /\ DOMAIN q = 1 .. Len(q) /\ \A i \in 1 .. Len(q) : q[i] \in Events
  BY <1>1
<1>4. \A i \in DOMAIN q : ran[i] = Ran(q[i]) \/ ran[i] = q[i]
  OBVIOUS
<1>5. ran \in [1 .. Len(q) -> Events] /\ DOMAIN ran = DOMAIN q
  BY <1>3, RanEvent
<1> HIDE DEF ran
<1>6. ran \in Seq(Events)
  BY <1>3, <1>5, FunctionIsSeq
<1>7. /\ t \in ProcStates /\ t.at = s.at /\ t.constant = ran
      /\ t.chance = s.chance /\ t.rate = s.rate /\ t.seed = s.seed
      /\ t.drawn = s.drawn /\ t.msgNo = s.msgNo /\ t.nextSeed = s.nextSeed
  BY <1>6 DEF ProcStates
<1> HIDE DEF t
<1>8. \A i \in DOMAIN q : /\ ran[i].kind = q[i].kind
                          /\ q[i].kind = "drop" => ran[i] = q[i]
  BY <1>3, <1>4, RanEvent
<1> QED BY <1>2, <1>5, <1>7, <1>8 DEF q

\* The state that a message is sent in: At, field by field.
LEMMA StateAtFields ==
  ASSUME NEW p, proc[p] \in ProcStates, NEW d \in Nat, NEW i \in Nat
  PROVE  LET t == At(p, d, i) IN
         /\ t \in ProcStates /\ t.drawn = d /\ t.msgNo = i % UINT_RANGE
         /\ t.at = proc[p].at /\ t.constant = proc[p].constant
         /\ t.chance = proc[p].chance /\ t.rate = proc[p].rate
         /\ t.seed = proc[p].seed /\ t.nextSeed = proc[p].nextSeed
<1> DEFINE s == proc[p]
<1>1. s \in ProcStates
  OBVIOUS
<1> HIDE DEF s
<1> PICK k : k = i % UINT_RANGE
  OBVIOUS
<1>2. k \in Nat
  BY InjectorAssumption
<1>3. LET t == [s EXCEPT !.drawn = d, !.msgNo = k] IN
      /\ t \in ProcStates /\ t.drawn = d /\ t.msgNo = k
      /\ t.at = s.at /\ t.constant = s.constant /\ t.chance = s.chance
      /\ t.rate = s.rate /\ t.seed = s.seed /\ t.nextSeed = s.nextSeed
  BY <1>1, <1>2 DEF ProcStates
<1> QED BY <1>3 DEF At, s

\* What events there are does not depend on the message.
LEMMA EventsAt ==
  ASSUME NEW p, proc[p] \in ProcStates, EventsOf(proc[p]), NEW d \in Nat, NEW i \in Nat
  PROVE  EventsOf(At(p, d, i))
<1> PICK t : t = At(p, d, i)
  OBVIOUS
<1>1. /\ t.at = proc[p].at /\ t.constant = proc[p].constant
      /\ t.chance = proc[p].chance
  BY StateAtFields
<1>2. EventsOf(t)
  BY <1>1 DEF EventsOf
<1> QED BY <1>2

LEMMA DrawnFields ==
  ASSUME NEW s \in ProcStates, NEW d \in Nat
  PROVE  LET t == [s EXCEPT !.drawn = d] IN
         /\ t \in ProcStates /\ t.drawn = d /\ t.msgNo = s.msgNo
         /\ t.at = s.at /\ t.constant = s.constant /\ t.chance = s.chance
         /\ t.rate = s.rate /\ t.seed = s.seed /\ t.nextSeed = s.nextSeed
  BY DEF ProcStates

\* No constant event flips a bit, so none draws a number.
LEMMA NoConstantFlips ==
  ASSUME NEW s, EventsOf(s)
  PROVE  ConstantFlips(s) = 0
<1>1. {i \in Runs(s) : s.constant[i].kind = "flip"} = {}
  BY DEF Runs, EventsOf
<1> QED BY <1>1, FS_EmptySet DEF ConstantFlips

\* A message costs one to three numbers and has one fate.
LEMMA FateTypes ==
  ASSUME NEW s, EventsOf(s)
  PROVE  /\ Draws(s) \in 1 .. 3
         /\ ProcessEvents(s) \in Outcomes /\ ProcessEvents(s).flips <= 1
<1>1. ConstantFlips(s) = 0 /\ RandomFlips(s) \in {0, 1}
  BY NoConstantFlips DEF RandomFlips
<1> HIDE DEF ConstantFlips, RandomFlips
<1>2. Draws(s) \in 1 .. 3
  BY <1>1 DEF Draws
<1>3. ProcessEvents(s) \in Outcomes /\ ProcessEvents(s).flips <= 1
  BY <1>1 DEF ProcessEvents, Outcomes
<1> QED BY <1>2, <1>3

\* sendto, field by field; the message is the next one's number on.
LEMMA SendToStep ==
  ASSUME TypeOK, Counted, EventsOK, NEW p \in Procs, SendTo_Err(p)
  PROVE  LET s == At(p, proc[p].drawn, Len(log[p]) + 1)
             t == proc'[p] IN
         /\ proc[p] \in ProcStates /\ proc[p].at = "READY" /\ Sender(p)
         /\ s \in ProcStates /\ s.msgNo = (Len(log[p]) + 1) % UINT_RANGE
         /\ Len(log[p]) < MaxMsgs
         /\ t \in ProcStates /\ t.at = proc[p].at /\ t.chance = proc[p].chance
         /\ t.rate = proc[p].rate /\ t.seed = proc[p].seed
         /\ t.nextSeed = proc[p].nextSeed /\ t.msgNo = s.msgNo
         /\ t.drawn = proc[p].drawn + Draws(s)
         /\ DOMAIN t.constant = DOMAIN proc[p].constant
         /\ \A i \in DOMAIN t.constant :
              /\ t.constant[i].kind = proc[p].constant[i].kind
              /\ proc[p].constant[i].kind = "drop" =>
                   t.constant[i] = proc[p].constant[i]
         /\ proc' \in [Procs -> ProcStates] /\ log' \in [Procs -> Seq(Outcomes)]
         /\ log'[p] = Append(log[p], ProcessEvents(s))
         /\ \A r \in Procs : r # p => proc'[r] = proc[r] /\ log'[r] = log[r]
<1> DEFINE x == [proc[p] EXCEPT !.msgNo = (@ + 1) % UINT_RANGE]
           s == At(p, proc[p].drawn, Len(log[p]) + 1)
           u == RunMsgEvents(s)
           t == [u EXCEPT !.drawn = @ + Draws(s)]
<1>1. /\ proc \in [Procs -> ProcStates] /\ proc[p] \in ProcStates
      /\ log \in [Procs -> Seq(Outcomes)] /\ log[p] \in Seq(Outcomes)
      /\ proc[p].at = "READY" /\ Sender(p) /\ Len(log[p]) < MaxMsgs
  BY DEF TypeOK, SendTo_Err, MaySend, Sender
<1>2. /\ proc[p].drawn \in Nat /\ Len(log[p]) + 1 \in Nat
      /\ (proc[p].msgNo + 1) % UINT_RANGE = (Len(log[p]) + 1) % UINT_RANGE
  <2>1. proc[p].msgNo = Len(log[p]) % UINT_RANGE
    BY DEF Counted
  <2>2. Len(log[p]) \in Nat
    BY <1>1
  <2>3. (proc[p].msgNo + 1) % UINT_RANGE = (Len(log[p]) + 1) % UINT_RANGE
    BY <2>1, <2>2, ModNext, InjectorAssumption
  <2>4. proc[p].drawn \in Nat
    BY <1>1 DEF ProcStates
  <2> QED BY <2>2, <2>3, <2>4
<1>3. x = s
  <2>1. [proc[p] EXCEPT !.drawn = proc[p].drawn] = proc[p]
    BY <1>1 DEF ProcStates
  <2>2. s = [[proc[p] EXCEPT !.drawn = proc[p].drawn]
               EXCEPT !.msgNo = (Len(log[p]) + 1) % UINT_RANGE]
    BY DEF At
  <2> QED BY <2>1, <2>2, <1>2
<1>4. /\ log' = [log EXCEPT ![p] = Append(@, ProcessEvents(s))]
      /\ proc' = [proc EXCEPT ![p] = t]
  BY <1>3 DEF SendTo_Err
<1>5. /\ s \in ProcStates /\ s.drawn = proc[p].drawn
      /\ s.msgNo = (Len(log[p]) + 1) % UINT_RANGE
      /\ s.at = proc[p].at /\ s.constant = proc[p].constant /\ s.chance = proc[p].chance
      /\ s.rate = proc[p].rate /\ s.seed = proc[p].seed
      /\ s.nextSeed = proc[p].nextSeed
  BY <1>1, <1>2, StateAtFields
<1> HIDE DEF x, s
<1>6. /\ u \in ProcStates /\ u.at = s.at
      /\ u.chance = s.chance /\ u.rate = s.rate /\ u.seed = s.seed
      /\ u.drawn = s.drawn /\ u.msgNo = s.msgNo /\ u.nextSeed = s.nextSeed
      /\ DOMAIN u.constant = DOMAIN s.constant
      /\ \A i \in DOMAIN s.constant :
           /\ u.constant[i].kind = s.constant[i].kind
           /\ s.constant[i].kind = "drop" => u.constant[i] = s.constant[i]
  BY <1>5, RunFields
<1> HIDE DEF u
<1>7. Draws(s) \in 1 .. 3 /\ ProcessEvents(s) \in Outcomes
  <2>1. EventsOf(s)
    BY <1>1, <1>2, EventsAt DEF EventsOK, s
  <2> QED BY <2>1, FateTypes
<1>8. /\ t \in ProcStates /\ t.drawn = u.drawn + Draws(s) /\ t.msgNo = u.msgNo
      /\ t.at = u.at /\ t.constant = u.constant /\ t.chance = u.chance
      /\ t.rate = u.rate /\ t.seed = u.seed /\ t.nextSeed = u.nextSeed
  <2>1. u.drawn + Draws(s) \in Nat
    BY <1>2, <1>5, <1>6, <1>7
  <2> QED BY <2>1, <1>6, DrawnFields
<1> HIDE DEF t
<1>9. /\ proc'[p] = t /\ proc' \in [Procs -> ProcStates]
      /\ \A r \in Procs : r # p => proc'[r] = proc[r]
  BY <1>1, <1>4, <1>8
<1>10. /\ log'[p] = Append(log[p], ProcessEvents(s)) /\ log' \in [Procs -> Seq(Outcomes)]
       /\ \A r \in Procs : r # p => log'[r] = log[r]
  <2>1. Append(log[p], ProcessEvents(s)) \in Seq(Outcomes)
    BY <1>1, <1>7
  <2> QED BY <2>1, <1>1, <1>4
<1>11. /\ DOMAIN t.constant = DOMAIN proc[p].constant
       /\ \A i \in DOMAIN t.constant :
            /\ t.constant[i].kind = proc[p].constant[i].kind
            /\ proc[p].constant[i].kind = "drop" => t.constant[i] = proc[p].constant[i]
  BY <1>5, <1>6, <1>8
<1>12. /\ t \in ProcStates /\ t.at = proc[p].at /\ t.chance = proc[p].chance
       /\ t.rate = proc[p].rate /\ t.seed = proc[p].seed
       /\ t.nextSeed = proc[p].nextSeed /\ t.msgNo = s.msgNo
       /\ t.drawn = proc[p].drawn + Draws(s)
  BY <1>5, <1>6, <1>8
<1>13. s \in ProcStates /\ s.msgNo = (Len(log[p]) + 1) % UINT_RANGE
  BY <1>5
<1> HIDE DEF t
<1> QED
  BY <1>1, <1>9, <1>10, <1>11, <1>12, <1>13 DEF s

\* exit changes where the process is.
LEMMA ExitStep ==
  ASSUME TypeOK, NEW p \in Procs, Exit(p)
  PROVE  LET s == proc[p]
             t == proc'[p] IN
         /\ Sender(p) /\ s \in ProcStates /\ s.at = "READY"
         /\ t \in ProcStates /\ t.at = "DONE"
         /\ t.constant = s.constant /\ t.chance = s.chance /\ t.rate = s.rate
         /\ t.seed = s.seed /\ t.drawn = s.drawn /\ t.msgNo = s.msgNo
         /\ t.nextSeed = s.nextSeed
         /\ proc' \in [Procs -> ProcStates]
         /\ \A r \in Procs : r # p => proc'[r] = proc[r]
<1> DEFINE s == proc[p]
           t == [s EXCEPT !.at = "DONE"]
<1>1. /\ proc \in [Procs -> ProcStates] /\ s \in ProcStates
      /\ s.at = "READY" /\ Sender(p)
  BY DEF TypeOK, Exit, MaySend, Sender
<1>2. proc' = [proc EXCEPT ![p] = t]
  BY DEF Exit
<1> HIDE DEF s
<1>3. /\ t \in ProcStates /\ t.at = "DONE"
      /\ t.constant = s.constant /\ t.chance = s.chance /\ t.rate = s.rate
      /\ t.seed = s.seed /\ t.drawn = s.drawn /\ t.msgNo = s.msgNo
      /\ t.nextSeed = s.nextSeed
  BY <1>1 DEF ProcStates, States
<1> HIDE DEF t
<1>4. /\ proc'[p] = t /\ proc' \in [Procs -> ProcStates]
      /\ \A r \in Procs : r # p => proc'[r] = proc[r]
  BY <1>1, <1>2, <1>3
<1> QED BY <1>1, <1>3, <1>4 DEF s

-----------------------------------------------------------------------------
(* Events.                                                                 *)

LEMMA EventsNext ==
  ASSUME env' = env, \A r \in Procs : EventsOf(proc'[r])
  PROVE  EventsOK'
  BY DEF EventsOK, EventsOf, RandomEvents, Scripted, ScriptedDrop, Numbers

\* Events that have run are still the same for what is dropped.
LEMMA EventsKept ==
  ASSUME NEW s, NEW t, EventsOf(s), t.at # "NONE" => s.at # "NONE",
         t.chance = s.chance, DOMAIN t.constant = DOMAIN s.constant,
         \A i \in DOMAIN t.constant :
           /\ t.constant[i].kind = s.constant[i].kind
           /\ s.constant[i].kind = "drop" => t.constant[i] = s.constant[i]
  PROVE  EventsOf(t)
<1>1. ScriptedDrop.kind = "drop"
  BY DEF ScriptedDrop, SetDropSpecific, ErrorDrop
<1>2. \A i \in DOMAIN t.constant : t.constant[i].kind = "drop" =>
        Scripted /\ t.constant[i] = ScriptedDrop
  BY DEF EventsOf
<1>3. ASSUME Scripted, t.at # "NONE"
      PROVE  \E i \in DOMAIN t.constant : t.constant[i] = ScriptedDrop
  BY <1>1, <1>3 DEF EventsOf
<1>4. \A i \in DOMAIN t.constant : t.constant[i].kind # "flip"
  BY DEF EventsOf
<1> QED BY <1>2, <1>3, <1>4 DEF EventsOf

\* sendErr_init's own events neither drop beside a script nor hide it.
LEMMA EventsAsked ==
  ASSUME EnvOK, NEW s \in ProcStates, NEW t \in ProcStates, EventsOf(s), s.at # "NONE",
         t.constant = Append(s.constant, InfoSeqNo), t.chance = Asked(s.chance)
  PROVE  EventsOf(t)
<1> DEFINE q == s.constant
           n == Len(q)
<1>1. q \in Seq(Events) /\ s.chance \in Seq(Events)
  BY DEF ProcStates
<1>2. /\ DOMAIN t.constant = 1 .. n + 1 /\ DOMAIN q = 1 .. n /\ n \in Nat
      /\ \A i \in 1 .. n : t.constant[i] = q[i]
      /\ t.constant[n + 1] = InfoSeqNo
  BY <1>1, Appended, EventTypes
<1>3. InfoSeqNo.kind = "info" /\ \A i \in 1 .. n + 1 : i \in 1 .. n \/ i = n + 1
  BY <1>2 DEF InfoSeqNo
<1>4. \A i \in DOMAIN t.constant : t.constant[i].kind = "drop" =>
        Scripted /\ t.constant[i] = ScriptedDrop
  BY <1>2, <1>3 DEF EventsOf
<1>5. ASSUME Scripted
      PROVE  \E i \in DOMAIN t.constant : t.constant[i] = ScriptedDrop
  <2>1. PICK i \in DOMAIN q : q[i] = ScriptedDrop
    BY <1>5 DEF EventsOf
  <2> QED BY <2>1, <1>2
<1>6. \A i \in DOMAIN t.chance : t.chance[i] \in RandomEvents
  <2> DEFINE a == IF env.drop # NotSet THEN s.chance ELSE Append(s.chance, ErrorDrop)
  <2>1. \A i \in DOMAIN s.chance : s.chance[i] \in RandomEvents
    BY DEF EventsOf
  <2>2. a \in Seq(Events) /\ \A i \in DOMAIN a : a[i] \in RandomEvents
    <3>1. env.drop = NotSet => ErrorDrop \in RandomEvents
      BY DEF RandomEvents, Scripted
    <3> QED BY <3>1, <2>1, <1>1, ChanceAppended, EventTypes, Appended
  <2>3. t.chance = IF env.flip # NotSet THEN a ELSE Append(a, ErrorFlipBits)
    BY DEF Asked
  <2> HIDE DEF a
  <2>4. ErrorFlipBits \in RandomEvents
    BY DEF RandomEvents
  <2> QED BY <2>2, <2>3, <2>4, ChanceAppended, EventTypes
<1>7. \A i \in DOMAIN t.constant : t.constant[i].kind # "flip"
  BY <1>2, <1>3 DEF EventsOf
<1> QED BY <1>4, <1>5, <1>6, <1>7 DEF EventsOf

\* A constant event drops a message just when the script names it.
LEMMA DroppersIff ==
  ASSUME NEW s, EventsOf(s), s.at # "NONE"
  PROVE  Droppers(s) # {} <=> Scripted /\ s.msgNo \in Numbers
<1>1. /\ ScriptedDrop.kind = "drop" /\ ScriptedDrop.all = FALSE
      /\ ScriptedDrop.list = Numbers
  BY DEF ScriptedDrop, SetDropSpecific, ErrorDrop
<1>2. ASSUME NEW i \in Droppers(s) PROVE Scripted /\ s.msgNo \in Numbers
  BY <1>1, <1>2 DEF Droppers, Drops, EventsOf
<1>3. ASSUME Scripted, s.msgNo \in Numbers PROVE Droppers(s) # {}
  <2>1. PICK i \in DOMAIN s.constant : s.constant[i] = ScriptedDrop
    BY <1>3 DEF EventsOf
  <2> QED BY <2>1, <1>1, <1>3 DEF Droppers, Drops
<1> QED BY <1>2, <1>3

\* The random event that chance chooses is one of those in the list.
LEMMA RandCaseIsRandom ==
  ASSUME EnvOK, NEW s \in ProcStates, EventsOf(s), s.seed \in Seeds,
         s.drawn + 2 <= 3 * MaxMsgs, s.chance # <<>>
  PROVE  RandCase(s) \in RandomEvents
<1> DEFINE n == Len(s.chance)
           x == Drand48(s, 2)
<1>1. s.chance \in Seq(Events) /\ s.drawn \in Nat
  BY DEF ProcStates
<1>2. n \in Nat \ {0} /\ DOMAIN s.chance = 1 .. n
  BY <1>1, EmptySeq
<1>3. x \in 0 .. RandMax - 1
  <2>1. s.drawn + ConstantFlips(s) + 2 \in 1 .. 3 * MaxMsgs
    BY <1>1, NoConstantFlips, InjectorAssumption
  <2>2. rand[s.seed] \in [1 .. 3 * MaxMsgs -> 0 .. RandMax - 1]
    BY DEF EnvOK
  <2> QED BY <2>1, <2>2 DEF Drand48
<1> HIDE DEF x
<1>4. 1 + (n * x) \div RandMax \in 1 .. n
  BY <1>2, <1>3, Picks, InjectorAssumption
<1>5. RandCase(s) = s.chance[1 + (n * x) \div RandMax]
  BY DEF RandCase, x
<1> QED BY <1>2, <1>4, <1>5 DEF EventsOf

\* Two states that agree on the random events, the rate and where they are in
\* the same numbers treat their next message alike.
LEMMA SameFate ==
  ASSUME NEW s, NEW t, EventsOf(s), EventsOf(t), s.at # "NONE", t.at # "NONE",
         s.chance = t.chance, s.rate = t.rate, s.seed = t.seed,
         s.drawn = t.drawn, s.msgNo = t.msgNo
  PROVE  Draws(s) = Draws(t) /\ ProcessEvents(s) = ProcessEvents(t)
<1>1. Droppers(s) # {} <=> Droppers(t) # {}
  BY DroppersIff
<1>2. ConstantFlips(s) = ConstantFlips(t)
  BY NoConstantFlips
<1>3. Drand48(s, 1) = Drand48(t, 1) /\ Drand48(s, 2) = Drand48(t, 2)
  BY <1>2 DEF Drand48
<1>4. (Chance(s) <=> Chance(t)) /\ RandCase(s) = RandCase(t)
  BY <1>3 DEF Chance, RandCase
<1>5. RandomFlips(s) = RandomFlips(t)
  BY <1>4 DEF RandomFlips
<1> QED BY <1>1, <1>2, <1>4, <1>5 DEF Draws, ProcessEvents

-----------------------------------------------------------------------------
(* The counter of seeds.                                                   *)

LEMMA StartedSize ==
  /\ IsFiniteSet(Started) /\ Cardinality(Started) \in Nat
  /\ Cardinality(Started) <= Cardinality(Procs)
  /\ Main \in Started => 1 <= Cardinality(Started)
<1>1. Started \subseteq Procs /\ IsFiniteSet(Procs)
  BY GeneratorAssumption DEF Started
<1>2. IsFiniteSet(Started) /\ Cardinality(Started) <= Cardinality(Procs)
  BY <1>1, FS_Subset
<1>3. Cardinality(Started) \in Nat
  BY <1>2, FS_CardinalityType
<1>4. Main \in Started => Cardinality(Started) # 0
  BY <1>2, FS_EmptySet
<1> QED BY <1>2, <1>3, <1>4

\* Every seed that the counter gives has its numbers.
LEMMA SeedDomain ==
  ASSUME NEW n, n \in RANDOM_SEED .. RANDOM_SEED + Cardinality(Started)
  PROVE  n \in Seeds
<1>1. /\ Cardinality(Started) \in Nat /\ Cardinality(Started) <= Cardinality(Procs)
      /\ Cardinality(Procs) \in Nat
  BY StartedSize, GeneratorAssumption, FS_CardinalityType
<1>2. n \in RANDOM_SEED .. RANDOM_SEED + Cardinality(Procs)
  BY <1>1 DEF RANDOM_SEED
<1> QED BY <1>2, GeneratorAssumption

\* The process that calls sendErr_init gets the seed that was meant for it.
LEMMA SendErrInitSeeds ==
  ASSUME TypeOK, EnvOK, Roles, SeedsOK, NEW p \in Procs, SendErr_init(p)
  PROVE  SeedsOK'
<1>0. /\ env' = env /\ randomFlag' = randomFlag
      /\ \A r \in Procs : r # p => proc'[r] = proc[r]
      /\ proc[p].at = "STARTED" /\ proc'[p].at = "READY"
      /\ proc[p].nextSeed \in Nat
  BY SendErrInitStep DEF SendErr_init, ProcStates
<1>1. Started' = Started /\ p \in Started
  BY <1>0 DEF Started
<1>2. proc'[p].seed = IF env.seed # NotSet THEN proc[p].seed
                      ELSE IF randomFlag THEN now ELSE proc[p].nextSeed
  BY SendErrInitStep
<1>3. proc'[p].nextSeed = IF randomFlag THEN now ELSE proc[p].nextSeed + 1
  BY SendErrInitStep
<1>4. p = Main => Started = {Main}
  BY <1>0, InjectorAssumption DEF Roles, Started
<1>5. Main \in Started
  BY InjectorAssumption DEF Roles, Started
<1>6. ASSUME ~randomFlag, env.seed = NotSet
      PROVE  /\ proc[p].nextSeed \in Seeds
             /\ proc'[Main].at # "STARTED" /\ proc'[Main].nextSeed \in
                  RANDOM_SEED .. RANDOM_SEED + Cardinality(Started)
             /\ \A r \in Started \ {Main} :
                  SeedOf(r)' = SeedOf(r) /\ SeedOf(r) \in RANDOM_SEED .. proc'[Main].nextSeed
  <2>1. CASE p = Main
    <3>1. proc[p].nextSeed = RANDOM_SEED /\ proc'[Main].nextSeed = RANDOM_SEED + 1
      BY <1>0, <1>3, <1>6, <2>1 DEF SeedsOK
    <3>2. Cardinality(Started) \in Nat /\ 1 <= Cardinality(Started)
      BY <1>5, StartedSize
    <3>3. RANDOM_SEED \in RANDOM_SEED .. RANDOM_SEED + Cardinality(Started)
      BY <3>2 DEF RANDOM_SEED
    <3>4. RANDOM_SEED \in Seeds
      BY <3>3, SeedDomain
    <3>5. RANDOM_SEED + 1 \in RANDOM_SEED .. RANDOM_SEED + Cardinality(Started)
      BY <3>2 DEF RANDOM_SEED
    <3> QED BY <3>1, <3>4, <3>5, <2>1, <1>0, <1>4
  <2>2. CASE p # Main
    <3>1. proc'[Main] = proc[Main] /\ proc[Main].at = "READY"
      BY <2>2, <1>0, InjectorAssumption DEF Roles
    <3>2. proc[Main].nextSeed \in RANDOM_SEED .. RANDOM_SEED + Cardinality(Started)
      BY <3>1, <1>6 DEF SeedsOK
    <3>3. \A r \in Started \ {Main} : SeedOf(r) \in RANDOM_SEED .. proc[Main].nextSeed
      BY <1>6 DEF SeedsOK
    <3>4. \A r \in Started \ {Main} : SeedOf(r)' = SeedOf(r)
      BY <1>0, <1>2, <1>6 DEF SeedOf, Started
    <3>5. SeedOf(p) = proc[p].nextSeed
      BY <1>0 DEF SeedOf
    <3>6. proc[p].nextSeed \in RANDOM_SEED .. RANDOM_SEED + Cardinality(Started)
      BY <3>2, <3>3, <3>5, <2>2, <1>1, StartedSize DEF RANDOM_SEED
    <3>7. proc[p].nextSeed \in Seeds
      BY <3>6, SeedDomain
    <3> QED BY <3>1, <3>2, <3>3, <3>4, <3>7
  <2> QED BY <2>1, <2>2
<1>7. \A r \in Procs : proc'[r].at \in {"READY", "DONE"} => proc'[r].seed \in Seeds
  <2>1. proc'[p].seed \in Seeds
    BY <1>1, <1>2, <1>6, EnvTypes DEF SeedsOK
  <2> QED BY <2>1, <1>0 DEF SeedsOK
<1>8. env.seed # NotSet => \A r \in Started : proc'[r].seed = env.seed
  BY <1>0, <1>1, <1>2 DEF SeedsOK, Started
<1>9. ~randomFlag /\ env.seed = NotSet =>
        \A r, q \in Started \ {Main} : SeedOf(r)' = SeedOf(q)' => r = q
  BY <1>6 DEF SeedsOK
<1> QED
  BY <1>0, <1>1, <1>6, <1>7, <1>8, <1>9 DEF SeedsOK

\* The counter is moved in the parent: the child's copy is a new seed.
LEMMA ForkModSeeds ==
  ASSUME TypeOK, EnvOK, Roles, SeedsOK, NEW c \in Procs, ForkMod(c)
  PROVE  SeedsOK'
<1>0. /\ env' = env /\ randomFlag' = randomFlag
      /\ \A r \in Procs : r # Main /\ r # c => proc'[r] = proc[r]
      /\ c # Main /\ proc[c].at = "NONE" /\ proc'[c].at = "STARTED"
      /\ proc[Main].at = "READY" /\ proc'[Main].at = "READY"
      /\ proc'[Main].seed = proc[Main].seed /\ Main \in Procs
  BY ForkModStep, InjectorAssumption DEF ForkMod
<1>1. Started' = Started \cup {c} /\ c \notin Started /\ Main \in Started
  BY <1>0 DEF Started
<1>2. /\ proc'[Main].nextSeed = proc[Main].nextSeed + 1
      /\ proc'[c].nextSeed = proc[Main].nextSeed + 1
      /\ proc[Main].nextSeed \in Nat
      /\ proc'[c].seed = IF env.seed # NotSet THEN proc[Main].seed ELSE proc[Main].nextSeed
  BY ForkModStep DEF ProcStates
<1>3. Cardinality(Started') = Cardinality(Started) + 1 /\ Cardinality(Started) \in Nat
  BY <1>1, StartedSize, FS_AddElement
<1>4. \A r \in Procs : proc'[r].at \in {"READY", "DONE"} => proc'[r].seed \in Seeds
  BY <1>0 DEF SeedsOK
<1>5. env.seed # NotSet => \A r \in Started' : proc'[r].seed = env.seed
  BY <1>0, <1>1, <1>2 DEF SeedsOK, Started
<1>6. ASSUME ~randomFlag, env.seed = NotSet
      PROVE  /\ proc'[Main].nextSeed \in
                  RANDOM_SEED .. RANDOM_SEED + Cardinality(Started')
             /\ \A r \in Started' \ {Main} : SeedOf(r)' \in RANDOM_SEED .. proc'[Main].nextSeed
             /\ \A r, q \in Started' \ {Main} : SeedOf(r)' = SeedOf(q)' => r = q
  <2>1. /\ proc[Main].nextSeed \in RANDOM_SEED .. RANDOM_SEED + Cardinality(Started)
        /\ \A r \in Started \ {Main} : SeedOf(r) \in RANDOM_SEED .. proc[Main].nextSeed
        /\ \A r, q \in Started \ {Main} : SeedOf(r) = SeedOf(q) => r = q
    BY <1>0, <1>6 DEF SeedsOK
  <2>2. \A r \in Started \ {Main} : SeedOf(r)' = SeedOf(r)
    BY <1>0, <1>1 DEF SeedOf, Started
  <2>3. SeedOf(c)' = proc[Main].nextSeed + 1
    BY <1>0, <1>2 DEF SeedOf
  <2>4. proc'[Main].nextSeed \in RANDOM_SEED .. RANDOM_SEED + Cardinality(Started')
    BY <2>1, <1>2, <1>3 DEF RANDOM_SEED
  <2>5. \A r \in Started' \ {Main} : SeedOf(r)' \in RANDOM_SEED .. proc'[Main].nextSeed
    BY <2>1, <2>2, <2>3, <1>1, <1>2 DEF RANDOM_SEED
  <2>6. \A r \in Started \ {Main} : SeedOf(r)' # SeedOf(c)'
    BY <2>1, <2>2, <2>3, <1>2 DEF RANDOM_SEED
  <2>7. \A r, q \in Started' \ {Main} : SeedOf(r)' = SeedOf(q)' => r = q
    BY <2>1, <2>2, <2>6, <1>1
  <2> QED BY <2>4, <2>5, <2>7
<1> QED
  BY <1>0, <1>4, <1>5, <1>6 DEF SeedsOK

\* Sending and exiting change no seed.
LEMMA SeedsKept ==
  ASSUME SeedsOK, env' = env, randomFlag' = randomFlag,
         \A r \in Procs :
           /\ proc'[r].at = "NONE" <=> proc[r].at = "NONE"
           /\ proc'[r].at = "STARTED" <=> proc[r].at = "STARTED"
           /\ proc'[r].at \in {"READY", "DONE"} <=> proc[r].at \in {"READY", "DONE"}
           /\ proc'[r].seed = proc[r].seed /\ proc'[r].nextSeed = proc[r].nextSeed
  PROVE  SeedsOK'
<1>1. Started' = Started
  BY DEF Started
<1>2. \A r \in Procs : SeedOf(r)' = SeedOf(r)
  BY DEF SeedOf
<1>3. Started \subseteq Procs /\ Main \in Procs
  BY InjectorAssumption DEF Started
<1>4. \A r \in Procs : proc'[r].at \in {"READY", "DONE"} => proc'[r].seed \in Seeds
  BY DEF SeedsOK
<1>5. env.seed # NotSet => \A r \in Started : proc'[r].seed = env.seed
  BY <1>3 DEF SeedsOK
<1>6. ASSUME ~randomFlag, env.seed = NotSet
      PROVE  /\ proc'[Main].at = "STARTED" => proc'[Main].nextSeed = RANDOM_SEED
             /\ proc'[Main].at # "STARTED" => proc'[Main].nextSeed \in
                  RANDOM_SEED .. RANDOM_SEED + Cardinality(Started)
             /\ \A r \in Started \ {Main} : SeedOf(r)' \in RANDOM_SEED .. proc'[Main].nextSeed
             /\ \A r, q \in Started \ {Main} : SeedOf(r)' = SeedOf(q)' => r = q
  BY <1>2, <1>3, <1>6 DEF SeedsOK
<1> QED BY <1>1, <1>4, <1>5, <1>6 DEF SeedsOK

-----------------------------------------------------------------------------
(* The draws under the environment's seed.                                 *)

\* What At is after a step, and what becomes of a message then.
NextAt(p, d, i) == [proc'[p] EXCEPT !.drawn = d, !.msgNo = i % UINT_RANGE]

LEMMA FateNext ==
  ASSUME rand' = rand
  PROVE  \A p, d, i : /\ Draws(At(p, d, i))' = Draws(NextAt(p, d, i))
                      /\ ProcessEvents(At(p, d, i))' = ProcessEvents(NextAt(p, d, i))
  BY DEF Draws, ProcessEvents, ConstantFlips, RandomFlips, Runs, Droppers, Chance,
         RandCase, Drand48, At, NextAt

\* Two senders, before or after a step that keeps what decides a message's fate.
LEMMA SameFateAt ==
  ASSUME NEW p, NEW q, proc[p] \in ProcStates, proc[q] \in ProcStates,
         EventsOf(proc[p]), EventsOf(proc[q]), proc[p].at # "NONE", proc[q].at # "NONE",
         proc[p].chance = proc[q].chance, proc[p].rate = proc[q].rate,
         proc[p].seed = proc[q].seed, NEW d \in Nat, NEW i \in Nat
  PROVE  /\ Draws(At(p, d, i)) = Draws(At(q, d, i))
         /\ ProcessEvents(At(p, d, i)) = ProcessEvents(At(q, d, i))
<1>1. EventsOf(At(p, d, i)) /\ EventsOf(At(q, d, i))
  BY EventsAt
<1>2. /\ At(p, d, i).at # "NONE" /\ At(q, d, i).at # "NONE"
      /\ At(p, d, i).chance = At(q, d, i).chance /\ At(p, d, i).rate = At(q, d, i).rate
      /\ At(p, d, i).seed = At(q, d, i).seed /\ At(p, d, i).drawn = At(q, d, i).drawn
      /\ At(p, d, i).msgNo = At(q, d, i).msgNo
  BY StateAtFields
<1> QED BY <1>1, <1>2, SameFate

LEMMA SameFateNext ==
  ASSUME rand' = rand, NEW p, proc[p] \in ProcStates, proc'[p] \in ProcStates,
         EventsOf(proc[p]), EventsOf(proc'[p]), proc[p].at # "NONE", proc'[p].at # "NONE",
         proc'[p].chance = proc[p].chance, proc'[p].rate = proc[p].rate,
         proc'[p].seed = proc[p].seed, NEW d \in Nat, NEW i \in Nat
  PROVE  /\ Draws(At(p, d, i))' = Draws(At(p, d, i))
         /\ ProcessEvents(At(p, d, i))' = ProcessEvents(At(p, d, i))
<1> DEFINE s == At(p, d, i)
           x == proc'[p]
           t == NextAt(p, d, i)
<1>1. /\ s.drawn = d /\ s.msgNo = i % UINT_RANGE /\ s.at = proc[p].at
      /\ s.constant = proc[p].constant /\ s.chance = proc[p].chance
      /\ s.rate = proc[p].rate /\ s.seed = proc[p].seed
  BY StateAtFields
<1>2. /\ t.drawn = d /\ t.msgNo = i % UINT_RANGE /\ t.at = x.at
      /\ t.constant = x.constant /\ t.chance = x.chance
      /\ t.rate = x.rate /\ t.seed = x.seed
  <2> PICK k : k = i % UINT_RANGE
    OBVIOUS
  <2>1. x \in ProcStates /\ t = [x EXCEPT !.drawn = d, !.msgNo = k]
    BY DEF NextAt
  <2> HIDE DEF x, t
  <2> QED BY <2>1 DEF ProcStates
<1> HIDE DEF s, t
<1>3. EventsOf(s) /\ EventsOf(t)
  BY <1>1, <1>2 DEF EventsOf
<1>4. Draws(s) = Draws(t) /\ ProcessEvents(s) = ProcessEvents(t)
  BY <1>1, <1>2, <1>3, SameFate
<1> QED BY <1>4, FateNext DEF s, t

\* Senders under the environment's seed were all asked the same.
LEMMA SendersAlike ==
  ASSUME TypeOK, Roles, AskedAlike, SeedsOK, env.seed # NotSet,
         NEW p \in Procs, NEW q \in Procs, Sender(p), Sender(q)
  PROVE  /\ proc[p].chance = proc[q].chance /\ proc[p].rate = proc[q].rate
         /\ proc[p].seed = proc[q].seed
<1>1. proc[p].rate = proc[q].rate
  BY DEF AskedAlike, Sender
<1>2. proc[p].seed = proc[q].seed
  BY DEF SeedsOK, Sender, Started
<1>3. proc[p].chance = proc[q].chance
  <2>1. CASE Program = "rcopy"
    BY <2>1 DEF Roles, Sender
  <2>2. CASE Program # "rcopy"
    BY <2>2 DEF AskedAlike, Sender
  <2> QED BY <2>1, <2>2
<1> QED BY <1>1, <1>2, <1>3

\* What Replayed says of one sender, for a sequence of draws.
Along(p, drawn) ==
  /\ proc[p].drawn = After(drawn, Len(log[p]))
  /\ \A i \in 1 .. Len(log[p]) :
       /\ drawn[i] = After(drawn, i - 1) + Draws(At(p, After(drawn, i - 1), i))
       /\ log[p][i] = ProcessEvents(At(p, After(drawn, i - 1), i))
DrawSequences == [1 .. MaxMsgs -> 1 .. 3 * MaxMsgs]

LEMMA AfterType ==
  ASSUME NEW drawn \in DrawSequences, NEW i \in 0 .. MaxMsgs
  PROVE  After(drawn, i) \in Nat
<1>1. CASE i = 0
  BY <1>1 DEF After
<1>2. CASE i # 0
  <2>1. i \in 1 .. MaxMsgs
    BY <1>2, InjectorAssumption
  <2> QED BY <1>2, <2>1, InjectorAssumption DEF After, DrawSequences
<1> QED BY <1>1, <1>2

ReplayedAlong ==
  env.seed # NotSet =>
    \E drawn \in DrawSequences : \A p \in Procs : Sender(p) => Along(p, drawn)

LEMMA ReplayedDef ==
  TypeOK /\ Counted => (Replayed <=> ReplayedAlong)
<1> SUFFICES ASSUME TypeOK, Counted, NEW drawn \in DrawSequences, NEW p \in Procs, Sender(p)
             PROVE  Along(p, drawn) <=>
    /\ proc[p].drawn = After(drawn, Len(log[p]))
    /\ \A i \in 1 .. Len(log[p]) :
         LET s == At(p, After(drawn, i - 1), i) IN
         drawn[i] = s.drawn + Draws(s) /\ log[p][i] = ProcessEvents(s)
  BY DEF Replayed, ReplayedAlong, DrawSequences
<1>1. proc[p] \in ProcStates /\ Len(log[p]) \in Nat /\ Len(log[p]) <= MaxMsgs
  BY DEF TypeOK, Counted
<1>2. ASSUME NEW i \in 1 .. Len(log[p])
      PROVE  At(p, After(drawn, i - 1), i).drawn = After(drawn, i - 1)
  <2>1. i - 1 \in 0 .. MaxMsgs /\ i \in Nat
    BY <1>1, InjectorAssumption
  <2> QED BY <2>1, <1>1, AfterType, StateAtFields
<1> QED BY <1>2 DEF Along

\* A sender that a step leaves where it is along the draws.
LEMMA AlongKept ==
  ASSUME TypeOK, TypeOK', Counted, EventsOK, rand' = rand,
         NEW drawn \in DrawSequences, NEW p \in Procs, Sender(p), Along(p, drawn),
         EventsOf(proc'[p]), proc'[p].at # "NONE",
         proc'[p].chance = proc[p].chance, proc'[p].rate = proc[p].rate,
         proc'[p].seed = proc[p].seed
  PROVE  \A i \in 1 .. Len(log[p]) :
           /\ drawn[i] = After(drawn, i - 1) + Draws(At(p, After(drawn, i - 1), i))'
           /\ log[p][i] = ProcessEvents(At(p, After(drawn, i - 1), i))'
<1> SUFFICES ASSUME NEW i \in 1 .. Len(log[p])
             PROVE  /\ drawn[i] = After(drawn, i - 1) + Draws(At(p, After(drawn, i - 1), i))'
                    /\ log[p][i] = ProcessEvents(At(p, After(drawn, i - 1), i))'
  OBVIOUS
<1>1. /\ proc[p] \in ProcStates /\ Len(log[p]) \in Nat /\ Len(log[p]) <= MaxMsgs
      /\ proc'[p] \in ProcStates /\ proc[p].at # "NONE" /\ EventsOf(proc[p])
  BY DEF TypeOK, Counted, Sender, EventsOK
<1> DEFINE d == After(drawn, i - 1)
<1>2. d \in Nat /\ i \in Nat
  <2>1. i - 1 \in 0 .. MaxMsgs /\ i \in Nat
    BY <1>1, InjectorAssumption
  <2> QED BY <2>1, AfterType
<1>3. drawn[i] = d + Draws(At(p, d, i)) /\ log[p][i] = ProcessEvents(At(p, d, i))
  BY DEF Along
<1> HIDE DEF d
<1>4. /\ Draws(At(p, d, i))' = Draws(At(p, d, i))
      /\ ProcessEvents(At(p, d, i))' = ProcessEvents(At(p, d, i))
  BY <1>1, <1>2, SameFateNext
<1> QED BY <1>3, <1>4 DEF d

\* Steps that send nothing.
LEMMA ReplayedKept ==
  ASSUME TypeOK, TypeOK', Counted, Counted', EventsOK, Replayed,
         env' = env, rand' = rand, log' = log,
         \A r \in Procs : EventsOf(proc'[r]),
         \A r \in Procs : Sender(r)' =>
           \/ /\ Sender(r) /\ proc'[r].chance = proc[r].chance
              /\ proc'[r].rate = proc[r].rate /\ proc'[r].seed = proc[r].seed
              /\ proc'[r].drawn = proc[r].drawn
           \/ env.seed # NotSet => log[r] = <<>> /\ proc'[r].drawn = 0
  PROVE  Replayed'
<1> SUFFICES ASSUME env.seed # NotSet
             PROVE  \E drawn \in DrawSequences :
                      \A p \in Procs : Sender(p)' => Along(p, drawn)'
  <2>1. (TypeOK /\ Counted => (Replayed <=> ReplayedAlong))'
    BY ReplayedDef, PTL
  <2>2. DrawSequences' = DrawSequences
    BY DEF DrawSequences
  <2> QED BY <2>1, <2>2 DEF ReplayedAlong
<1>1. PICK drawn \in DrawSequences : \A p \in Procs : Sender(p) => Along(p, drawn)
  BY ReplayedDef DEF ReplayedAlong
<1>2. ASSUME NEW p \in Procs, Sender(p)' PROVE Along(p, drawn)'
  <2>1. proc'[p].at # "NONE"
    BY <1>2 DEF Sender
  <2>2. CASE /\ Sender(p) /\ proc'[p].chance = proc[p].chance
             /\ proc'[p].rate = proc[p].rate /\ proc'[p].seed = proc[p].seed
             /\ proc'[p].drawn = proc[p].drawn
    <3>1. Along(p, drawn) /\ EventsOf(proc'[p])
      BY <1>1, <2>2
    <3>2. \A i \in 1 .. Len(log[p]) :
            /\ drawn[i] = After(drawn, i - 1) + Draws(At(p, After(drawn, i - 1), i))'
            /\ log[p][i] = ProcessEvents(At(p, After(drawn, i - 1), i))'
      BY <2>1, <2>2, <3>1, AlongKept
    <3>3. proc'[p].drawn = After(drawn, Len(log[p]))
      BY <2>2, <3>1 DEF Along
    <3> QED BY <3>2, <3>3 DEF Along
  <2>3. CASE env.seed # NotSet => log[p] = <<>> /\ proc'[p].drawn = 0
    BY <2>3 DEF Along, After
  <2> QED BY <1>2, <2>2, <2>3
<1> QED BY <1>1, <1>2

\* A message: its sender is the first to get this far, or draws what another drew.
LEMMA ReplayedSend ==
  ASSUME TypeOK, TypeOK', EnvOK, Roles, Counted, Counted', EventsOK, AskedAlike,
         SeedsOK, Replayed, NEW p \in Procs, SendTo_Err(p), EventsOf(proc'[p])
  PROVE  Replayed'
<1>0. env' = env /\ rand' = rand
  BY DEF SendTo_Err
<1> SUFFICES ASSUME env.seed # NotSet
             PROVE  \E drawn \in DrawSequences :
                      \A r \in Procs : Sender(r)' => Along(r, drawn)'
  <2>1. (TypeOK /\ Counted => (Replayed <=> ReplayedAlong))'
    BY ReplayedDef, PTL
  <2>2. DrawSequences' = DrawSequences
    BY DEF DrawSequences
  <2> QED BY <1>0, <2>1, <2>2 DEF ReplayedAlong
<1>1. PICK drawn \in DrawSequences : \A r \in Procs : Sender(r) => Along(r, drawn)
  BY ReplayedDef DEF ReplayedAlong
<1> PICK n : n = Len(log[p])
  OBVIOUS
<1> DEFINE d == After(drawn, n)
           s == At(p, d, n + 1)
<1>2. /\ n \in Nat /\ n < MaxMsgs /\ Sender(p) /\ proc[p].drawn = d
      /\ EventsOf(proc[p])
      /\ proc[p].drawn <= 3 * n /\ proc[p] \in ProcStates
  BY <1>1, SendToStep DEF Counted, TypeOK, Along, EventsOK
<1>3. d \in Nat /\ Draws(s) \in 1 .. 3 /\ n + 1 \in Nat
  <2>1. d \in Nat /\ n + 1 \in Nat
    BY <1>2, AfterType, InjectorAssumption
  <2>2. EventsOf(s)
    BY <2>1, <1>2, EventsAt DEF EventsOK
  <2> QED BY <2>1, <2>2, FateTypes
<1>4. /\ Sender(p) /\ proc'[p].at = proc[p].at /\ proc'[p].at # "NONE"
      /\ proc'[p].chance = proc[p].chance /\ proc'[p].rate = proc[p].rate
      /\ proc'[p].seed = proc[p].seed /\ proc'[p].drawn = d + Draws(s)
      /\ log'[p] = Append(log[p], ProcessEvents(s))
      /\ \A r \in Procs : r # p => proc'[r] = proc[r] /\ log'[r] = log[r]
  BY <1>2, SendToStep DEF Sender
<1> PICK m : m = Draws(s)
  OBVIOUS
<1> DEFINE longer == [drawn EXCEPT ![n + 1] = d + m]
<1>5. longer \in DrawSequences
  <2> DEFINE e == d
  <2>1. e \in Nat /\ e <= 3 * n /\ m \in 1 .. 3
    BY <1>2, <1>3
  <2> HIDE DEF e
  <2>2. e + m \in 1 .. 3 * MaxMsgs /\ n + 1 \in 1 .. MaxMsgs
    BY <2>1, <1>2, InjectorAssumption
  <2> QED BY <2>2 DEF DrawSequences, e
<1>6. /\ n + 1 \in 1 .. MaxMsgs /\ longer[n + 1] = d + m
      /\ \A i \in 1 .. MaxMsgs : i # n + 1 => longer[i] = drawn[i]
  BY <1>2, InjectorAssumption DEF DrawSequences
<1>7. \A i \in 0 .. n : After(longer, i) = After(drawn, i)
  BY <1>2, <1>6, InjectorAssumption DEF After
<1>8. After(longer, n + 1) = d + m
  BY <1>2, <1>6 DEF After
<1> HIDE DEF longer, d
<1>9. Along(p, longer)'
  <2>1. \A i \in 1 .. n :
          /\ drawn[i] = After(drawn, i - 1) + Draws(At(p, After(drawn, i - 1), i))'
          /\ log[p][i] = ProcessEvents(At(p, After(drawn, i - 1), i))'
    BY <1>0, <1>1, <1>4, AlongKept
  <2>2. /\ Draws(At(p, d, n + 1))' = m
        /\ ProcessEvents(At(p, d, n + 1))' = ProcessEvents(At(p, d, n + 1))
    <3>1. EventsOf(proc[p]) /\ proc'[p] \in ProcStates /\ proc[p].at # "NONE"
      BY <1>4 DEF EventsOK, TypeOK
    <3> QED BY <3>1, <1>0, <1>2, <1>3, <1>4, SameFateNext
  <2>3. Len(log'[p]) = n + 1 /\ \A i \in 1 .. n : log'[p][i] = log[p][i]
    BY <1>4, <1>2 DEF TypeOK
  <2>4. log'[p][n + 1] = ProcessEvents(At(p, d, n + 1))
    BY <1>4, <1>2 DEF TypeOK
  <2>5. ASSUME NEW i \in 1 .. n + 1
        PROVE  /\ longer[i] = After(longer, i - 1) + Draws(At(p, After(longer, i - 1), i))'
               /\ log'[p][i] = ProcessEvents(At(p, After(longer, i - 1), i))'
    <3>1. CASE i = n + 1
      <4>1. After(longer, i - 1) = d
        BY <3>1, <1>2, <1>7 DEF d
      <4>2. /\ longer[n + 1] = d + Draws(At(p, d, n + 1))'
            /\ log'[p][n + 1] = ProcessEvents(At(p, d, n + 1))'
        BY <2>2, <2>4, <1>6
      <4> QED BY <3>1, <4>1, <4>2
    <3>2. CASE i # n + 1
      <4>0. n \in Nat /\ n < MaxMsgs
        BY <1>2
      <4>1. i \in 1 .. n /\ i \in 1 .. MaxMsgs /\ After(longer, i - 1) = After(drawn, i - 1)
        BY <4>0, <3>2, <1>7, InjectorAssumption
      <4> QED BY <4>1, <3>2, <2>1, <2>3, <1>6
    <3> QED BY <3>1, <3>2
  <2>6. proc'[p].drawn = After(longer, Len(log'[p]))
    BY <2>3, <1>4, <1>8
  <2> QED BY <2>3, <2>5, <2>6 DEF Along
<1>10. ASSUME NEW r \in Procs, r # p, Sender(r)' PROVE Along(r, longer)'
  <2>1. /\ Sender(r) /\ proc'[r] = proc[r] /\ log'[r] = log[r]
        /\ proc'[r].at # "NONE" /\ EventsOf(proc[r]) /\ EventsOf(proc'[r])
    BY <1>4, <1>10 DEF Sender, EventsOK
  <2>2. \A i \in 1 .. Len(log[r]) :
          /\ drawn[i] = After(drawn, i - 1) + Draws(At(r, After(drawn, i - 1), i))'
          /\ log[r][i] = ProcessEvents(At(r, After(drawn, i - 1), i))'
    BY <1>0, <1>1, <2>1, AlongKept
  <2>3. proc[r].drawn = After(drawn, Len(log[r])) /\ Len(log[r]) \in 0 .. MaxMsgs
    <3>1. proc[r].drawn = After(drawn, Len(log[r]))
      BY <1>1, <2>1 DEF Along
    <3>2. log[r] \in Seq(Outcomes) /\ Len(log[r]) <= MaxMsgs
      BY DEF Counted, TypeOK
    <3> QED BY <3>1, <3>2, InjectorAssumption
  <2>4. CASE n < Len(log[r])
    <3>1. longer = drawn
      <4>1. n + 1 \in 1 .. Len(log[r]) /\ (n + 1) - 1 = n
        BY <2>3, <2>4, <1>2
      <4>2. drawn[n + 1] = d + Draws(At(r, d, n + 1))
        BY <4>1, <1>1, <2>1 DEF Along, d
      <4>3. proc[r] \in ProcStates /\ EventsOf(proc[p]) /\ proc[p].at # "NONE"
            /\ proc[r].at # "NONE"
        BY <1>4, <2>1 DEF EventsOK, TypeOK
      <4>4. /\ proc[p].chance = proc[r].chance /\ proc[p].rate = proc[r].rate
            /\ proc[p].seed = proc[r].seed
        BY <1>2, <2>1, SendersAlike
      <4>5. Draws(At(r, d, n + 1)) = m
        BY <4>3, <4>4, <2>1, <1>2, <1>3, SameFateAt
      <4> QED BY <4>2, <4>5 DEF longer, DrawSequences
    <3> QED BY <3>1, <2>1, <2>2, <2>3 DEF Along
  <2>5. CASE ~(n < Len(log[r]))
    <3>1. \A i \in 1 .. Len(log[r]) :
            longer[i] = drawn[i] /\ After(longer, i - 1) = After(drawn, i - 1)
      BY <2>3, <2>5, <1>2, <1>6, <1>7, InjectorAssumption
    <3>2. After(longer, Len(log[r])) = After(drawn, Len(log[r]))
      BY <2>3, <2>5, <1>2, <1>7
    <3>3. \A i \in 1 .. Len(log[r]) :
            /\ longer[i] = After(longer, i - 1) + Draws(At(r, After(longer, i - 1), i))'
            /\ log[r][i] = ProcessEvents(At(r, After(longer, i - 1), i))'
      BY <3>1, <2>2
    <3> QED BY <3>2, <3>3, <2>1, <2>3 DEF Along
  <2> QED BY <2>4, <2>5
<1> QED BY <1>4, <1>5, <1>9, <1>10

-----------------------------------------------------------------------------
(* The invariant is inductive: a lemma for each action.                    *)

Everything == TypeOK /\ LibraryInv /\ ScriptedDrops /\ OneFlipAtMost

\* What the library knows of the environment and of a process's log stays.
LEMMA LogsKept ==
  ASSUME ScriptedDrops, OneFlipAtMost, env' = env, log' = log
  PROVE  ScriptedDrops' /\ OneFlipAtMost'
  BY DEF ScriptedDrops, OneFlipAtMost

LEMMA TickKeeps ==
  ASSUME Everything, Tick
  PROVE  Everything'
<1>1. /\ TypeOK /\ EnvOK /\ Roles /\ Counted /\ EventsOK /\ AskedAlike /\ SeedsOK
      /\ Replayed /\ ScriptedDrops /\ OneFlipAtMost
  BY DEF Everything, LibraryInv
<1>2. /\ UNCHANGED <<randomFlag, env, rand, proc, log>>
      /\ now \in Nat /\ now < MaxTime /\ now' = now + 1
  BY <1>1 DEF Tick, TypeOK
<1>3. TypeOK' /\ EnvOK'
  BY <1>1, <1>2, InjectorAssumption DEF TypeOK, EnvOK
<1>4. Roles' /\ Counted' /\ AskedAlike'
  BY <1>1, <1>2 DEF Roles, Counted, AskedAlike, Sender, Asked
<1>5. /\ \A r \in Procs : EventsOf(proc'[r])
      /\ EventsOK'
  BY <1>1, <1>2, EventsNext DEF EventsOK
<1>6. SeedsOK'
  <2>1. \A r \in Procs :
          /\ proc'[r].at = "NONE" <=> proc[r].at = "NONE"
          /\ proc'[r].at = "STARTED" <=> proc[r].at = "STARTED"
          /\ proc'[r].at \in {"READY", "DONE"} <=> proc[r].at \in {"READY", "DONE"}
          /\ proc'[r].seed = proc[r].seed /\ proc'[r].nextSeed = proc[r].nextSeed
    BY <1>2
  <2>2. env' = env /\ randomFlag' = randomFlag
    BY <1>2
  <2> QED BY <2>1, <2>2, <1>1, SeedsKept
<1>7. Replayed'
  BY <1>1, <1>2, <1>3, <1>4, <1>5, ReplayedKept DEF Sender
<1> QED BY <1>1, <1>2, <1>3, <1>4, <1>5, <1>6, <1>7, LogsKept DEF Everything, LibraryInv

LEMMA SendErrInitKeeps ==
  ASSUME Everything, NEW p \in Procs, SendErr_init(p)
  PROVE  Everything'
<1>1. /\ TypeOK /\ EnvOK /\ Roles /\ Counted /\ EventsOK /\ AskedAlike /\ SeedsOK
      /\ Replayed /\ ScriptedDrops /\ OneFlipAtMost
  BY DEF Everything, LibraryInv
<1>2. UNCHANGED <<randomFlag, env, rand, now, log>>
  BY DEF SendErr_init
<1>3. /\ proc[p] \in ProcStates /\ proc[p].at = "STARTED"
      /\ proc'[p] \in ProcStates /\ proc'[p].at = "READY"
      /\ proc'[p].constant = Append(proc[p].constant, InfoSeqNo)
      /\ proc'[p].chance = Asked(proc[p].chance)
      /\ proc'[p].rate = IF env.rate # NotSet THEN proc[p].rate ELSE ErrorRate
      /\ proc'[p].msgNo = proc[p].msgNo
      /\ proc'[p].drawn = IF env.seed # NotSet THEN proc[p].drawn ELSE 0
      /\ proc' \in [Procs -> ProcStates]
      /\ \A r \in Procs : r # p => proc'[r] = proc[r]
  BY <1>1, SendErrInitStep
<1>4. TypeOK' /\ EnvOK'
  BY <1>1, <1>2, <1>3 DEF TypeOK, EnvOK
<1>5. Roles'
  <2>1. proc'[Main].at # "NONE" /\ (Program = "server" => proc'[Main].at # "DONE")
    BY <1>1, <1>3, InjectorAssumption DEF Roles
  <2>2. ASSUME NEW r \in Procs \ {Main}, proc'[r].at # "NONE"
        PROVE  Program = "server" /\ proc'[Main].at = "READY"
    <3>1. proc[r].at # "NONE"
      BY <2>2, <1>3
    <3>2. Program = "server" /\ proc[Main].at = "READY"
      BY <3>1, <1>1 DEF Roles
    <3> QED BY <3>2, <1>3, InjectorAssumption
  <2> QED BY <2>1, <2>2 DEF Roles
<1>6. log[p] = <<>> /\ proc[p].drawn = 0 /\ proc[p].msgNo = 0
  <2>1. /\ log[p] = <<>> /\ proc[p].msgNo = Len(log[p]) % UINT_RANGE
        /\ proc[p].drawn <= 3 * Len(log[p])
    BY <1>1, <1>3 DEF Counted, Sender
  <2>2. proc[p].drawn \in Nat
    BY <1>3 DEF ProcStates
  <2>3. Len(log[p]) = 0 /\ Len(log[p]) % UINT_RANGE = 0
    BY <2>1, NoneSent
  <2> QED BY <2>1, <2>2, <2>3
<1>7. Counted'
  BY <1>1, <1>2, <1>3, <1>6 DEF Counted, Sender
<1>8. EventsOK' /\ \A r \in Procs : EventsOf(proc'[r])
  <2>1. EventsOf(proc'[p])
    BY <1>1, <1>3, EventsAsked DEF EventsOK
  <2>2. \A r \in Procs : EventsOf(proc'[r])
    BY <1>1, <1>3, <2>1 DEF EventsOK
  <2> QED BY <2>2, <1>2, EventsNext
<1>9. AskedAlike'
  <2>1. p = Main => \A r \in Procs \ {Main} : proc[r].at = "NONE"
    BY <1>1, <1>3 DEF Roles
  <2>2. p # Main => proc'[p].chance = Asked(proc[Main].chance)
    BY <1>1, <1>3 DEF AskedAlike
  <2>3. \A q : Asked(q)' = Asked(q)
    BY <1>2 DEF Asked
  <2>4. \A r \in Procs :
          /\ env.rate # NotSet /\ proc'[r].at # "NONE" => proc'[r].rate = env.rate
          /\ env.rate = NotSet /\ proc'[r].at \in {"READY", "DONE"} =>
               proc'[r].rate = ErrorRate
    BY <1>1, <1>3 DEF AskedAlike
  <2>5. \A r \in Procs \ {Main} :
          /\ proc'[r].at = "STARTED" => proc'[r].chance = proc'[Main].chance
          /\ proc'[r].at \in {"READY", "DONE"} =>
               proc'[r].chance = Asked(proc'[Main].chance)
    BY <1>1, <1>3, <2>1, <2>2, InjectorAssumption DEF AskedAlike
  <2>6. \A r \in Procs \ {Main} : proc'[r].at \in {"READY", "DONE"} =>
          proc'[r].chance = Asked(proc[Main].chance)'
    BY <2>5, <1>2 DEF Asked
  <2> QED BY <1>2, <2>4, <2>5, <2>6 DEF AskedAlike
<1>10. SeedsOK'
  BY <1>1, SendErrInitSeeds
<1>11. Replayed'
  <2>1. \A r \in Procs : Sender(r)' =>
          \/ /\ Sender(r) /\ proc'[r].chance = proc[r].chance
             /\ proc'[r].rate = proc[r].rate /\ proc'[r].seed = proc[r].seed
             /\ proc'[r].drawn = proc[r].drawn
          \/ env.seed # NotSet => log[r] = <<>> /\ proc'[r].drawn = 0
    BY <1>3, <1>6 DEF Sender
  <2> QED BY <2>1, <1>1, <1>2, <1>4, <1>7, <1>8, ReplayedKept
<1>12. ScriptedDrops' /\ OneFlipAtMost'
  BY <1>1, <1>2, LogsKept
<1> QED BY <1>4, <1>5, <1>7, <1>8, <1>9, <1>10, <1>11, <1>12 DEF Everything, LibraryInv

LEMMA ForkModKeeps ==
  ASSUME Everything, NEW c \in Procs, ForkMod(c)
  PROVE  Everything'
<1>1. /\ TypeOK /\ EnvOK /\ Roles /\ Counted /\ EventsOK /\ AskedAlike /\ SeedsOK
      /\ Replayed /\ ScriptedDrops /\ OneFlipAtMost
  BY DEF Everything, LibraryInv
<1>2. UNCHANGED <<randomFlag, env, rand, now, log>> /\ Main \in Procs
  BY InjectorAssumption DEF ForkMod
<1>3. /\ Program = "server" /\ c # Main
      /\ proc[Main] \in ProcStates /\ proc[Main].at = "READY" /\ proc[c].at = "NONE"
      /\ proc'[Main] \in ProcStates /\ proc'[Main].at = "READY"
      /\ proc'[Main].constant = proc[Main].constant
      /\ proc'[Main].chance = proc[Main].chance /\ proc'[Main].rate = proc[Main].rate
      /\ proc'[Main].drawn = proc[Main].drawn /\ proc'[Main].msgNo = proc[Main].msgNo
      /\ proc'[c] \in ProcStates /\ proc'[c].at = "STARTED"
      /\ proc'[c].constant = proc[Main].constant
      /\ proc'[c].chance = proc[Main].chance /\ proc'[c].rate = proc[Main].rate
      /\ proc'[c].msgNo = proc[Main].msgNo
      /\ proc'[c].drawn = IF env.seed # NotSet THEN proc[Main].drawn ELSE 0
      /\ proc' \in [Procs -> ProcStates]
      /\ \A r \in Procs : r # Main /\ r # c => proc'[r] = proc[r]
  BY <1>1, ForkModStep
<1>4. TypeOK' /\ EnvOK'
  BY <1>1, <1>2, <1>3 DEF TypeOK, EnvOK
<1>5. Roles'
  BY <1>1, <1>3 DEF Roles
<1>6. log[Main] = <<>> /\ proc[Main].drawn = 0 /\ proc[Main].msgNo = 0 /\ log[c] = <<>>
  <2>1. /\ log[Main] = <<>> /\ proc[Main].msgNo = Len(log[Main]) % UINT_RANGE
        /\ proc[Main].drawn <= 3 * Len(log[Main])
        /\ log[c] = <<>>
    BY <1>1, <1>2, <1>3 DEF Counted, Sender
  <2>2. proc[Main].drawn \in Nat
    BY <1>3 DEF ProcStates
  <2>3. Len(log[Main]) = 0 /\ Len(log[Main]) % UINT_RANGE = 0
    BY <2>1, NoneSent
  <2> QED BY <2>1, <2>2, <2>3
<1>7. Counted'
  <2>1. ~Sender(Main)' /\ ~Sender(c)'
    BY <1>3 DEF Sender
  <2>2. \A r \in Procs : r # Main /\ r # c => (Sender(r)' <=> Sender(r))
    BY <1>3 DEF Sender
  <2>3. /\ Len(log[Main]) = 0 /\ Len(log[c]) = 0 /\ 0 <= MaxMsgs
        /\ Len(log[Main]) % UINT_RANGE = 0 /\ Len(log[c]) % UINT_RANGE = 0
    BY <1>6, NoneSent, InjectorAssumption
  <2> QED BY <1>1, <1>2, <1>3, <1>6, <2>1, <2>2, <2>3 DEF Counted
<1>8. EventsOK' /\ \A r \in Procs : EventsOf(proc'[r])
  <2>1. EventsOf(proc'[c]) /\ EventsOf(proc'[Main])
    BY <1>1, <1>2, <1>3, EventsKept DEF EventsOK
  <2>2. \A r \in Procs : EventsOf(proc'[r])
    BY <1>1, <1>3, <2>1 DEF EventsOK
  <2> QED BY <2>2, <1>2, EventsNext
<1>9. AskedAlike'
  <2>1. \A r \in Procs :
          /\ env.rate # NotSet /\ proc'[r].at # "NONE" => proc'[r].rate = env.rate
          /\ env.rate = NotSet /\ proc'[r].at \in {"READY", "DONE"} =>
               proc'[r].rate = ErrorRate
    BY <1>1, <1>2, <1>3 DEF AskedAlike
  <2>2. \A r \in Procs \ {Main} :
          /\ proc'[r].at = "STARTED" => proc'[r].chance = proc'[Main].chance
          /\ proc'[r].at \in {"READY", "DONE"} =>
               proc'[r].chance = Asked(proc'[Main].chance)
    BY <1>1, <1>3 DEF AskedAlike
  <2>3. \A r \in Procs \ {Main} : proc'[r].at \in {"READY", "DONE"} =>
          proc'[r].chance = Asked(proc[Main].chance)'
    BY <2>2, <1>2 DEF Asked
  <2> QED BY <1>2, <2>1, <2>2, <2>3 DEF AskedAlike
<1>10. SeedsOK'
  BY <1>1, ForkModSeeds
<1>11. Replayed'
  <2>1. \A r \in Procs : Sender(r)' => r # Main /\ r # c /\ Sender(r) /\ proc'[r] = proc[r]
    BY <1>3 DEF Sender
  <2> QED BY <2>1, <1>1, <1>2, <1>4, <1>7, <1>8, ReplayedKept
<1>12. ScriptedDrops' /\ OneFlipAtMost'
  BY <1>1, <1>2, LogsKept
<1> QED BY <1>4, <1>5, <1>7, <1>8, <1>9, <1>10, <1>11, <1>12 DEF Everything, LibraryInv

LEMMA ExitKeeps ==
  ASSUME Everything, NEW p \in Procs, Exit(p)
  PROVE  Everything'
<1>1. /\ TypeOK /\ EnvOK /\ Roles /\ Counted /\ EventsOK /\ AskedAlike /\ SeedsOK
      /\ Replayed /\ ScriptedDrops /\ OneFlipAtMost
  BY DEF Everything, LibraryInv
<1>2. UNCHANGED <<randomFlag, env, rand, now, log>> /\ Main \in Procs
  BY InjectorAssumption DEF Exit
<1>3. /\ Sender(p) /\ proc[p].at = "READY" /\ proc'[p].at = "DONE"
      /\ proc'[p].constant = proc[p].constant /\ proc'[p].chance = proc[p].chance
      /\ proc'[p].rate = proc[p].rate /\ proc'[p].seed = proc[p].seed
      /\ proc'[p].drawn = proc[p].drawn /\ proc'[p].msgNo = proc[p].msgNo
      /\ proc'[p].nextSeed = proc[p].nextSeed
      /\ proc' \in [Procs -> ProcStates]
      /\ \A r \in Procs : r # p => proc'[r] = proc[r]
  BY <1>1, ExitStep
<1>4. TypeOK' /\ EnvOK'
  BY <1>1, <1>2, <1>3 DEF TypeOK, EnvOK
<1>5. Roles'
  <2>1. p = Main => Program = "rcopy"
    BY <1>3 DEF Sender
  <2>2. /\ proc'[Main].at # "NONE" /\ (Program = "server" => proc'[Main].at # "DONE")
        /\ p = Main => \A r \in Procs \ {Main} : proc[r].at = "NONE"
    BY <1>1, <1>2, <1>3, <2>1 DEF Roles
  <2>3. ASSUME NEW r \in Procs \ {Main}, proc'[r].at # "NONE"
        PROVE  Program = "server" /\ proc'[Main].at = "READY"
    <3>1. proc[r].at # "NONE"
      BY <2>3, <1>3
    <3>2. Program = "server" /\ proc[Main].at = "READY"
      BY <3>1, <1>1 DEF Roles
    <3> QED BY <3>1, <3>2, <2>2, <1>2, <1>3
  <2> QED BY <2>2, <2>3 DEF Roles
<1>6. \A r \in Procs : Sender(r)' <=> Sender(r)
  BY <1>3 DEF Sender
<1>7. Counted'
  BY <1>1, <1>2, <1>3, <1>6 DEF Counted
<1>8. EventsOK' /\ \A r \in Procs : EventsOf(proc'[r])
  <2>1. EventsOf(proc'[p])
    BY <1>1, <1>3, EventsKept DEF EventsOK
  <2>2. \A r \in Procs : EventsOf(proc'[r])
    BY <1>1, <1>3, <2>1 DEF EventsOK
  <2> QED BY <2>2, <1>2, EventsNext
<1>9. AskedAlike'
  <2>1. \A q : Asked(q)' = Asked(q)
    BY <1>2 DEF Asked
  <2>2. proc'[Main].chance = proc[Main].chance
    BY <1>2, <1>3
  <2>3. \A r \in Procs :
          /\ env.rate # NotSet /\ proc'[r].at # "NONE" => proc'[r].rate = env.rate
          /\ env.rate = NotSet /\ proc'[r].at \in {"READY", "DONE"} =>
               proc'[r].rate = ErrorRate
    BY <1>1, <1>3 DEF AskedAlike
  <2>4. \A r \in Procs \ {Main} :
          /\ proc'[r].at = "STARTED" => proc'[r].chance = proc'[Main].chance
          /\ proc'[r].at \in {"READY", "DONE"} =>
               proc'[r].chance = Asked(proc'[Main].chance)
    BY <1>1, <1>3, <2>2 DEF AskedAlike
  <2>5. \A r \in Procs \ {Main} : proc'[r].at \in {"READY", "DONE"} =>
          proc'[r].chance = Asked(proc[Main].chance)'
    BY <2>4, <1>2 DEF Asked
  <2> QED BY <1>2, <2>3, <2>4, <2>5 DEF AskedAlike
<1>10. SeedsOK'
  <2>1. \A r \in Procs :
          /\ proc'[r].at = "NONE" <=> proc[r].at = "NONE"
          /\ proc'[r].at = "STARTED" <=> proc[r].at = "STARTED"
          /\ proc'[r].at \in {"READY", "DONE"} <=> proc[r].at \in {"READY", "DONE"}
          /\ proc'[r].seed = proc[r].seed /\ proc'[r].nextSeed = proc[r].nextSeed
    <3>1. ASSUME NEW r \in Procs, r # p PROVE proc'[r] = proc[r]
      BY <3>1, <1>3
    <3> QED BY <3>1, <1>3
  <2>2. env' = env /\ randomFlag' = randomFlag
    BY <1>2
  <2> QED BY <2>1, <2>2, <1>1, SeedsKept
<1>11. Replayed'
  <2>1. \A r \in Procs : Sender(r)' =>
          /\ Sender(r) /\ proc'[r].chance = proc[r].chance
          /\ proc'[r].rate = proc[r].rate /\ proc'[r].seed = proc[r].seed
          /\ proc'[r].drawn = proc[r].drawn
    BY <1>3, <1>6
  <2> QED BY <2>1, <1>1, <1>2, <1>4, <1>7, <1>8, ReplayedKept
<1>12. ScriptedDrops' /\ OneFlipAtMost'
  BY <1>1, <1>2, LogsKept
<1> QED BY <1>4, <1>5, <1>7, <1>8, <1>9, <1>10, <1>11, <1>12 DEF Everything, LibraryInv

\* A script decides alone: no random event drops beside it.
LEMMA ScriptedFate ==
  ASSUME EnvOK, NEW s \in ProcStates, EventsOf(s), s.at # "NONE", s.seed \in Seeds,
         s.drawn + 2 <= 3 * MaxMsgs, Scripted
  PROVE  ProcessEvents(s).dropped <=> s.msgNo \in Numbers
<1>1. Droppers(s) # {} <=> s.msgNo \in Numbers
  BY DroppersIff
<1>2. Chance(s) => ~Drops(RandCase(s), s.msgNo)
  <2>1. Chance(s) => RandCase(s) \in RandomEvents
    BY RandCaseIsRandom DEF Chance
  <2> QED BY <2>1 DEF RandomEvents, ErrorFlipBits, Drops
<1> QED BY <1>1, <1>2 DEF ProcessEvents

\* What ScriptedDrops says in terms of the numbers that the library keeps.
Obeyed ==
  Scripted => \A p \in Procs : \A i \in DOMAIN log[p] :
                log[p][i].dropped <=> i % UINT_RANGE \in Numbers

LEMMA ScriptedDropsDef ==
  ASSUME EnvOK
  PROVE  ScriptedDrops <=> Obeyed
<1>1. CASE env.drop = NotSet
  BY <1>1 DEF ScriptedDrops, Obeyed, Scripted
<1>2. CASE env.drop # NotSet
  <2>1. env.drop \in Seq(Int)
    BY <1>2 DEF EnvOK
  <2>2. Scripted <=> \E n \in Range(env.drop) : n >= 0
    BY <2>1, <1>2, NumbersOf DEF Scripted, Numbers
  <2>3. \A k : k \in Numbers <=>
                \E n \in Range(env.drop) : n >= 0 /\ n % UINT_RANGE = k
    BY <2>1, NumbersOf DEF Numbers
  <2> QED BY <2>2, <2>3, <1>2 DEF ScriptedDrops, Obeyed
<1> QED BY <1>1, <1>2

LEMMA SendToKeeps ==
  ASSUME Everything, NEW p \in Procs, SendTo_Err(p)
  PROVE  Everything'
<1>1. /\ TypeOK /\ EnvOK /\ Roles /\ Counted /\ EventsOK /\ AskedAlike /\ SeedsOK
      /\ Replayed /\ ScriptedDrops /\ OneFlipAtMost
  BY DEF Everything, LibraryInv
<1>2. UNCHANGED <<randomFlag, env, rand, now>> /\ Main \in Procs
  BY InjectorAssumption DEF SendTo_Err
<1> PICK n : n = Len(log[p])
  OBVIOUS
<1> DEFINE s == At(p, proc[p].drawn, n + 1)
<1>3. /\ n \in Nat /\ n < MaxMsgs /\ proc[p].drawn <= 3 * n
      /\ proc[p].drawn \in Nat /\ proc[p] \in ProcStates /\ log[p] \in Seq(Outcomes)
      /\ proc[p].at = "READY"
  BY <1>1, SendToStep DEF Counted, TypeOK, ProcStates
<1>4. /\ Sender(p) /\ proc'[p].at = "READY"
      /\ DOMAIN proc'[p].constant = DOMAIN proc[p].constant
      /\ \A i \in DOMAIN proc'[p].constant :
              /\ proc'[p].constant[i].kind = proc[p].constant[i].kind
              /\ proc[p].constant[i].kind = "drop" =>
                   proc'[p].constant[i] = proc[p].constant[i]
      /\ proc'[p].chance = proc[p].chance /\ proc'[p].rate = proc[p].rate
      /\ proc'[p].seed = proc[p].seed /\ proc'[p].nextSeed = proc[p].nextSeed
      /\ proc'[p].drawn = proc[p].drawn + Draws(s) 
      /\ proc'[p].msgNo = (n + 1) % UINT_RANGE
      /\ proc' \in [Procs -> ProcStates] /\ log' \in [Procs -> Seq(Outcomes)]
      /\ log'[p] = Append(log[p], ProcessEvents(s))
      /\ \A r \in Procs : r # p => proc'[r] = proc[r] /\ log'[r] = log[r]
  BY <1>1, <1>3, SendToStep
<1>5. TypeOK' /\ EnvOK'
  BY <1>1, <1>2, <1>4 DEF TypeOK, EnvOK
<1>6. /\ \A r \in Procs : Sender(r)' <=> Sender(r)
      /\ \A r \in Procs : proc'[r].at = proc[r].at /\ proc'[r].chance = proc[r].chance
      /\ \A r \in Procs : proc'[r].rate = proc[r].rate /\ proc'[r].seed = proc[r].seed
      /\ \A r \in Procs : proc'[r].nextSeed = proc[r].nextSeed
  BY <1>3, <1>4 DEF Sender
<1>7. Roles'
  BY <1>1, <1>2, <1>6 DEF Roles
<1>8. Draws(s) \in 1 .. 3 /\ ProcessEvents(s) \in Outcomes /\ ProcessEvents(s).flips <= 1
  <2>1. n + 1 \in Nat
    BY <1>3
  <2>2. EventsOf(s)
    BY <2>1, <1>1, <1>3, EventsAt DEF EventsOK
  <2> QED BY <2>2, FateTypes
<1>9. /\ Len(log'[p]) = n + 1 /\ log'[p][n + 1] = ProcessEvents(s)
      /\ DOMAIN log'[p] = 1 .. n + 1 /\ DOMAIN log[p] = 1 .. n
      /\ \A i \in 1 .. n : log'[p][i] = log[p][i]
  BY <1>3, <1>4, <1>8, Appended
<1>10. Counted'
  <2>1. /\ proc'[p].msgNo = Len(log'[p]) % UINT_RANGE /\ Len(log'[p]) <= MaxMsgs
        /\ proc'[p].drawn <= 3 * Len(log'[p])
    BY <1>3, <1>4, <1>8, <1>9, InjectorAssumption
  <2> QED BY <2>1, <1>1, <1>4, <1>6 DEF Counted
<1>11. EventsOK' /\ \A r \in Procs : EventsOf(proc'[r])
  <2>1. EventsOf(proc'[p])
    BY <1>1, <1>3, <1>4, EventsKept DEF EventsOK
  <2>2. \A r \in Procs : EventsOf(proc'[r])
    BY <1>1, <1>4, <2>1 DEF EventsOK
  <2> QED BY <2>2, <1>2, EventsNext
<1>12. AskedAlike'
  <2>1. \A r \in Procs :
          /\ env.rate # NotSet /\ proc'[r].at # "NONE" => proc'[r].rate = env.rate
          /\ env.rate = NotSet /\ proc'[r].at \in {"READY", "DONE"} =>
               proc'[r].rate = ErrorRate
    BY <1>1, <1>6 DEF AskedAlike
  <2>2. \A r \in Procs \ {Main} :
          /\ proc'[r].at = "STARTED" => proc'[r].chance = proc'[Main].chance
          /\ proc'[r].at \in {"READY", "DONE"} =>
               proc'[r].chance = Asked(proc'[Main].chance)
    BY <1>1, <1>2, <1>6 DEF AskedAlike
  <2>3. \A r \in Procs \ {Main} : proc'[r].at \in {"READY", "DONE"} =>
          proc'[r].chance = Asked(proc[Main].chance)'
    BY <2>2, <1>2 DEF Asked
  <2> QED BY <1>2, <2>1, <2>2, <2>3 DEF AskedAlike
<1>13. SeedsOK'
  <2>1. \A r \in Procs :
          /\ proc'[r].at = "NONE" <=> proc[r].at = "NONE"
          /\ proc'[r].at = "STARTED" <=> proc[r].at = "STARTED"
          /\ proc'[r].at \in {"READY", "DONE"} <=> proc[r].at \in {"READY", "DONE"}
          /\ proc'[r].seed = proc[r].seed /\ proc'[r].nextSeed = proc[r].nextSeed
    BY <1>6
  <2>2. env' = env /\ randomFlag' = randomFlag
    BY <1>2
  <2> QED BY <2>1, <2>2, <1>1, SeedsKept
<1>14. Replayed'
  BY <1>1, <1>5, <1>10, <1>11, ReplayedSend
<1>15. OneFlipAtMost'
  <2>1. \A i \in 1 .. n + 1 : i = n + 1 \/ i \in 1 .. n
    BY <1>3
  <2>2. \A i \in DOMAIN log'[p] : log'[p][i].flips <= 1
    BY <2>1, <1>1, <1>8, <1>9 DEF OneFlipAtMost
  <2> QED BY <2>2, <1>1, <1>4 DEF OneFlipAtMost
<1>16. ScriptedDrops'
  <2>0. (EnvOK => (ScriptedDrops <=> Obeyed))'
    BY ScriptedDropsDef, PTL
  <2> SUFFICES ASSUME Scripted
               PROVE  \A r \in Procs : \A i \in DOMAIN log'[r] :
                        log'[r][i].dropped <=> i % UINT_RANGE \in Numbers
    BY <2>0, <1>2, <1>5 DEF Obeyed, Scripted, Numbers
  <2>1. \A r \in Procs : \A i \in DOMAIN log[r] : log[r][i].dropped <=> i % UINT_RANGE \in Numbers
    BY <1>1, ScriptedDropsDef DEF Obeyed
  <2>2. ProcessEvents(s).dropped <=> (n + 1) % UINT_RANGE \in Numbers
    <3>1. n + 1 \in Nat
      BY <1>3
    <3>2. /\ s \in ProcStates /\ s.drawn = proc[p].drawn /\ s.msgNo = (n + 1) % UINT_RANGE
          /\ s.at = "READY" /\ s.constant = proc[p].constant
          /\ s.chance = proc[p].chance /\ s.seed = proc[p].seed
      BY <3>1, <1>3, StateAtFields
    <3>3. EventsOf(s)
      BY <3>2, <1>1, <1>3 DEF EventsOK, EventsOf
    <3>4. s.seed \in Seeds /\ s.drawn + 2 <= 3 * MaxMsgs
      BY <3>2, <1>1, <1>3, InjectorAssumption DEF SeedsOK
    <3> HIDE DEF s
    <3> QED BY <3>2, <3>3, <3>4, <1>1, ScriptedFate
  <2>3. \A i \in 1 .. n + 1 : i = n + 1 \/ i \in 1 .. n
    BY <1>3
  <2>4. \A i \in DOMAIN log'[p] : log'[p][i].dropped <=> i % UINT_RANGE \in Numbers
    BY <2>1, <2>2, <2>3, <1>9
  <2> QED BY <2>1, <2>4, <1>4
<1> QED
  BY <1>5, <1>7, <1>10, <1>11, <1>12, <1>13, <1>14, <1>15, <1>16 DEF Everything, LibraryInv

-----------------------------------------------------------------------------
(* The theorems.                                                           *)

LEMMA EverythingIsInvariant == Spec => []Everything
<1>1. Init => Everything
  BY InitAll DEF Everything
<1>2. Everything /\ [Next]_vars => Everything'
  <2> SUFFICES ASSUME Everything, [Next]_vars PROVE Everything'
    OBVIOUS
  <2>1. CASE Tick
    BY <2>1, TickKeeps
  <2>2. ASSUME NEW p \in Procs, SendErr_init(p) PROVE Everything'
    BY <2>2, SendErrInitKeeps
  <2>3. ASSUME NEW p \in Procs, SendTo_Err(p) PROVE Everything'
    BY <2>3, SendToKeeps
  <2>4. ASSUME NEW p \in Procs, Exit(p) PROVE Everything'
    BY <2>4, ExitKeeps
  <2>5. ASSUME NEW p \in Procs, ForkMod(p) PROVE Everything'
    BY <2>5, ForkModKeeps
  <2>6. CASE UNCHANGED vars
    <3>1. /\ UNCHANGED <<randomFlag, env, rand, now, proc, log>>
      BY <2>6 DEF vars
    <3>2. /\ TypeOK /\ EnvOK /\ Roles /\ Counted /\ EventsOK /\ AskedAlike /\ SeedsOK
          /\ Replayed /\ ScriptedDrops /\ OneFlipAtMost
      BY DEF Everything, LibraryInv
    <3>3. TypeOK' /\ EnvOK' /\ Roles' /\ Counted' /\ AskedAlike'
      BY <3>1, <3>2 DEF TypeOK, EnvOK, Roles, Counted, AskedAlike, Sender, Asked
    <3>4. (\A r \in Procs : EventsOf(proc'[r])) /\ EventsOK'
      BY <3>1, <3>2, EventsNext DEF EventsOK
    <3>5. SeedsOK'
      <4>1. \A r \in Procs :
              /\ proc'[r].at = "NONE" <=> proc[r].at = "NONE"
              /\ proc'[r].at = "STARTED" <=> proc[r].at = "STARTED"
              /\ proc'[r].at \in {"READY", "DONE"} <=> proc[r].at \in {"READY", "DONE"}
              /\ proc'[r].seed = proc[r].seed /\ proc'[r].nextSeed = proc[r].nextSeed
        BY <3>1
      <4>2. env' = env /\ randomFlag' = randomFlag
        BY <3>1
      <4> QED BY <4>1, <4>2, <3>2, SeedsKept
    <3>6. Replayed'
      BY <3>1, <3>2, <3>3, <3>4, ReplayedKept DEF Sender
    <3> QED BY <3>1, <3>2, <3>3, <3>4, <3>5, <3>6, LogsKept DEF Everything, LibraryInv
  <2> QED BY <2>1, <2>2, <2>3, <2>4, <2>5, <2>6 DEF Next
<1> QED BY <1>1, <1>2, PTL DEF Spec

\* The library's state has its type in every process, whatever the environment
\* holds, the program asks for and the generator yields.
THEOREM LibraryTypes == Spec => []TypeOK
<1>1. Everything => TypeOK
  BY DEF Everything
<1> QED BY <1>1, EverythingIsInvariant, PTL

\* What each process has loaded, been asked for and been seeded with, and that
\* under one seed all senders move along the same draws (LibraryInv).
THEOREM LibraryInvariant == Spec => []LibraryInv
<1>1. Everything => LibraryInv
  BY DEF Everything
<1> QED BY <1>1, EverythingIsInvariant, PTL

\* CPE464_OVERRIDE_ERR_DROP drops just the messages it names modulo 2^32, in rcopy
\* and in every child, however often sendErr_init was called (SettingsManager.cpp).
THEOREM ScriptsAreObeyed == Spec => []ScriptedDrops
<1>1. Everything => ScriptedDrops
  BY DEF Everything
<1> QED BY <1>1, EverythingIsInvariant, PTL

\* processEvents damages at most one byte of a message, though a child may hold
\* several flip events: none of them is constant, and one random event is run
\* (PacketManager.cpp:144-178).
THEOREM OneFlip == Spec => []OneFlipAtMost
<1>1. Everything => OneFlipAtMost
  BY DEF Everything
<1> QED BY <1>1, EverythingIsInvariant, PTL

\* CPE464_OVERRIDE_SEEDRAND gives every child the same run, whatever the time and
\* whenever it was forked.
THEOREM SeededRunsRepeat == Spec => []Repeatable
<1>1. Everything => Repeatable
  <2> SUFFICES ASSUME Everything, env.seed # NotSet,
                      NEW p \in Procs, NEW q \in Procs,
                      NEW i \in DOMAIN log[p] \cap DOMAIN log[q]
               PROVE  log[p][i] = log[q][i]
    BY DEF Repeatable
  <2>1. /\ TypeOK /\ Roles /\ Counted /\ EventsOK /\ AskedAlike /\ SeedsOK /\ Replayed
    BY DEF Everything, LibraryInv
  <2>2. /\ log[p] \in Seq(Outcomes) /\ log[q] \in Seq(Outcomes)
        /\ proc[p] \in ProcStates /\ proc[q] \in ProcStates
        /\ EventsOf(proc[p]) /\ EventsOf(proc[q])
    BY <2>1 DEF TypeOK, EventsOK
  <2>3. i \in 1 .. Len(log[p]) /\ i \in 1 .. Len(log[q])
    BY <2>2
  <2>4. Len(log[p]) <= MaxMsgs /\ Len(log[p]) \in Nat
    BY <2>1, <2>2 DEF Counted
  <2>5. Sender(p) /\ Sender(q)
    BY <2>1, <2>3 DEF Counted
  <2>6. PICK drawn \in DrawSequences : \A r \in Procs : Sender(r) => Along(r, drawn)
    BY <2>1, ReplayedDef DEF ReplayedAlong
  <2> DEFINE d == After(drawn, i - 1)
  <2>7. d \in Nat /\ i \in Nat
    <3>1. i - 1 \in 0 .. MaxMsgs /\ i \in Nat
      BY <2>3, <2>4, InjectorAssumption
    <3> QED BY <3>1, AfterType
  <2>8. /\ log[p][i] = ProcessEvents(At(p, d, i))
        /\ log[q][i] = ProcessEvents(At(q, d, i))
    BY <2>3, <2>5, <2>6 DEF Along
  <2> HIDE DEF d
  <2>9. /\ proc[p].chance = proc[q].chance /\ proc[p].rate = proc[q].rate
        /\ proc[p].seed = proc[q].seed /\ proc[p].at # "NONE" /\ proc[q].at # "NONE"
    BY <2>1, <2>5, SendersAlike DEF Sender
  <2>10. ProcessEvents(At(p, d, i)) = ProcessEvents(At(q, d, i))
    BY <2>2, <2>7, <2>9, SameFateAt
  <2> QED BY <2>8, <2>10
<1> QED BY <1>1, EverythingIsInvariant, PTL

\* Without random_flag no two of the server's children draw the same numbers,
\* however many it forks (network-hooks.c:196).
THEOREM SeedsAreDistinct == Spec => []SeedsDiffer
<1>1. Everything => SeedsDiffer
  <2> SUFFICES ASSUME Everything, ~randomFlag, env.seed = NotSet,
                      NEW p \in Procs, NEW q \in Procs, p # q,
                      log[p] # <<>>, log[q] # <<>>
               PROVE  proc[p].seed # proc[q].seed
    BY DEF SeedsDiffer
  <2>1. Roles /\ Counted /\ SeedsOK
    BY DEF Everything, LibraryInv
  <2>2. Sender(p) /\ Sender(q)
    BY <2>1 DEF Counted
  <2>3. p \in Started \ {Main} /\ q \in Started \ {Main}
    BY <2>1, <2>2 DEF Roles, Sender, Started
  <2>4. SeedOf(p) = proc[p].seed /\ SeedOf(q) = proc[q].seed
    BY <2>2 DEF SeedOf, Sender
  <2> QED BY <2>1, <2>3, <2>4 DEF SeedsOK
<1> QED BY <1>1, EverythingIsInvariant, PTL
=============================================================================
