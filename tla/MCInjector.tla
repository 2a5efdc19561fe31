----------------------------- MODULE MCInjector -----------------------------
(***************************************************************************)
(* Injector on small instances: a server and two children, two messages    *)
(* each.  A random number is one of four, so that each of the four events  *)
(* that a child may have is chosen at times.  A uint32_t holds 0 .. 3 and  *)
(* a long up to 127, so that lists name messages by numbers beyond both.   *)
(***************************************************************************)
EXTENDS InjectorInv, TLC

Variables(seeds, rates, drops, flips) ==
  [seed : seeds, rate : rates, drop : drops, flip : flips]

\* -1 stands for random events; a list ends where it is no list of numbers; 6 is
\* 2 as a uint32_t, and 200 is 127 as a long and 3 then.
AnyEnvironment ==
  Variables({NotSet, Junk, 7}, {NotSet, Junk, 2},
            {NotSet, <<>>, <<-1>>, <<200>>, <<6, -1>>, <<1, 2>>, <<1, Junk, 2>>},
            {NotSet, <<-1>>, <<2>>})
AnyFlag == BOOLEAN

\* 7 is the environment's, 10 .. 14 sendErr_init's, the others are times.
MCSeeds == {7} \cup 10 .. 14 \cup StartTime .. MaxTime
Generator(a, b, c) ==
  [s \in Seeds |-> [k \in 1 .. 3 * MaxMsgs |-> (a * s + b * k + c * s * k) % RandMax]]
MCGenerators == {Generator(a, b, c) : a, b, c \in 0 .. 3}

Symmetry == Permutations(Procs \ {Main})
=============================================================================
