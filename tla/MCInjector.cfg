SPECIFICATION Spec
CONSTANTS
  main = main
  k1 = k1
  k2 = k2
  Procs = {main, k1, k2}
  Main = main
  Program = "server"
  NotSet = NotSet
  Junk = Junk
  Environments <- AnyEnvironment
  RandomFlags <- AnyFlag
  ErrorRate = 1
  RandMax = 4
  Seeds <- MCSeeds
  Generators <- MCGenerators
  LONG_MAX = 127
  UINT_RANGE = 4
  MaxMsgs = 2
  StartTime = 100
  MaxTime = 101
SYMMETRY Symmetry
CHECK_DEADLOCK FALSE
INVARIANTS
  TypeOK
  ScriptedDrops
  OneFlipAtMost
  Repeatable
  SeedsDiffer
  LibraryInv
