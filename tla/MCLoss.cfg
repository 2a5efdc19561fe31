SPECIFICATION Spec
CONSTANTS
  ByteWeights <- LowByte
  WindowSize = 3
  TIMEOUT_MAX = 2
  MaxErrors = 3
  DropOn = TRUE
  FlipOn = FALSE
  DataReorder = 0
  AckReorder = 0
  NumChunks = 5
  FopenResults <- AnyFopen
  Late = 1
  PollRatio = 0
INVARIANTS
  WaitsForMissing
  NeverAborts
  SrejAnswerable
  LossInv
