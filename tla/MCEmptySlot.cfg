SPECIFICATION Spec
CONSTANTS
  ByteWeights <- LowByte
  WindowSize = 2
  TIMEOUT_MAX = 2
  MaxErrors = 1
  DropOn = TRUE
  FlipOn = FALSE
  DataReorder = 0
  AckReorder = 0
  NumChunks = 1
  FopenResults <- FileExists
  Late = 0
  PollRatio = 0
INVARIANT
  NeverCrashes
