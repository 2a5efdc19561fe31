SPECIFICATION Spec
CONSTANTS
  ByteWeights <- LowByte
  WindowSize = 2
  TIMEOUT_MAX = 2
  MaxErrors = 1
  DropOn = TRUE
  FlipOn = FALSE
  DataReorder = 1
  AckReorder = 1
  NumChunks = 6
  FopenResults <- FileExists
  Late = 0
  PollRatio = 0
INVARIANT
  WrittenIsPrefix
