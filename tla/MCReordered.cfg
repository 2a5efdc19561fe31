SPECIFICATION FairSpec
CONSTANTS
  ByteWeights <- LowByte
  WindowSize = 5
  TIMEOUT_MAX = 2
  MaxErrors = 1
  DropOn = TRUE
  FlipOn = FALSE
  DataReorder = 2
  AckReorder = 0
  NumChunks = 6
  FopenResults <- FileExists
  Late = 0
  PollRatio = 0
PROPERTY
  Termination
