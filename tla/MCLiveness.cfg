SPECIFICATION FairSpec
CONSTANTS
  ByteWeights <- TwoBytes
  WindowSize = 3
  TIMEOUT_MAX = 3
  MaxErrors = 5
  DropOn = TRUE
  FlipOn = TRUE
  DataReorder = 0
  AckReorder = 0
  NumChunks = 5
  FopenResults <- AnyFopen
  Late = 0
  PollRatio = 3
PROPERTIES
  Termination
  Completion
