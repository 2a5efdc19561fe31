SPECIFICATION Spec
CONSTANTS
  ByteWeights <- TwoBytes
  WindowSize = 2
  TIMEOUT_MAX = 2
  MaxErrors = 2
  DropOn = TRUE
  FlipOn = TRUE
  DataReorder = 0
  AckReorder = 2
  NumChunks = 6
  FopenResults <- AnyFopen
  Late = 1
  PollRatio = 0
INVARIANT
  CopyInv
PROPERTY
  ImplementsFileCopy
