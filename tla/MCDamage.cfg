SPECIFICATION Spec
CONSTANTS
  ByteWeights <- TwoBytes
  WindowSize = 3
  TIMEOUT_MAX = 2
  MaxErrors = 2
  DropOn = TRUE
  FlipOn = TRUE
  DataReorder = 1
  AckReorder = 0
  NumChunks = 5
  FopenResults <- AnyFopen
  Late = 1
  PollRatio = 0
INVARIANTS
  TypeOK
  IInv
  WrittenIsPrefix
  OverMeansWhole
  UnwrittenRetained
  FlowControl
  BufferGenuine
  AcksInOrder
PROPERTIES
  WindowAdvances
