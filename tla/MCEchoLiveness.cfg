SPECIFICATION FairSpec
CONSTANTS
  c1 = c1
  c2 = c2
  Clients = {c1, c2}
  Nobody = Nobody
  POLL_SET_SIZE = 2
  Lengths <- TwoPiecesThenOne
  Capacity = 1
  LISTEN_BACKLOG = 2
  MAX_FD = 6
  Faults = {"kill", "stop"}
  MaxMsgs = 2
  ReadSizes = {0, 1, 2}
  Typists = {c1, c2}
CHECK_DEADLOCK FALSE
PROPERTIES
  ImplementsEchoService
  EveryMessageEchoed
  InputIsSent
  ServerReturns
  ClientsFollow
