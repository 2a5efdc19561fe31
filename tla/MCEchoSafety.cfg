SPECIFICATION Spec
CONSTANTS
  c1 = c1
  c2 = c2
  c3 = c3
  Clients = {c1, c2, c3}
  Nobody = Nobody
  POLL_SET_SIZE = 2
  Lengths <- OnePiece
  Capacity = 2
  LISTEN_BACKLOG = 2
  MAX_FD = 6
  Faults = {"kill", "hangup", "eof"}
  MaxMsgs = 2
  ReadSizes = {2}
  Typists = {c1, c2}
CHECK_DEADLOCK FALSE
SYMMETRY Symmetry
INVARIANTS
  TypeOK
  IInv
  ServerEndsForACause
  OpenClientsWatched
