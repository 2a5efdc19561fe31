SPECIFICATION Spec
CONSTANTS
  r1 = r1
  r2 = r2
  Rcopys = {r1, r2}
  Existing = {r1, r2}
  NoRequest = NoRequest
  TIMEOUT_MAX = 2
  Rounds = 2
  POLL_SET_SIZE = 6
  MAX_FD = 7
  MAX_PROC = 4
  Faults = {"late", "kill", "hangup"}
CHECK_DEADLOCK FALSE
SYMMETRY Symmetry
INVARIANTS
  TypeOK
  IInv
  OneChildAcknowledged
  NotFoundIsTrue
