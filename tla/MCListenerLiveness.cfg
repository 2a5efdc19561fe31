SPECIFICATION FairSpec
CONSTANTS
  r1 = r1
  r2 = r2
  Rcopys = {r1, r2}
  Existing = {r1}
  NoRequest = NoRequest
  TIMEOUT_MAX = 2
  Rounds = 2
  POLL_SET_SIZE = 6
  MAX_FD = 6
  MAX_PROC = 3
  Faults = {"loss", "kill", "hangup"}
CHECK_DEADLOCK FALSE
PROPERTIES
  ChildrenEnd
  RcopysEnd
