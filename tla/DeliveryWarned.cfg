CONSTANTS
  Requests = {r1, r2}
  None = None
  NumEvts = 2
  BatchMax = 2
  Urls = {"ann", "legacy"}
  User = "ann"
  Form = "legacy"
  Linked = {"ann", "legacy"}
  Poison = {}
  Malformed = {}
  Faults = {}
  MaxFaults = 0
  MaxFlood = 3
SPECIFICATION Spec
CHECK_DEADLOCK FALSE
INVARIANT WarnedMeansStopped
