CONSTANTS
  Requests = {r1, r2}
  None = None
  NumEvts = 2
  BatchMax = 2
  Urls = {"ann", "legacy"}
  User = "ann"
  Form = "legacy"
  Linked = {"legacy"}
  Poison = {2}
  Malformed = {}
  Faults = {"timeout", "crash", "unsubscribe", "ambiguous"}
  MaxFaults = 1
  MaxFlood = 3
SPECIFICATION FairSpec
CHECK_DEADLOCK FALSE
INVARIANT WarnedForAReason
PROPERTIES Progress FloodStopsStream
