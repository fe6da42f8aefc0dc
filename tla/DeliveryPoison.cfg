CONSTANTS
  Requests = {r1, r2}
  None = None
  NumEvts = 2
  BatchMax = 2
  Urls = {"ann", "legacy"}
  User = "ann"
  Form = "ann"
  Linked = {"ann"}
  Poison = {1}
  Malformed = {}
  Faults = {}
  MaxFaults = 0
  MaxFlood = 3
SPECIFICATION FairSpec
CHECK_DEADLOCK FALSE
PROPERTY HeadIsSkipped
