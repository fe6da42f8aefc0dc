CONSTANTS
  Requests = {r1, r2}
  None = None
  NumEvts = 4
  BatchMax = 2
  Urls = {"ann", "legacy"}
  User = "ann"
  Form = "ann"
  Linked = {"ann"}
  Poison = {3}
  Malformed = {4}
  Faults = {"timeout", "crash", "ambiguous"}
  MaxFaults = 2
  MaxFlood = 3
SPECIFICATION Spec
CHECK_DEADLOCK FALSE
SYMMETRY Symmetry
INVARIANTS TypeOK NoLoss InOrder DuplicatesBounded CallsSound
PROPERTY ImplementsFeed
