CONSTANTS
  Calls = {c1, c2}
  Users = {"ann", "bob"}
  Linked = {"ann", "legacy"}
  MaxCommands = 2
  MaxFaults = 1
  Requests = {r1}
  None = None
  NumEvts = 1
  BatchMax = 1
  Form = "ann"
  User = "ann"
  Poison = {}
  Malformed = {}
  Faults = {"timeout", "crash", "unsubscribe"}
  MaxFlood = 1
SPECIFICATION StreamSpec
CHECK_DEADLOCK FALSE
SYMMETRY Symmetry
INVARIANTS TypeOK RepliesAddUp StopErrorMeansUnlinked
