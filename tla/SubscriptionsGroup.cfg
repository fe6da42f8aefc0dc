CONSTANTS
  Calls = {c1}
  Users = {"ann", "bob"}
  Linked = {"ann"}
  MaxCommands = 1
  MaxFaults = 0
SPECIFICATION Spec
CHECK_DEADLOCK FALSE
INVARIANT AnyUserStops
