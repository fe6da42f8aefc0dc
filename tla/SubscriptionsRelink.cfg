CONSTANTS
  Calls = {c1}
  Users = {"ann"}
  Linked = {"ann"}
  MaxCommands = 1
  MaxFaults = 0
SPECIFICATION Spec
INVARIANT ConflictIsRelinked
CHECK_DEADLOCK FALSE
