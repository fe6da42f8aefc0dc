CONSTANTS
  Calls = {c1}
  Users = {"ann"}
  Linked = {"legacy"}
  MaxCommands = 2
  MaxFaults = 0
SPECIFICATION Spec
CHECK_DEADLOCK FALSE
INVARIANT StoppedMeansUnlinked
