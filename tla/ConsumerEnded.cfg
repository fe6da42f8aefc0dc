CONSTANTS
  NumEvts = 4
  BatchMax = 2
  MaxFaults = 3
SPECIFICATION Spec
CHECK_DEADLOCK FALSE
INVARIANT NeverAbandoned
