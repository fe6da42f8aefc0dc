CONSTANTS
  NumIds = 4
  Own = {1, 2}
  Elsewhere = {}
  Counts = {5, 1000000}
  PageLimit = 2
  IdLength = 36
  MaxChanges = 0
SPECIFICATION Spec
CHECK_DEADLOCK FALSE
INVARIANT AllAvailableListed
