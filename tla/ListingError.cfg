CONSTANTS
  NumIds = 3
  Own = {1, 2, 3}
  Elsewhere = {}
  Counts = {5}
  PageLimit = 2
  IdLength = 36
  MaxChanges = 0
SPECIFICATION Spec
CHECK_DEADLOCK FALSE
INVARIANT LastPageIsLast
