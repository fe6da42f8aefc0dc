CONSTANTS
  NumIds = 4
  Own = {1, 2, 3}
  Elsewhere = {}
  Counts = {5, 999999}
  PageLimit = 2
  IdLength = 36
  MaxChanges = 2
SPECIFICATION FairSpec
CHECK_DEADLOCK FALSE
INVARIANTS TypeOK NothingSkipped NothingRepeated
PROPERTY PagingEnds
