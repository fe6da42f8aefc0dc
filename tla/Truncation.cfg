CONSTANTS
  LenMax = 7
  Source = 10
SPECIFICATION TruncationSpec
CHECK_DEADLOCK FALSE
INVARIANTS WithinLimit CutBetweenCharacters
