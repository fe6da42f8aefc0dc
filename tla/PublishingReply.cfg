CONSTANTS
  Posts = {}
  Replies = {m1}
  NoBot = {}
  Refused = {}
  Limit = 1
  MaxTries = 1
  MaxFaults = 1
SPECIFICATION Spec
CHECK_DEADLOCK FALSE
INVARIANT PublishedMeansAccepted
