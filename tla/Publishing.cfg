CONSTANTS
  Posts = {p1, p2, p3}
  Replies = {m1, m2}
  NoBot = {p3}
  Refused = {p2}
  Limit = 3
  MaxTries = 3
  MaxFaults = 4
SPECIFICATION Spec
CHECK_DEADLOCK FALSE
INVARIANTS TypeOK SuccessMeansAccepted CopiesBounded GivenUpForAReason
