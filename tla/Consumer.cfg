CONSTANTS
  NumEvts = 4
  BatchMax = 2
  MaxFaults = 3
SPECIFICATION FairSpec
CHECK_DEADLOCK FALSE
INVARIANTS TypeOK ConsumedBounded NoPanicLoop
PROPERTIES ImplementsFeed AllAcknowledged
