SPECIFICATION FairSpec
CONSTANTS
  e1 = e1
  e2 = e2
  p1 = p1
  p2 = p2
  None = None
  Events <- TwoEvents
  CreatedAt <- TwoCreatedAt
  Pollers <- OnePoller
  Batch = 2
  MaxRetry = 1
  MaxFaults = 0
PROPERTY
  NothingDropped
CHECK_DEADLOCK FALSE
