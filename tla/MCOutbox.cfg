SPECIFICATION FairSpec
CONSTANTS
  e1 = e1
  e2 = e2
  p1 = p1
  p2 = p2
  None = None
  Events <- TwoEvents
  CreatedAt <- TwoCreatedAt
  Pollers <- TwoPollers
  Batch = 2
  MaxRetry = 1
  MaxFaults = 1
INVARIANTS
  TypeOK
  DuplicatesNeedRollbacks
  NoTaskLost
  NoDeadEnd
PROPERTIES
  Settled
  Relays
\* all events settled, nothing left to poll
CHECK_DEADLOCK FALSE
