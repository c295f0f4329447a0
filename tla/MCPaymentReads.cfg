SPECIFICATION FairSpec
CONSTANTS
  Ids = {1, 2, 3, 4}
  Start = 5
  Limit = 2
  Accounts = {"p1"}
  MaxEvents = 3
INVARIANTS
  TypeOK
  NoRepeat
  Complete
PROPERTIES
  WalkEnds
  HistoryStable
CHECK_DEADLOCK FALSE
