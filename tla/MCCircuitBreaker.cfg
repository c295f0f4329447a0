SPECIFICATION FairSpec
CONSTANTS
  q1 = q1
  q2 = q2
  q3 = q3
  Queries <- ThreeQueries
  Threshold = 2
  MaxRetries = 2
  MaxFaults = 9
INVARIANTS
  TypeOK
  TripsAtThreshold
PROPERTIES
  TurnedAwayAfterTrip
  Recovers
