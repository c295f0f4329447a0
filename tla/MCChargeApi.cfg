SPECIFICATION FairSpec
CONSTANTS
  r1 = r1
  r2 = r2
  r3 = r3
  None = None
  Requests <- ThreeRequests
  Users = {"u1", "u2"}
  Keys = {"k1"}
  Headers = {"Idempotency-Key", "none"}
  Loads <- MixedLoads
  Faults <- MCFaults
INVARIANTS
  TypeOK
  MutualExclusion
  TruthfulAnswer
  RetrySafe
PROPERTY
  LockReturned
\* every request ends and every TTL runs out
CHECK_DEADLOCK FALSE
