SPECIFICATION Spec
CONSTANTS
  r1 = r1
  r2 = r2
  r3 = r3
  None = None
  Requests <- TwoRequests
  Users = {"u1", "u2"}
  Keys = {"k1"}
  Headers = {"Idempotency-Key", "none"}
  Loads <- Retries
  Faults <- Disconnects
INVARIANT
  NeverChargedTwice
\* every request ends and every TTL runs out
CHECK_DEADLOCK FALSE
