SPECIFICATION Spec
CONSTANTS
  r1 = r1
  r2 = r2
  r3 = r3
  known = known
  unknown = unknown
  Requests <- ThreeRequests
  Payments <- TwoPayments
  Seeded <- OneSeeded
SYMMETRY Symmetry
INVARIANT
  OneDisputePerPayment
\* every request has been answered
CHECK_DEADLOCK FALSE
