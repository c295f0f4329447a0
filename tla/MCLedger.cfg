SPECIFICATION FairSpec
CONSTANTS
  t1 = t1
  t2 = t2
  t3 = t3
  u1 = u1
  u2 = u2
  ghost = ghost
  NoTx = NoTx
  Requests <- ThreeRequests
  Users <- MCUsers
  UserIds <- MCUserIds
  Amounts = {0, 1, 2}
  InitialBalance <- MCBalance
INVARIANTS
  TypeOK
  NoOverdraft
  ChargeAtomicity
  OkMeansCommitted
  RefundedOnce
  Conservation
  WaitsEnd
PROPERTIES
  Linearizable
  Answered
\* every request is answered in the end and nothing more happens
CHECK_DEADLOCK FALSE
