SPECIFICATION Spec
CONSTANTS
  c1 = c1
  c2 = c2
  k1 = k1
  Clients <- TwoClients
  Conns <- TwoClients
  ApiKeys <- OneKey
  AddressOf <- Same
  KeyOf <- Shared
  Rate = 1
  Burst = 2
  Idle = 2
  Window = 2
  Limit = 4
  MaxLag = 1
  MaxTime = 6
SYMMETRY Symmetry
INVARIANTS
  TypeOK
  QuotaRespected
  WindowBounded
