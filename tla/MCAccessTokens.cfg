SPECIFICATION Spec
CONSTANTS
  c1 = c1
  v1 = v1
  None = None
  ClientIds <- OneClient
  Validations <- OneValidation
  Second = 2
  Life = 2
  MaxTime = 7
INVARIANT
  RevokedStaysOut
