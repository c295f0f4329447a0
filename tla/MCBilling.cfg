SPECIFICATION Spec
CONSTANTS
  s1 = s1
  s2 = s2
  Ids = {s1, s2}
  Dates <- MCDates
  DayTicks = 2
  Prices <- MCPrices
  Rounding = 2
  Deposits <- MCDeposits
CONSTRAINT Apart
SYMMETRY Symmetry
INVARIANTS
  TypeOK
  PeriodLength
  NoOvertaking
  QuoteOffByOne
  ConversionLoss
PROPERTY
  WaitingCostsOne
CHECK_DEADLOCK FALSE
