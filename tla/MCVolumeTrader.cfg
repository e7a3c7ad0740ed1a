CONSTANTS
  Equities <- MCEquities
  MockEquity = 100
  Limit = 5
  Hysteresis = 3
  MaxSent = 2
SPECIFICATION Spec
INVARIANTS
  AtMostOneOrder
  UnknownOutcomeStops
  LockoutFlattens
PROPERTY OrdersJustified
