CONSTANTS
  Equities <- MCEquities
  MockEquity = 100
  Limit = 5
  Hysteresis = 2
  MaxSent = 2
SPECIFICATION Spec
INVARIANT BreachLocksOut
