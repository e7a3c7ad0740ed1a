SPECIFICATION HostSpec
CONSTANTS
  Callers = {c1, c2}
  Owner = c1
  Worker = w
  NoThread = NoThread
  Kinds = {"dashboard"}
  Clients = {k1}
  Nobody = Nobody
  Parts = 2
  MaxStarts = 1
  MaxCycles = 0
PROPERTY CallbackReturns
CHECK_DEADLOCK FALSE
