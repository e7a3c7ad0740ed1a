SPECIFICATION HostSpec
CONSTANTS
  Callers = {c1, c2}
  Owner = c1
  Worker = w
  NoThread = NoThread
  Kinds = {"spire", "gateway", "dashboard"}
  Clients = {k1}
  Nobody = Nobody
  Parts = 2
  MaxStarts = 2
  MaxCycles = 3
INVARIANTS ServerObjectSafe CyclesAdvance
PROPERTIES StopEnds ShutdownEnds
CHECK_DEADLOCK FALSE
