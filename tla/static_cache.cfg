CONSTANTS
  Requests = {r1, r2}
  SlowClients = {r1}
  Chunks = 2
  MaxTasks = 2
  MaxPauses = 0
  Faults = {}
SPECIFICATION Spec
INVARIANT ServedFromCacheIsWhole
CHECK_DEADLOCK FALSE
