CONSTANTS
  Requests = {r1, r2}
  SlowClients = {r1}
  Chunks = 2
  MaxTasks = 2
  MaxPauses = 2
  Faults <- AllFaults
SPECIFICATION FairSpec
INVARIANTS TypeOK NoLostWakeup DangerTakesResume SendsAfterEndTakeFailure StreamedWhole CacheHoldsStreamed
PROPERTY EveryTransferEnds
CHECK_DEADLOCK FALSE
