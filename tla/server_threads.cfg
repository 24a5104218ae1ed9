CONSTANTS
  Threads = {t1, t2}
  Requests = {r1}
  None = None
SPECIFICATION FairSpec
INVARIANTS MisuseHasItsCause CleanStop
PROPERTY EveryRedirectEnds
