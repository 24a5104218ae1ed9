CONSTANTS
  Requests = {r1, r2}
  Faults <- AllFaults
SPECIFICATION FairSpec
INVARIANTS TypeOK NoUseAfterFree NothingThrown AtMostOneResponse NoShorteningWithoutCaptcha
PROPERTY EveryRequestEnds
