CONSTANTS
  Requests = {r1}
  Faults = {"connect"}
SPECIFICATION Spec
INVARIANT ThisIsThere
