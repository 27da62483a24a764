SPECIFICATION Spec
CONSTANTS
  MaxPools = 2
  Requests = {r1}
  MaxConcurrency = 1
CHECK_DEADLOCK FALSE
INVARIANT
  InFlightFinish
