SPECIFICATION FairSpec
CONSTANTS
  MaxPools = 1
  Requests = {r1, r2}
  MaxConcurrency = 2
CHECK_DEADLOCK FALSE
PROPERTY
  BriefPause
