SPECIFICATION FairSpec
CONSTANTS
  MaxPools = 3
  Requests = {r1, r2}
  MaxConcurrency = 3
CHECK_DEADLOCK FALSE
INVARIANTS
  CurrentPoolServes
  NoPoolForgotten
  SlotsConserved
PROPERTIES
  EveryRequestEnds
  ReplacedPoolCloses
