SPECIFICATION Spec
CONSTANTS
  v1 = v1
  p2 = p2
  p1 = p1
  j1 = j1
  Calls = {v1, p2, p1, j1}
  Kind <- MCKind
  Life = 3
  Margin = 1
  MaxRefresh = 1
  West = 0
  KeptAtFirst = 1
  MaxFaults = 2
  Horizon = 1
CHECK_DEADLOCK FALSE
INVARIANTS
  OneFaultIsHidden
  StartedAgainOnlyIfHalved
PROPERTIES
  TokenIsGood
  RefreshedOnlyWhenDue
