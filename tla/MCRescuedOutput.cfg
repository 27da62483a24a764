SPECIFICATION Spec
CONSTANTS
  c1 = c1
  c2 = c2
  c3 = c3
  Calls = {c1, c2, c3}
  IndexOf <- MCIndexOf
  NoIndex = NoIndex
  FirstAnon = 10
  NoKey = NoKey
  Nudging = {TRUE}
  MaxItems = 4
CHECK_DEADLOCK FALSE
INVARIANTS
  CumulativeOutput
