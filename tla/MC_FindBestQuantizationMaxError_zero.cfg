CONSTANTS
  NX = 3
  NY = 1
  Layout <- MCLayout
  InitVals = {100, 250}
  MaxIters = 2
  ErrVals = {0, 5, 12}
INIT Init
NEXT Next
CHECK_DEADLOCK FALSE
INVARIANT Positivity
