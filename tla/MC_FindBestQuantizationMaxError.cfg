CONSTANTS
  NX = 3
  NY = 1
  Layout <- MCLayout
  InitVals = {100, 250}
  MaxIters = 2
  ErrVals = {3, 5, 8, 12}
INIT Init
NEXT Next
CHECK_DEADLOCK FALSE
INVARIANTS TypeOK BlockConstancy
PROPERTIES MonotoneRegime
