CONSTANTS
  NX = 3
  NY = 1
  Layout <- MCLayout
  InitVals = {10, 300, 3000}
  MaxIters = 0
  DU <- MCDU
  Dists = {2, 4, 5}
  LocalDists = {2, 3, 4}
  QScale = 1000
  PowUnit <- MCPowUnit
  PowFifth <- MCPowFifth
INIT Init
NEXT Next
CHECK_DEADLOCK FALSE
INVARIANTS
  EnvelopeAfterSearch
