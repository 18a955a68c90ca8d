CONSTANTS
  NX = 3
  NY = 1
  Layout <- MCLayout
  InitVals = {300, 600}
  MaxIters = 5
  Target = 10
  Scores = {5, 15, 20}
  TileVals = {5, 20}
SPECIFICATION Spec
CHECK_DEADLOCK FALSE
INVARIANTS BestPairMeasured BestWithinTarget
PROPERTIES RaisedBelowCeil StalledSearchWidens Termination
