SPECIFICATION Spec
CONSTANTS
  Keys = {k1, k2}
  Null = Null
  Statements <- MCStatements
  Contents <- MCContents
  TopK = 1
  MaxKeys = 1
  MaxSide = 2
SYMMETRY Symmetry
INVARIANTS TypeOK PlanIsTransparent RefusedOnlyIfLarge
CHECK_DEADLOCK FALSE
