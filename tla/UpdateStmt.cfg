SPECIFICATION Spec
CONSTANTS
  Sessions = {u1, u2}
  Cols = {"a", "b"}
  Wheres = {"all", "a"}
  MaxKey = 6
  InitialKeys = {1, 2}
  Limit = 1
  Batch = 1
  MaxStatements = 2
SYMMETRY Symmetry
INVARIANTS TypeOK ExactWhenAlone WholeRowsWhenFailed UpdatesStay DeletesStay
CHECK_DEADLOCK FALSE
