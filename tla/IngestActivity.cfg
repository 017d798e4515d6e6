SPECIFICATION FairSpec
CONSTANTS
  Workflows = {w1, w2}
  Keys = {k1, k2}
  None = none
  MaxAttempts = 2
  MaxRows = 3
  Slow = TRUE
INVARIANTS TypeOK OneRowUnlessOutlived ResultIsOwnRow
PROPERTY WorkflowEnds
CHECK_DEADLOCK FALSE
