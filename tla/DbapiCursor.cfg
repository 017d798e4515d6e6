SPECIFICATION Spec
CONSTANTS
  t1 = t1
  c1 = c1
  Tasks = {t1, t2}
  Cursors = {c1}
  Values = {1, 2}
  Null = null
  Missing = missing
  None = none
  Bind = p
  Alike = {2}
  Wheres <- MCWheres
  Start0 <- MCStart
  MaxId = 5
  MaxSets = 3
  MaxCalls = 3
  Workload <- MCWorkload
  WhereRefusal <- MCRefusal
  WhereSelects <- MCSelects
  WhereMeans <- MCMeans
INVARIANTS
  TypeOK
  EveryRowGivenOnce
  SetsAppliedInOrder
  CountIsWork
  LastKeyIsOwn
PROPERTY WhereIsHonoured
