SPECIFICATION SelectSpec
CONSTANTS
  Prices = {1, 2}
  MaxRows = 3
  Ceiling = 2
  Statements <- MCStatements
  ConnectionLevels = {"unset", "Bounded"}
INVARIANTS SelectTypeOK AnswersAreSQL 
CHECK_DEADLOCK FALSE
