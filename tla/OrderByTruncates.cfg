SPECIFICATION SelectSpec
CONSTANTS
  Prices = {1, 2}
  MaxRows = 3
  Ceiling = 2
  Statements <- OrderStatements
  ConnectionLevels = {"unset", "Bounded"}
INVARIANT OrderByCoversEveryRow
CHECK_DEADLOCK FALSE
