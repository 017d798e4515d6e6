SPECIFICATION Spec
CONSTANTS
  Processes = {d1, d2}
  Models <- MCModels
  Definitions <- MCDefinitions
  AddedColumns <- MCAddedColumns
  Unknown = unknown
  MaxTables = 2
  MaxRows = 2
INVARIANTS
  TypeOK
  RefusedOnlyIfRecreated
  QueryableUnlessAbandoned
  RowsFit
  
  ReflectionRoundTrips
