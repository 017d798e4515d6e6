SPECIFICATION Spec
CONSTANTS
  Null = Null
  Statements <- MCStatements
  Contents <- MCContents
INVARIANTS TypeOK AnswersAreSQL RaisesOnlyWithoutAnswer MentionsReadOnce
CHECK_DEADLOCK FALSE
