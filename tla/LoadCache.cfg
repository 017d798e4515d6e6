SPECIFICATION Spec
CONSTANTS
  Cursors = {c1, c2}
  Dbs = {d1, d2}
  Names = {t}
  NoName = NoName
  OtherClients = TRUE
  LostAnswers = TRUE
INVARIANTS TypeOK HonestUnlessSuspect
PROPERTY RefusedOnlyIfSuspect
