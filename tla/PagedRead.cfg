SPECIFICATION FairSpec
CONSTANTS
  Keys = {1, 2, 3, 4, 5}
  Limit = 2
  Servers = {TRUE, FALSE}
  NoKey = NoKey
INVARIANTS TypeOK PagesInOrder NothingLost
PROPERTIES ReadEnds KeepsPromise
