SPECIFICATION Spec
CONSTANTS
  Keys = {1, 2, 3}
  Limit = 2
  Servers = {FALSE}
  NoKey = NoKey
INVARIANT RaisesOrComplete
