SPECIFICATION Spec
CONSTANTS
  Ids = {a, b, c}
  NoId = NoId
  MaxRows = 2
  MaxStarts = 2
INVARIANT KillOnlyStopped
