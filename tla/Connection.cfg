SPECIFICATION Spec
CONSTANTS
  Ids = {a, b, c}
  NoId = NoId
  MaxRows = 2
  MaxStarts = 2
INVARIANTS
  TypeOK
  ConnectedIsSettled
  StopProtocol
  BooksAgree
PROPERTIES
  CleanStart
  StopsEnd
  ImplementsLifecycle
