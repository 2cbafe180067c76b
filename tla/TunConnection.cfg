SPECIFICATION Spec
CONSTANTS
  MaxWorkers = 4
  MaxAttempts = 4
  MaxHelpers = 1
  Overlap = TRUE
  TimeOuts = TRUE
  Crashes = FALSE
CHECK_DEADLOCK FALSE
INVARIANTS
  TypeOK
  ConnectedIsWished
  BusyIsBacked
  NothingLeftBehind
PROPERTY ConnectingEnds
