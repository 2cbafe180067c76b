SPECIFICATION Spec
CONSTANTS
  MaxWorkers = 3
  MaxAttempts = 5
  MaxHelpers = 2
  Overlap = TRUE
  TimeOuts = FALSE
  Crashes = FALSE
CHECK_DEADLOCK FALSE
INVARIANT DisconnectedMeansNoRuntime
