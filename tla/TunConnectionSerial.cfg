SPECIFICATION Spec
CONSTANTS
  MaxWorkers = 4
  MaxAttempts = 6
  MaxHelpers = 2
  Overlap = FALSE
  TimeOuts = FALSE
  Crashes = TRUE
CHECK_DEADLOCK FALSE
INVARIANT NoRuntimeLeft
PROPERTY ImplementsLifecycle
