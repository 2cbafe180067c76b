SPECIFICATION Spec
CONSTANTS
  Pids = {p1, p2, p3}
  NoPid = NoPid
  SeesPrivileged = FALSE
  MaxLives = 2
  MaxHelpers = 2
  MaxRuntimes = 2
  MaxStrangers = 0
PROPERTY WatchdogStopsItsOwn
CHECK_DEADLOCK FALSE
