SPECIFICATION Spec
CONSTANTS
  Pids = {p1, p2, p3}
  NoPid = NoPid
  SeesPrivileged = TRUE
  MaxLives = 2
  MaxHelpers = 2
  MaxRuntimes = 2
  MaxStrangers = 1
INVARIANTS
  TypeOK
  CleanUpIsSound
PROPERTIES
  HelpersCleanUp
CHECK_DEADLOCK FALSE
