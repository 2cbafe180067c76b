SPECIFICATION Spec
CONSTANTS
  Services = {wifi, lan}
  OpsCanFail = TRUE
INVARIANTS
  TypeOK
  LastRequestWins
  BeliefMatchesOs
PROPERTIES
  TunnelDownLocks
  LockReleasedByUser
  RequestsTakeEffect
