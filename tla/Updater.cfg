SPECIFICATION Spec
CONSTANTS
  MaxRelease = 2
  MaxInstalls = 2
  MaxRuns = 3
  FilesCanFail = TRUE
  MaxChecks = 2
  MaxDownloads = 2
  Overlap = FALSE
INVARIANTS
  TypeOK
  DownloadIsSound
  SomeBinary
PROPERTIES
  NeverDowngraded
  UpdateEnds
CHECK_DEADLOCK FALSE
