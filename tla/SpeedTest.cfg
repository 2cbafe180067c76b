SPECIFICATION Spec
CONSTANTS
  Probes = 2
  DownloadEndpoints = 2
  UploadEndpoints = 2
  UploadIdle = 1
  NoProgress = 2
  TunMode = FALSE
  MaxTests = 3
  MaxTimers = 3
INVARIANTS
  TypeOK
  TestIsSound
PROPERTIES
  PhasesInOrder
  TestEnds
