SPECIFICATION Spec
CONSTANTS
  MaxProfile = 2
  MaxBytes = 2
  MaxStarts = 2
  MaxClears = 1
INVARIANTS
  TypeOK
  BooksAddUp
  DirtyIsScheduled
PROPERTIES
  BookedOnRunner
CHECK_DEADLOCK FALSE
