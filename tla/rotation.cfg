SPECIFICATION Spec
CONSTANTS
  B = 3
  Max = 1
  Burst = 2
  MaxLines = 9
  MaxStarts = 3
INVARIANTS
  TypeOK
  FilesAreRuns
  Bounded
PROPERTY OnlyOldestLost
CHECK_DEADLOCK FALSE
