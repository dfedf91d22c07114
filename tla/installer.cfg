SPECIFICATION Spec
CONSTANTS
  NFiles = 2
  NTargets = 2
  NPlaces = 2
  MaxRuns = 3
  MaxSeconds = 2
INVARIANT InstalledIsWhole
PROPERTY NothingIsLost
CHECK_DEADLOCK FALSE
