SPECIFICATION Extraction
CONSTANTS
  Texts <- MCTexts
  OldWindow <- MCOldWindow
  NewGap <- MCNewGap
INVARIANTS
  VersionsAreStated
  NeverAcrossComponents
  SpelledOutIsFound
CHECK_DEADLOCK FALSE
