SPECIFICATION Extraction
CONSTANTS
  Texts <- MCTexts
  OldWindow <- MCOldWindow
  NewGap <- MCNewGap
INVARIANT
  NeverInvents
CHECK_DEADLOCK FALSE
