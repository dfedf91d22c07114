SPECIFICATION Spec
CONSTANTS
  Rows = 4
  Cols = 2
  HeaderRows = 3
  Books <- MCBooks
INVARIANTS
  TypeOK
  ChangesAreRead
  TextsAreShown
  OthersKeepTheirs
CHECK_DEADLOCK FALSE
