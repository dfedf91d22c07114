SPECIFICATION Spec
CONSTANTS
  Rows = 4
  Cols = 2
  HeaderRows = 3
  Books <- MCBooks
INVARIANT RowsAreTheirs
CHECK_DEADLOCK FALSE
