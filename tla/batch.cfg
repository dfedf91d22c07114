SPECIFICATION FairSpec
CONSTANTS
  N <- MCN
  W <- MCW
  R <- MCR
  Interactive = TRUE
INVARIANTS
  TypeOK
  SlotsExclusive
  InFlightBounded
  SlotTellsTruth
  ReturnedInOrder
  ReportAddsUp
  WorkConserving
  CursorStaysNear
PROPERTIES
  KeepsPromise
  Terminates
