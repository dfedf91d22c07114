SPECIFICATION Spec
CONSTANTS
  r1 = r1
  r2 = r2
  r3 = r3
  r4 = r4
  NoKind = NoKind
  Requests <- MCRequests
  Kinds <- MCKinds
  M <- MCM
  K <- MCK
  Replies <- MCReplies
INVARIANTS
  TypeOK
  PermitsConserved
  NoLostWakeup
  SpendOnlyScreened
PROPERTY
  NoBarging
CHECK_DEADLOCK FALSE
SYMMETRY MCSymmetry
