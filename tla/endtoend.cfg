SPECIFICATION AllSpec
CONSTANTS
  N <- MCN
  W <- MCW
  R <- MCR
  M <- MCM
  K <- MCK
  Replies <- MCReplies
  NoKind = NoKind
  Interactive = FALSE
INVARIANT LiveIsAwaited
PROPERTIES
  BatchEnds
  NothingLeftBehind
