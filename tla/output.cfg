SPECIFICATION Spec
CONSTANTS
  MaxScan = 3
  Replies <- MCReplies
INVARIANTS
  CustomerTextKept
  VersionsLead
  BlankIsPaidAgain
  PayloadIsFound
CHECK_DEADLOCK FALSE
