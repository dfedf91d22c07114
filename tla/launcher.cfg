SPECIFICATION FairSpec
CONSTANTS
  s1 = s1
  s2 = s2
  Shells <- MCShells
  MaxPids <- MCMaxPids
INVARIANTS
  TypeOK
  ServerIsTracked
PROPERTIES
  ReportsTruth
  StopTakesEffect
