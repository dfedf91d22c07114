SPECIFICATION Spec
CONSTANTS
  s1 = s1
  s2 = s2
  Shells <- MCOneShell
  MaxPids <- MCMaxPids
INVARIANT
  StopStopsServer
