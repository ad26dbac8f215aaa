SPECIFICATION Spec
CONSTANTS
  p1 = p1
  p2 = p2
  critical = critical
  normal = normal
  nightowl = nightowl
  Proc <- MCProc
  Priorities <- MCPriorities
  Services <- MCServices
  Demo <- MCDemo
  Linked <- MCLinked
  MaxRuns = 3
  MaxFaults = 3
SYMMETRY Symmetry
INVARIANTS
  TypeOK
  SuccessMeansSeeded
  NothingDuplicated
  DemoRebuilds
CHECK_DEADLOCK FALSE
