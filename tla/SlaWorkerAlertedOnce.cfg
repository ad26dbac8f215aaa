SPECIFICATION Spec
CONSTANTS
  TicksPerSecond = 1
  Shapes <- Short
  NoRow = NoRow
  Deleted = Deleted
  Tickets = {t1}
  PolicyIds = {p1}
  ZammadStates <- States
  Faults = {}
  MaxTime = 5
  MaxPages = 2
INVARIANTS
  AlertedOnce
CHECK_DEADLOCK FALSE
