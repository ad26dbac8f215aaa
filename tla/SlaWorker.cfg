SPECIFICATION FairSpec
CONSTANTS
  TicksPerSecond = 2
  Shapes <- ShortAndLong
  NoRow = NoRow
  Deleted = Deleted
  Tickets = {t1}
  PolicyIds = {p1}
  ZammadStates <- States
  Faults <- AllFaults
  MaxTime = 3
  MaxPages = 2
INVARIANTS
  TypeOK
  RowsCoherent
  DueDatesAccount
  CopiesFit
  PagesAccounted
  PausedByLastEvent
  ClockAgrees
PROPERTIES
  BreachIsPaged
  PauseFreezes
