SPECIFICATION Spec
CONSTANTS
  Requests = {r1, r2, r3}
  Tickets = {t1, t2}
  Faults = {"db", "api"}
  MaxDocs = 4
INVARIANTS
  OrphansExplained
PROPERTIES
  ActsAtOnce
CHECK_DEADLOCK FALSE
