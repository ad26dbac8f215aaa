SPECIFICATION Spec
CONSTANTS
  Services = {"nightowl", "bookowl"}
  Urls = {u1, u2}
  Pauses = {p1, p2}
  Readers = {r1, r2}
  MaxPuts = 2
INVARIANTS
  ConfigTakesEffect
CHECK_DEADLOCK FALSE
