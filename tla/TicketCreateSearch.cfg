SPECIFICATION Spec
CONSTANTS
  e1 = e1
  e2 = e2
  normal = normal
  high = high
  support = support
  Requests = {r1, r2}
  Emails = {e1}
  Nobody = Nobody
  NoGroup = NoGroup
  Groups = {support}
  Rosters = {roster}
  Priorities = {normal, high}
  PriorityOf <- MCPriorityOf
  GroupOf <- MCGroupOf
  Seeded <- MCSeeded
  Faults = {}
  MaxTickets = 2
  MaxPolicies = 2
  MaxChanges = 0
INVARIANTS
  RetrySearchHelps
CHECK_DEADLOCK FALSE
