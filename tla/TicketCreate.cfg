SPECIFICATION Spec
CONSTANTS
  e1 = e1
  e2 = e2
  normal = normal
  high = high
  support = support
  Requests = {r1}
  Emails <- MCEmails
  Nobody = Nobody
  NoGroup = NoGroup
  Groups = {support}
  Rosters = {roster}
  Priorities = {normal, high}
  PriorityOf <- MCPriorityOf
  GroupOf <- MCGroupOf
  Seeded <- MCSeeded
  Faults = {"db", "api", "redelivery", "handler"}
  MaxTickets = 2
  MaxPolicies = 2
  MaxChanges = 2
SYMMETRY Symmetry
INVARIANTS
  PolicyFits
  ToldIsKnown
  AssignedIsTracked
PROPERTIES
  PolicyKept
  OwnerWasOnCall
  HandlingIsComplete
CHECK_DEADLOCK FALSE
