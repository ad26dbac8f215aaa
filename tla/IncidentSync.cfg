SPECIFICATION FairSpec
CONSTANTS
  i1 = i1
  Incidents = {i1}
  Facts <- OneFact
  RuleIds = {r1, r2}
  RuleShapes <- TwoShapes
  Faults <- AllFaults
  MaxTickets = 2
  AgentTickets = 1
  MaxQueue = 2
INVARIANTS
  ResolvedIsClosed
  AutoTicketCloses
  OneTicketPerRule
PROPERTIES
  ResolutionCloses
