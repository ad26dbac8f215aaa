SPECIFICATION FairSystemSpec
CONSTANTS
  BatchSize = 2
  Faults = {"db", "api", "redis", "crash", "redelivery"}
  MaxSent = 3
  MaxChanges = 2
  i1 = i1
  Incidents = {i1}
  Facts <- OneFact
  RuleIds = {r1}
  RuleShapes <- OneShape
  MaxTickets = 1
  AgentTickets = 0
INVARIANTS
  WorkerTypeOK
  StoppedIsQuiet
PROPERTIES
  AheadIsDelivered
  DeliversInOrder
  NoGapOnceReading
  ServedAfterRestart
  ImplementsSync
