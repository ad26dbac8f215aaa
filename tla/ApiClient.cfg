SPECIFICATION FairSpec
CONSTANTS
  MaxRetries = 3
  MaxCalls = 2
INVARIANTS
  TypeOK
  RetriesExplained
  EmptyBodyExplained
  ToldWhatWasDone
PROPERTIES
  CallEnds
CHECK_DEADLOCK FALSE
