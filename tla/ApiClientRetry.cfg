SPECIFICATION Spec
CONSTANTS
  MaxRetries = 3
  MaxCalls = 1
INVARIANTS
  RetryCarriesBody
CHECK_DEADLOCK FALSE
