SPECIFICATION Spec
CONSTANTS
  h1 = h1
  Helper = {h1}
  Code <- Codes
  MaxAttempts = 2
  RetryCodes <- Retryable
  RetryTimeout = TRUE
INVARIANTS
  NoToolLeftBehind
  TreeAfterTimeout
  AttemptsAreJustified
PROPERTIES
  RunReturns
CHECK_DEADLOCK FALSE
