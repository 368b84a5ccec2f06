\* A tool that ends on SIGTERM and a helper of its group that does not.
SPECIFICATION Spec
CONSTANTS
  h1 = h1
  Helper = {h1}
  Code <- Codes
  MaxAttempts = 1
  RetryCodes <- Retryable
  RetryTimeout = TRUE
INVARIANTS
  TreeIsTerminated
CHECK_DEADLOCK FALSE
