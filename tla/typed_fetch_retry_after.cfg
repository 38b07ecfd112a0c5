SPECIFICATION Spec
CONSTANTS
  Calls = {c1}
  Signalled = {}
  Requests <- PairRequests
  MaxAttempts = 2
  FetchIgnoresAbort = FALSE
INVARIANTS
  RetryAfterHonoured
