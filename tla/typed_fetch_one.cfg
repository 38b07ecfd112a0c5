SPECIFICATION FairBodySpec
CONSTANTS
  Calls = {c1}
  Signalled = {c1}
  Requests <- AllRequests
  MaxAttempts = 3
  FetchIgnoresAbort = TRUE
  MaxBytes = 2
  Chunks <- MCChunks
  MaxTimer = 5
  SecondMs = 2
  Seconds <- MCSeconds
  Dates <- MCDates
  RetryAfterCap = 5
  BaseDelay = 2
  MaxDelay = 3
INVARIANTS
  RetriesAreSafe
  NothingHeld
  GivesUpLast
  TruthfulOutcome
  DelaysFit
PROPERTIES
  NothingScheduledAfterAbort
  CallsSettle
  KeepsPromise
