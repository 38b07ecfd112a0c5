SPECIFICATION SafeSpec
CONSTANTS
  Calls = {c1, c2}
  Signalled = {c1, c2}
  Requests <- RetriedRead
  MaxAttempts = 2
  FetchIgnoresAbort = FALSE
INVARIANTS
  MetadataOfAnswer
