SPECIFICATION SafeSpec
CONSTANTS
  Calls = {c1}
  Signalled = {}
  Requests <- RetriedRead
  MaxAttempts = 2
  FetchIgnoresAbort = TRUE
INVARIANTS
  MetadataOfAnswer
