SPECIFICATION FairSpec
CONSTANTS
  MaxAttempts = 3
  Signalled = TRUE
  Reactions = {"returns", "aborts", "throws"}
INVARIANTS
  ReplayOnlyIfSafe
  CompletesStored
  NothingLeftBehind
  TruthfulOutcome
PROPERTIES
  NothingStartedAfterStop
  ReportsAreCurrent
  UploadSettles
  KeepsPromise
