SPECIFICATION FairSpec
CONSTANTS
  Captures = {k1, k2}
  Compensations = {r1}
INVARIANTS
  ConfirmedIsDone
  NotSubmittedIsCertain
  CompensationFollowsCapture
  NothingLeftBehind
PROPERTIES
  StoppedSendsNothing
  AttemptsSettle
