SPECIFICATION Spec
CONSTANTS
  Transfers = {t1, t2}
INVARIANTS
  NobodyStranded
  AnswerKept
PROPERTIES
  ReportsWhilePending
CHECK_DEADLOCK FALSE
