SPECIFICATION Spec
CONSTANTS
  Api <- MCApi
  Configs <- MCConfigs
  Documents <- MCDocuments
  Required <- MCRequired
  Exact <- MCExact
  Boundary <- MCBoundary
  Supported = {"typescript", "dart", "rust"}
  ApiSources = {"read", "edit"}
  ApiForbidden = {"secret"}
  RuntimeMetadata = {"timeout"}
  Torn = Torn
  Requests <- MCRequests
  Answers <- MCAnswers
  MaxEdits = 4
INVARIANTS
  GreenIsPinned
  NamesAreUnique
  PlanKeepsLimits
  RequestsArrive
  AnswersAreTyped
CHECK_DEADLOCK FALSE
