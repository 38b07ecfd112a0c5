SPECIFICATION ChainSpec
CONSTANTS
  Families <- AllFamilies
  Length = 3
INVARIANTS
  ConsumersSurvive
  NoBreakAddsUp
  NoneMeansSame
CHECK_DEADLOCK FALSE
