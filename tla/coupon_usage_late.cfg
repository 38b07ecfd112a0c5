SPECIFICATION Spec
CONSTANTS
  Captures = {k1}
  Compensations = {}
INVARIANTS
  LateResponseCancelled
