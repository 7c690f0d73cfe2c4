SPECIFICATION Spec
CONSTANTS
  None = None
  Requests = {1}
  Capacity = 1
  StableLimit = 1
INVARIANTS
  BodyPassed
CHECK_DEADLOCK FALSE
