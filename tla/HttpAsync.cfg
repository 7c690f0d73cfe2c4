SPECIFICATION FairSpec
CONSTANTS
  None = None
  Requests = {1, 2, 3}
  Capacity = 1
  StableLimit = 3
INVARIANTS
  CalledOnceWithAnswer
  ContextsReleased
PROPERTIES
  ImplementsLifecycle
  RequestsAnswered
CHECK_DEADLOCK FALSE
