SPECIFICATION Spec
CONSTANTS
  d = d
  l = l
  x = x
  m = m
  None = None
  Timers = {d, l}
  Loops = {l}
  Exits = {x}
  Messages = {m}
  HalfSeconds <- OneSecond
  SecondUnits = 2
  MaxElapse = 1
  TickUnits = 0
  Capacity = 2
  Priority <- SamePriority
  StableLimit = 2
INVARIANTS
  TypeOK
  HeldOnce
  SecondLoopsStayScheduled
  NotSelfBlocked
PROPERTIES
  StopIsFinal
  FirstComeFirstServed
  ImplementsLifecycle
CHECK_DEADLOCK FALSE
