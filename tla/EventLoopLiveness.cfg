SPECIFICATION FairSpec
CONSTANTS
  d = d
  l = l
  x = x
  m = m
  None = None
  Timers = {l}
  Loops = {l}
  Exits = {x}
  Messages = {m}
  HalfSeconds <- OneSecond
  SecondUnits = 1
  MaxElapse = 1
  TickUnits = 2
  Capacity = 1
  Priority <- SamePriority
  StableLimit = 12
PROPERTIES
  ShutdownCloses
  ExitCloses
  MessagesRun
CHECK_DEADLOCK FALSE
