SPECIFICATION FairSpec
CONSTANTS
  d = d
  l = l
  Timers = {d, l}
  Loops = {l}
  Ask <- TwoAsks
  TickUnits = 2
  MaxCall = 1
  Gap = 3
  MaxAge = 14
INVARIANTS
  TypeOK
  NeverLate
PROPERTIES
  EarlyByOneTick
  TimersFire
CHECK_DEADLOCK FALSE
