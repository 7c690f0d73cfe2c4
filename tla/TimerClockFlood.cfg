SPECIFICATION FairSpec
CONSTANTS
  d = d
  l = l
  Timers = {d}
  Loops = {}
  Ask <- OneAsk
  TickUnits = 3
  MaxCall = 1
  Gap = 2
  MaxAge = 12
PROPERTIES
  TimersFire
CHECK_DEADLOCK FALSE
