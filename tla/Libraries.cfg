SPECIFICATION MCSpec
CONSTANTS
  r1 = r1
  r2 = r2
  r3 = r3
  c1 = c1
  c2 = c2
  counterKey = counterKey
  wholeKey = wholeKey
  hashKey = hashKey
  textKey = textKey
  fieldA = fieldA
  fieldB = fieldB
  None = None
  Empty = Empty
  Refused = Refused
  Runtimes = {r1, r2, r3}
  Unconnected = {r3}
  Callers = {c1, c2}
  Home <- ScriptOf
  Script <- SmallScript
  Encode <- RedisEncode
  Decode <- RedisDecode
  Number <- RedisNumber
  Text <- RedisText
  MaxTries = 2
  MaxSent = 2
  MaxClients = 2
  MaxExact = 4
  W = 4
  P = 3
  Offered <- Options3
  MaxOptions = 3
  Names <- SmallNames
  MaxNames = 4
  Scripts = {"main"}
  Stdlib = {"os", "package"}
  Base = {"_G", "print"}
  TableValues = {"t"}
  Nothing = Nothing
INVARIANTS
  HashesWhole
  ClientsReturned
  SplitOnlyByRace
  ValuesComeBack
  BitsAgree
  OptionsSettle
  InitsFirst
CHECK_DEADLOCK FALSE
