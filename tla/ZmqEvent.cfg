SPECIFICATION MCSpec
CONSTANTS
  z1 = z1
  z2 = z2
  o = o
  None = None
  Events = {z1, z2}
  Others = {o}
  MaxPackets = 3
  Malformed = {1}
  Framed = {2}
  RecvRoom = 1
  SendRoom = 1
  Capacity = 1
  StableLimit = 12
INVARIANTS
  PacketsInOrder
PROPERTIES
  ImplementsLifecycle
  StopCompletes
  PacketsArrive
CHECK_DEADLOCK FALSE
