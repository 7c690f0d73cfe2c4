SPECIFICATION Spec
CONSTANTS
  n1 = n1
  n2 = n2
  s1 = s1
  s2 = s2
  f1 = f1
  f2 = f2
  None = None
  Names = {n1}
  Subs = {s1, s2}
  Funcs = {f1, f2}
  Capacity = 1
  StableLimit = 12
  Buffer = 1
  MaxMessages = 2
INVARIANTS
  NoNilMessage
CHECK_DEADLOCK FALSE
