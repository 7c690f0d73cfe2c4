SPECIFICATION FairSpec
CONSTANTS
  r1 = r1
  r2 = r2
  r3 = r3
  script = script
  None = None
  Runtimes = {r1, r2}
  Pooled = {r1, r2}
  Mortal = {r1}
  Files = {script}
  MaxVersion = 2
  Marked <- NoneMarked
  Broken <- NoneBroken
  Walk <- OneFile
  Unreadable = {}
  PoolSize = 3
  Ops = {"Write"}
PROPERTIES
  ChangesArrive
CHECK_DEADLOCK FALSE
