SPECIFICATION FairSpec
CONSTANTS
  r1 = r1
  r2 = r2
  r3 = r3
  script = script
  None = None
  Runtimes = {r1, r2, r3}
  Pooled = {r1, r2}
  Mortal = {r2}
  Files = {script}
  MaxVersion = 3
  Marked <- SecondMarked
  Broken <- LaterBroken
  Walk <- OneFile
  Unreadable = {script}
  PoolSize = 3
  Ops = {"Write", "Create"}
INVARIANTS
  TypeOK
  OnlyTriedVersionsSpread
PROPERTIES
  CacheFollowsThePool
  NeverGoesBack
  ChangesArriveWhileUp
CHECK_DEADLOCK FALSE
