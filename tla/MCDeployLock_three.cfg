CONSTANTS
  r1 = r1
  r2 = r2
  r3 = r3
  Runs = {r1, r2, r3}
  NoRun = NoRun
  Waiters = {r2, r3}
  Overrunners = {r1}
SPECIFICATION FairSpec
INVARIANTS
  LockTypeOK
  MutualExclusion
  SingleCopy
PROPERTIES
  DeadLockTakenOver
CHECK_DEADLOCK FALSE
