CONSTANTS
  r1 = r1
  r2 = r2
  r3 = r3
  r4 = r4
  Runs = {r1, r2, r3, r4}
  NoRun = NoRun
  Waiters = {}
  Overrunners = {}
SYMMETRY Symmetry
SPECIFICATION LockSpec
INVARIANTS
  MutualExclusion
CHECK_DEADLOCK FALSE
