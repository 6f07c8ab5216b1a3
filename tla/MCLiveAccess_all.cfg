CONSTANTS
  Members = {m1}
  Servers = {s1, s2}
  Role = Role
  Sessions = {x1}
  Requests = {q1}
  MaxMinutes = 2
SPECIFICATION FairSpec
INVARIANTS TypeOK AttachedInReach PendingOnlyActive
PROPERTIES NeverShortened KeepsWhatIsReached UnreachedEnds
