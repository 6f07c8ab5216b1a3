CONSTANTS
  Members = {m1}
  Servers = {s1}
  Role = Role
  Sessions = {x1}
  Requests = {q1}
  MaxMinutes = 1
SPECIFICATION Spec
INVARIANT OutlivesUntilSweep
