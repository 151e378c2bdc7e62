CONSTANTS
  w1 = w1
  w2 = w2
  u1 = u1
  u2 = u2
  None = None
  Workers = {w1, w2}
  Users = {u1, u2}
  Commits = {c1}
  Gens = {g1, g2}
  MaxEpoch = 2
  User <- TwoUsers
  LEASE = 2
  HEARTBEAT_STALE = 0
SPECIFICATION Spec
INVARIANT
  ActiveIsReady
