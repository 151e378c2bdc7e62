CONSTANTS
  w1 = w1
  w2 = w2
  u1 = u1
  u2 = u2
  g1 = g1
  g2 = g2
  g3 = g3
  r1 = r1
  r2 = r2
  None = None
  Workers = {w1, w2}
  Users = {u1, u2}
  Lone = {u1}
  MaxLife = 2
  MaxRefresh = 2
  Askers = {a1}
  Collectors = {c1}
  PinnedGens = {g1, g2, g3}
  Revisions = {r1, r2}
  Revision <- TwoOfThree
  First = g1
  PinLife = 1
  Lease = 2
  MaxTime = 2
  Edges = {u1, u2}
  MaxEpoch = 3
  MaxAttempt = 2
  MaxCleaning = 1
SPECIFICATION Spec
SYMMETRY Symmetry
INVARIANTS
  TypeOK
  OneOwner
  ActiveHasTree
  PinnedStays
  GraphWhole
PROPERTIES
  PurgeSparesNewRefresh
CHECK_DEADLOCK FALSE
