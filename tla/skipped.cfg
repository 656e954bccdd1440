SPECIFICATION MCSpec
CONSTANTS
  m1 = m1
  m2 = m2
  Members = {m1, m2}
  g1 = g1
  g2 = g2
  cl = cl
  ugl = ugl
  Groups = {g1}
  Quarters = {q1}
  Ids = {i1, i2, i3}
  NoId = NoId
  Deltas = {5}
  Callers = {cl, ugl}
  Scope <- MCScope
  BatchSize = 2
  MaxCrashes = 0
  MaxThrottles = 0
CHECK_DEADLOCK FALSE
INVARIANTS
  NothingSkipped
