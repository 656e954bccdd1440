SPECIFICATION MCSpec
CONSTANTS
  c1 = c1
  c2 = c2
  u1 = u1
  u2 = u2
  ld = ld
  ga = ga
  gb = gb
  x1 = x1
  Users = {u1, u2}
  Designees = Designees
  Lists <- MCLists
  Callers = {c1, c2}
  LastDay = 2
  MaxRequests = 3
  MaxBatches = 1
  MaxCrashes = 1
  Community = Community
  none = none
  r1 = r1
  r2 = r2
  n1 = n1
  m1 = m1
  m2 = m2
  l1 = l1
  t1 = t1
  IdeaIds = {1, 2}
  IdeaGroupsOf <- MCGroupsOf
  IdeaLedBy <- MCLedBy
  IdeaCallers = {c1, c2}
  MaxIdeaRequests = 4
  MaxIdeaDeaths = 1
CHECK_DEADLOCK FALSE
INVARIANTS
  CompletedIsAwarded
