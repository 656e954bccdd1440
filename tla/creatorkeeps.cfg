SPECIFICATION MCSpec
CONSTANTS
  c1 = c1
  c2 = c2
  m1 = m1
  l1 = l1
  k1 = k1
  a1 = a1
  g1 = g1
  g2 = g2
  NoGroup = NoGroup
  Emails = {mail}
  Challenges = {h1, h2}
  NoOne = NoOne
  Callers = {c1, c2}
  IntervalDays = 2
  MaxAttempts = 2
  LastDay = 3
  Budgets <- MCBudgets
  u1 = u1
  u2 = u2
  d1 = d1
  d2 = d2
  r1 = r1
  r2 = r2
  AccessGroups = {1, 2}
  AccessCommunity = AccessCommunity
  AccessNoGroup = NoGroup
  AccessRefused = AccessRefused
  AccessEvents = {v1}
  AccessBudgets <- MCLongBudgets
  Admins = {c1, c2}
  Containers = {"k1"}
  Templates = {1, 2}
  Unset = 9
  Default <- MCDefault
  EnvDefault <- MCEnv
  Ttl = 1
  SaveBudgets <- MCSaveBudgets
CHECK_DEADLOCK FALSE
INVARIANTS
  CreatorKeepsRights
