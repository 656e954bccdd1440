SPECIFICATION MCSpec
CONSTANTS
  m1 = m1
  g1 = g1
  g2 = g2
  Community = Community
  wide = wide
  local = local
  w1 = w1
  w2 = w2
  q1 = q1
  i1 = i1
  i2 = i2
  NoId = NoId
  l1 = l1
  cert = cert
  f1 = f1
  byFile = byFile
  byLink = byLink
  sweep1 = sweep1
  sweep2 = sweep2
  Certs = {cert}
  Members = {m1}
  Files = {f1}
  NoFile = NoFile
  NoClaim = NoClaim
  Claims = {byFile, byLink}
  For <- MCDue
  Callers = {c1}
  Consumers = {d1}
  Watchdogs = {watchdog}
  Sweepers = {sweep1, sweep2}
  NoticeDays = 1
  LastDay = 2
  MaxCrashes = 1
CHECK_DEADLOCK FALSE
INVARIANTS
  ExpiringIsIndexed
