SPECIFICATION MCSpec
CONSTANTS
  u1 = u1
  g1 = g1
  g2 = g2
  none = none
  Actors = {u1}
  Jobs = {j1, j2}
  Runs = {w1, w2}
  Groups = {g1, g2}
  NoGroup = NoGroup
  NoJob = NoJob
  Role <- MCRole
  FirstLed <- MCFirstLed
  Services = {"identity", "contributions", "profiles"}
  MaxRows = 1
  Budgets <- MCBudgets
  p1 = p1
  w1 = w1
  w2 = w2
  c1 = c1
  c2 = c2
  reindex = reindex
  counts = counts
  JobBatches = {1, 2}
  NoJobBatch = 0
  JobOrder <- MCJobOrder
  JobSteps <- MCJobSteps
  Starters = {c1, c2}
  MaxAttempts = 2
  JobBudgets <- MCJobBudgets
  BadgeFiles = {1, 2}
  NoBadge = 0
  BadgeCallers = {c1}
  BadgeConsumers = {d1}
  BadgeWatchdog = watchdog
  BadgeBudgets <- MCBadgeBudgets
CHECK_DEADLOCK FALSE
INVARIANTS
  ExportsHold
  ForumsHold
  BatchesHold
  
PROPERTIES
  ExportsSettle
  ServicesSettle
