SPECIFICATION MCSpec
CONSTANTS
  c1 = c1
  c2 = c2
  m1 = m1
  m2 = m2
  l1 = l1
  k1 = k1
  g1 = g1
  g2 = g2
  none = none
  People = {m1, m2, l1}
  NoOne = NoOne
  Author = m1
  Role <- MCRole
  Home <- MCHome
  Replies = {1, 2, 3}
  Kinds = {"like", "heart"}
  Reports = {1, 2}
  Callers = {c1, c2}
  HourlyLimit = 1
  Hours = 2
  Budgets <- MCBudgets
  r1 = r1
  r2 = r2
  answerer = answerer
  s1 = s1
  s2 = s2
  key = key
  AnswerReplies = {r1, r2}
  NoAnswer = none
  AnswerMembers = {r1, r2}
  AnswerPoints = 2
  AnswerCallers = {answerer}
  AnswerWorkers = {c1, c2}
  MaxAnswersSent = 3
  MaxAnswerCopies = 1
  MaxAnswerCrashes = 1
SYMMETRY Alike
CHECK_DEADLOCK FALSE
INVARIANTS
  
  ModerationHolds
  
  ShoutoutsHold
  
  FilesHold
  WalkIsComplete
