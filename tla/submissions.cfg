SPECIFICATION FairSpec
CONSTANTS
  m1 = m1
  g1 = g1
  a1 = a1
  Members = {m1}
  Groups = {g1}
  Activities = {a1}
  Subs = {s1, s2}
  For <- MCFor
  Claims <- MCClaims
  Callers = {c1, c2}
  Consumers = {w1}
  MaxMoves = 2
  MaxCopies = 1
  MaxCrashes = 1
  MaxErrors = 1
CHECK_DEADLOCK FALSE
INVARIANTS
  CreditFollowsApproval
  NoticesAreTrue
PROPERTIES
  DecisionStands
  PendingLeaverDecided
