------------------------------ MODULE MCLedger ------------------------------
(* Small instances of PointLedger: a Community Leader cl may write every      *)
(* group, a group leader ugl only g1.  Either one of them writes entries of   *)
(* two members, whose rollups share rows, or both reverse entries of one.     *)
EXTENDS PointLedger, TLC

CONSTANTS m1, m2, g1, g2, cl, ugl

VARIABLE part

MCScope == [c \in Callers |-> IF c = cl THEN Groups ELSE {g1}]

MCInit == Init /\ part \in {"rollups", "reversals"}

MCNext ==
  /\ Next /\ UNCHANGED part
  /\ part = "rollups" => call'[ugl] = NoCall
  /\ part = "reversals" => log'[m2] = <<>> /\ faults'.throttle = 0

MCSpec == MCInit /\ [][MCNext]_<<part, vars>>

IdSymmetry == Permutations(Ids)
=============================================================================
