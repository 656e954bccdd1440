--------------------------- MODULE MCSubmissions ---------------------------
(* Small instances of Submissions: every submission is of one member, in one   *)
(* group, for one activity.                                                   *)
EXTENDS Submissions

CONSTANTS m1, g1, a1

MCFor == [s \in Subs |-> [member |-> m1, group |-> g1, activity |-> a1]]
MCClaims == [m \in Members |-> Groups]
=============================================================================
