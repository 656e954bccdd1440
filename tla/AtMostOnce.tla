----------------------------- MODULE AtMostOnce -----------------------------
(***************************************************************************)
(* What every "do this once" protocol of the portal promises.              *)
(*                                                                         *)
(* A key (the id of an event, of a submission, of the ledger entry to be   *)
(* reversed, of a stream record) is first CLAIMED by a conditional write,  *)
(* and only the claimer produces the key's effect.  Nothing takes a claim  *)
(* back: a claimer that dies or fails loses the effect.  The promise is    *)
(* therefore "at most once", never "exactly once".  PointLedger's reversal *)
(* protocol implements this module under a refinement mapping.             *)
(***************************************************************************)
CONSTANT Keys

VARIABLE phase       \* [Keys -> Phases]

Phases == {"open", "claimed", "done", "lost"}

\* The transitions a key's phase may make.  open -> done is a claim and its
\* effect written by one transaction.
Moves == { <<"open", "claimed">>, <<"claimed", "done">>,
           <<"claimed", "lost">>, <<"open", "done">> }

Init == phase = [k \in Keys |-> "open"]

Move(k) == \E to \in Phases :
             /\ <<phase[k], to>> \in Moves
             /\ phase' = [phase EXCEPT ![k] = to]

Next == \E k \in Keys : Move(k)

Spec == Init /\ [][Next]_phase
=============================================================================
