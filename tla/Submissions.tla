---------------------------- MODULE Submissions ----------------------------
(***************************************************************************)
(* Evidence submissions of contributions-scoring: a member submits,        *)
(* withdraws; leaders approve (one ledger entry) or reject; deactivating   *)
(* or deleting an activity, and leaving the group, reject what is pending. *)
(*                                                                         *)
(*   status[s]    SUB#s, whose only conditional write is                   *)
(*                transition_submission                                    *)
(*   credited[s]  number of ledger entries with sourceRef s                *)
(*   notices[s]   outcomes published for s on the event bus                *)
(*   activity[a]  FRAMEWORK/ACT#a                                          *)
(*   groups[m]    the groups of m, at Identity                             *)
(*   queue, idem  MemberLeft events to consume; those already claimed      *)
(*   call[p]      the API request or consumer invocation p is running      *)
(***************************************************************************)
EXTENDS Integers, FiniteSets

CONSTANTS Members, Groups, Activities,
          Subs,          \* submission ids that new_id may draw
          For,           \* For[s] = [member, group, activity] of submission s
          Claims,        \* Claims[m]: groups in m's JWT, as of the login
          Callers,       \* concurrent API requests
          Consumers,     \* concurrent consumer invocations
          MaxMoves,      \* bound on joins and leaves
          MaxCopies,     \* bound on redelivered events
          MaxCrashes,    \* bound on invocations that die
          MaxErrors      \* bound on transient store errors

ASSUME ForAssumption ==
  For \in [Subs -> [member : Members, group : Groups, activity : Activities]]
ASSUME ClaimsAssumption == Claims \in [Members -> SUBSET Groups]
ASSUME ProcessAssumption == Callers \cap Consumers = {}
ASSUME BoundAssumption == {MaxMoves, MaxCopies, MaxCrashes, MaxErrors} \subseteq Nat

VARIABLES status, credited, notices, activity, groups, queue, idem, call, budget

submission == <<status, credited, notices>>
identity == <<groups, queue>>
vars == <<status, credited, notices, activity, groups, queue, idem, call, budget>>

Leaves == [member : Members, group : Groups, id : 1..MaxMoves]

Status == {"none", "Pending", "Approved", "Rejected", "Withdrawn"}
Idle == [pc |-> "idle", on |-> "nothing", todo |-> {}]

Enter(p, pc, on, todo) == call' = [call EXCEPT ![p] = [pc |-> pc, on |-> on, todo |-> todo]]
Return(p) == call' = [call EXCEPT ![p] = Idle]

\* A bound is a budget: an action that needs one uses it up.
Spend(what) == budget[what] > 0 /\ budget' = [budget EXCEPT ![what] = @ - 1]

Init ==
  /\ status = [s \in Subs |-> "none"]
  /\ credited = [s \in Subs |-> 0]
  /\ notices = [s \in Subs |-> {}]
  /\ activity = [a \in Activities |-> "active"]
  /\ groups = Claims
  /\ queue = {}
  /\ idem = {}
  /\ call = [p \in Callers \cup Consumers |-> Idle]
  /\ budget = [move |-> MaxMoves, copy |-> MaxCopies, crash |-> MaxCrashes,
               error |-> MaxErrors]

-----------------------------------------------------------------------------
(* The member: submit and withdraw. *)

\* The groups come from Identity, or from the claims when the lookup fails.
SubmitCheck(c, s) ==
  /\ call[c].pc = "idle"
  /\ status[s] = "none"
  /\ \A p \in Callers : ~ (call[p].pc = "valid" /\ call[p].on = s)
  /\ For[s].group \in groups[For[s].member] \cup Claims[For[s].member]
  /\ activity[For[s].activity] = "active"
  /\ Enter(c, "valid", s, {})
  /\ UNCHANGED <<submission, activity, identity, idem, budget>>

SubmitPut(c) ==
  /\ call[c].pc = "valid"
  /\ status' = [status EXCEPT ![call[c].on] = "Pending"]
  /\ Return(c)
  /\ UNCHANGED <<credited, notices, activity, identity, idem, budget>>

\* Mutant: the status is written unconditionally.
TransitionAnyway(s, new) == status[s] # "none" /\ status' = [status EXCEPT ![s] = new]

\* transition_submission: only from Pending, else 409 and nothing is written.
Transition(s, new) == status[s] = "Pending" /\ status' = [status EXCEPT ![s] = new]

Withdraw(s) ==
  /\ Transition(s, "Withdrawn")
  /\ UNCHANGED <<credited, notices, activity, identity, idem, call, budget>>

-----------------------------------------------------------------------------
(* The leader: decide, one step per store access or publication. *)

Approve(c, s) ==
  /\ call[c].pc = "idle"
  /\ Transition(s, "Approved")
  /\ Enter(c, "approved", s, {})
  /\ UNCHANGED <<credited, notices, activity, identity, idem, budget>>

Reject(c, s) ==
  /\ call[c].pc = "idle"
  /\ Transition(s, "Rejected")
  /\ Enter(c, "rejected", s, {})
  /\ UNCHANGED <<credited, notices, activity, identity, idem, budget>>

\* The points are looked up after the transition: no activity, no entry (500).
Credit(c) ==
  /\ call[c].pc = "approved"
  /\ IF activity[For[call[c].on].activity] = "deleted"
     THEN Return(c) /\ UNCHANGED credited
     ELSE /\ credited' = [credited EXCEPT ![call[c].on] = @ + 1]
          /\ call' = [call EXCEPT ![c].pc = "credited"]
  /\ UNCHANGED <<status, notices, activity, identity, idem, budget>>

Publish(s, outcome) == notices' = [notices EXCEPT ![s] = @ \cup {outcome}]

Notify(c) ==
  /\ call[c].pc \in {"credited", "rejected"}
  /\ Publish(call[c].on, IF call[c].pc = "credited" THEN "approved" ELSE "rejected")
  /\ Return(c)
  /\ UNCHANGED <<status, credited, activity, identity, idem, budget>>

-----------------------------------------------------------------------------
(* The community leader edits the framework. *)

Reactivate(a) ==
  /\ activity[a] = "inactive"
  /\ activity' = [activity EXCEPT ![a] = "active"]
  /\ UNCHANGED <<submission, identity, idem, call, budget>>

\* edit_activity with active = false: first the row, then the cascade.
Deactivate(c, a) ==
  /\ call[c].pc = "idle" /\ activity[a] # "deleted"
  /\ activity' = [activity EXCEPT ![a] = "inactive"]
  /\ Enter(c, "deactivate", a, {})
  /\ UNCHANGED <<submission, identity, idem, budget>>

\* delete_activity: first the cascade, then the row.
Delete(c, a) ==
  /\ call[c].pc = "idle" /\ activity[a] # "deleted"
  /\ Enter(c, "delete", a, {})
  /\ UNCHANGED <<submission, activity, identity, idem, budget>>

ListActivity(c) ==
  /\ call[c].pc \in {"deactivate", "delete"}
  /\ Enter(c, IF call[c].pc = "delete" THEN "purge" ELSE "sweep", call[c].on,
           {s \in Subs : status[s] = "Pending" /\ For[s].activity = call[c].on})
  /\ UNCHANGED <<submission, activity, identity, idem, budget>>

EndCascade(c) ==
  /\ call[c].pc \in {"sweep", "purge"} /\ call[c].todo = {}
  /\ activity' = IF call[c].pc = "purge"
                 THEN [activity EXCEPT ![call[c].on] = "deleted"] ELSE activity
  /\ Return(c)
  /\ UNCHANGED <<submission, identity, idem, budget>>

-----------------------------------------------------------------------------
(* Identity, and MembershipConsumer on MemberLeftGroup. *)

Join(m, g) ==
  /\ g \notin groups[m]
  /\ Spend("move")
  /\ groups' = [groups EXCEPT ![m] = @ \cup {g}]
  /\ UNCHANGED <<submission, activity, queue, idem, call>>

Leave(m, g) ==
  /\ g \in groups[m]
  /\ Spend("move")
  /\ groups' = [groups EXCEPT ![m] = @ \ {g}]
  /\ queue' = queue \cup {[member |-> m, group |-> g, id |-> budget.move]}
  /\ UNCHANGED <<submission, activity, idem, call>>

\* SQS delivers a message again.
Redeliver(e) ==
  /\ e \in idem \ queue
  /\ Spend("copy")
  /\ queue' = queue \cup {e}
  /\ UNCHANGED <<submission, activity, groups, idem, call>>

\* run_once: a claimed event is dropped, any other is claimed.
Consume(w, e) ==
  /\ call[w].pc = "idle" /\ e \in queue
  /\ queue' = queue \ {e}
  /\ idem' = idem \cup {e}
  /\ IF e \in idem THEN UNCHANGED call ELSE Enter(w, "left", e, {})
  /\ UNCHANGED <<submission, activity, groups, budget>>

ListMember(w) ==
  /\ call[w].pc = "left"
  /\ Enter(w, "sweep", call[w].on,
           {s \in Subs : /\ status[s] = "Pending"
                         /\ For[s].member = call[w].on.member
                         /\ For[s].group = call[w].on.group})
  /\ UNCHANGED <<submission, activity, identity, idem, budget>>

EndConsume(w) ==
  /\ call[w].pc = "sweep" /\ call[w].todo = {}
  /\ Return(w)
  /\ UNCHANGED <<submission, activity, identity, idem, budget>>

-----------------------------------------------------------------------------
(* Both cascades, submission by submission. *)

Tick(p, s) == call' = [call EXCEPT ![p].todo = @ \ {s}]

\* Mutant: the rejection is published whatever became of the transition.
RejectAndTell(p, s) ==
  /\ s \in call[p].todo
  /\ Transition(s, "Rejected") \/ (status[s] # "Pending" /\ UNCHANGED status)
  /\ Publish(s, "rejected")
  /\ Tick(p, s)
  /\ UNCHANGED <<credited, activity, identity, idem, budget>>

\* Mutant: the cascade ends at the first conflict.
RejectOrStop(p, s) ==
  /\ s \in call[p].todo
  /\ \/ Transition(s, "Rejected") /\ Publish(s, "rejected") /\ Tick(p, s)
     \/ /\ status[s] # "Pending" /\ UNCHANGED <<status, notices>>
        /\ call' = [call EXCEPT ![p].todo = {}]
  /\ UNCHANGED <<credited, activity, identity, idem, budget>>

RejectNext(p, s) ==
  /\ s \in call[p].todo
  /\ \/ Transition(s, "Rejected") /\ Publish(s, "rejected")
     \/ status[s] # "Pending" /\ UNCHANGED <<status, notices>>
  /\ Tick(p, s)
  /\ UNCHANGED <<credited, activity, identity, idem, budget>>

\* Any exception on one submission is logged and the loop goes on.
SkipNext(p, s) ==
  /\ s \in call[p].todo
  /\ Spend("error")
  /\ Tick(p, s)
  /\ UNCHANGED <<submission, activity, identity, idem>>

\* The invocation dies where it is.  A consumer's message is delivered again.
Die(p) ==
  /\ call[p].pc # "idle"
  /\ Spend("crash")
  /\ Return(p)
  /\ queue' = IF p \in Consumers THEN queue \cup {call[p].on} ELSE queue
  /\ UNCHANGED <<submission, activity, groups, idem>>

-----------------------------------------------------------------------------
Request(c) == SubmitPut(c) \/ Credit(c) \/ Notify(c) \/ ListActivity(c) \/ EndCascade(c)

Work(w) == \/ \E e \in queue : Consume(w, e)
           \/ ListMember(w)
           \/ EndConsume(w)
           \/ \E s \in Subs : RejectNext(w, s)

Next ==
  \/ \E s \in Subs : Withdraw(s)
  \/ \E c \in Callers, s \in Subs : SubmitCheck(c, s) \/ Approve(c, s) \/ Reject(c, s)
  \/ \E c \in Callers, a \in Activities : Deactivate(c, a) \/ Delete(c, a)
  \/ \E a \in Activities : Reactivate(a)
  \/ \E c \in Callers : Request(c) \/ \E s \in Subs : RejectNext(c, s)
  \/ \E m \in Members, g \in Groups : Join(m, g) \/ Leave(m, g)
  \/ \E e \in idem : Redeliver(e)
  \/ \E w \in Consumers : Work(w)
  \/ \E p \in Callers \cup Consumers : Die(p) \/ \E s \in Subs : SkipNext(p, s)

Spec == Init /\ [][Next]_vars

\* Lambda polls a queue that has messages and runs an invocation to its end.
FairSpec == Spec /\ \A w \in Consumers : WF_vars(Work(w))

-----------------------------------------------------------------------------
Approving(s) == \E c \in Callers : call[c].pc = "approved" /\ call[c].on = s

TypeOK ==
  /\ status \in [Subs -> Status]
  /\ credited \in [Subs -> Nat]
  /\ notices \in [Subs -> SUBSET {"approved", "rejected"}]
  /\ activity \in [Activities -> {"active", "inactive", "deleted"}]
  /\ groups \in [Members -> SUBSET Groups]
  /\ queue \subseteq Leaves /\ idem \subseteq Leaves
  /\ \A c \in Callers :
       /\ call[c].pc \in {"valid", "approved", "credited", "rejected"} => call[c].on \in Subs
       /\ call[c].pc \in {"deactivate", "delete", "sweep", "purge"} =>
            call[c].on \in Activities
  /\ \A w \in Consumers : /\ call[w].pc \in {"idle", "left", "sweep"}
                          /\ call[w].pc # "idle" => call[w].on \in idem

\* Points are given for approved submissions only and once each, whatever leaders,
\* cascades and the member do to the submission at the same time (transition_submission,
\* "Status change conditional on current state (409 on race)").
CreditedOnlyOnce ==
  \A s \in Subs : credited[s] + (IF Approving(s) THEN 1 ELSE 0)
                    <= (IF status[s] = "Approved" THEN 1 ELSE 0)

\* What the bus says of a submission is what became of it: an approval notice
\* has its ledger entry, and no submission is announced both ways (_notify_decision).
NoticesAreTrue ==
  \A s \in Subs : /\ "approved" \in notices[s] => credited[s] = 1
                  /\ "rejected" \in notices[s] => status[s] = "Rejected"

\* A decision is final.
DecisionStands ==
  [][\A s \in Subs : status[s] \in {"Approved", "Rejected", "Withdrawn"}
                       => status'[s] = status[s]]_vars

\* A submission still pending when its member's departure is consumed is decided
\* in the end, by the consumer if by nobody else, unless an invocation dies or a
\* store access fails (MembershipConsumer, BR-E7).
PendingLeaverDecided ==
  \A s \in Subs :
    (/\ status[s] = "Pending"
     /\ \E e \in queue \ idem : e.member = For[s].member /\ e.group = For[s].group)
      ~> \/ status[s] # "Pending"
         \/ budget.crash < MaxCrashes \/ budget.error < MaxErrors

\* An approved submission has its ledger entry, or a request is about to write it,
\* unless that request died or found the activity deleted (submission_service:
\* "approve (ledger entry)"): a deactivation in between takes nothing away.
ApprovedHasEntry ==
  \A s \in Subs : status[s] = "Approved" =>
    \/ credited[s] = 1
    \/ Approving(s)
    \/ activity[For[s].activity] = "deleted"
    \/ budget.crash < MaxCrashes

\* A submission is credited when it is approved, and only then.
CreditFollowsApproval == CreditedOnlyOnce /\ ApprovedHasEntry
=============================================================================
