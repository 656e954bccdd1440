------------------------------ MODULE Planning ------------------------------
(***************************************************************************)
(* Planning of events: creation, editing, cancellation, completion, the    *)
(* deletion of a group, and the presenters and organizers designated, who  *)
(* are awarded when the event completes.  The event is one row, written    *)
(* whole; each designation is a row, and the event counts them.            *)
(*                                                                         *)
(*   event[e]   EVENT#e/META, NoEvent while e is not created               *)
(*   desig[e]   the DESIG# rows of e, by <<kind, user>>                    *)
(*   scopes     the SCOPES/REGISTRY item                                   *)
(*   who[u]     the member profile of u: role, and whether it has a name   *)
(*   call[c]    what c's request has still to do, one table access each,   *)
(*              the event it has read and the profiles it has looked up    *)
(*   awarded    idempotency keys <<e, user, kind>> published               *)
(*   ghosts     deleted: the group's deletion has been consumed; raced:    *)
(*              events of which two requests overlapped; healed: rows made *)
(*              eligible by a read; verified: Members found by a lookup;   *)
(*              died: a request stopped half way                           *)
(***************************************************************************)
EXTENDS Integers, Sequences, FiniteSets

CONSTANTS Events, Users, Externals, Inputs, Callers, LastDay, Budgets

VARIABLES event, desig, scopes, who, today, call, awarded,
          deleted, raced, healed, verified, died, budget

ghosts == <<deleted, raced, healed, verified, died>>
vars == <<event, desig, scopes, who, today, call, awarded, ghosts, budget>>

Scopes == {"COMMUNITY", "group"}
Days == 1 .. LastDay
NoEvent == [status |-> "absent"]
NoCall == [ops |-> <<>>, event |-> NoEvent, seen |-> <<>>]
Exists(e) == event[e] # NoEvent

Init ==
  /\ event = [e \in Events |-> NoEvent] /\ desig = [e \in Events |-> <<>>]
  /\ scopes = {} /\ who \in [Users -> [role : {"Member"}, named : BOOLEAN]]
  /\ today = 1 /\ call = [c \in Callers |-> NoCall] /\ awarded = {}
  /\ deleted = FALSE /\ raced = {} /\ healed = {} /\ verified = {} /\ died = FALSE
  /\ budget \in Budgets

-----------------------------------------------------------------------------
(* Requests. An operation names its event, those on a designee its kind and  *)
(* user, and holds the counts, row or keys of rows that the handler carries. *)
Op(do, e) == [do |-> do, event |-> e, kind |-> "presenter", user |-> "nobody",
               n |-> <<0, 0>>, row |-> <<>>, keys |-> {}]
On(do, e, k, u) == [Op(do, e) EXCEPT !.kind = k, !.user = u]

Idle(c) == call[c].ops = <<>>
\* The row an operation of one row holds.
Held(c) == Head(call[c].ops).row[1]
Does(c, what) == ~Idle(c) /\ Head(call[c].ops).do = what
Spend ==
  LET beside == IF \A c \in Callers : Idle(c) THEN 0 ELSE 1
  IN  /\ budget.requests > 0 /\ budget.beside >= beside
      /\ budget' = [budget EXCEPT !.requests = @ - 1, !.beside = @ - beside]

Start(c, ops, e) ==
  /\ Idle(c) /\ Spend
  /\ call' = [call EXCEPT ![c] = [NoCall EXCEPT !.ops = ops, !.event = event[e]]]
  /\ raced' = raced \cup {x \in {e} : \E o \in Callers \ {c} : ~Idle(o) /\ Head(call[o].ops).event = e}
  /\ UNCHANGED <<deleted, healed, verified, died>>

Continue(c, ops) == call' = [call EXCEPT ![c].ops = ops \o Tail(@)] /\ UNCHANGED budget

PutEvent(e, row) == event' = [event EXCEPT ![e] = row]

-----------------------------------------------------------------------------
(* DesignationService._replace: each kind is cleared and written again, the  *)
(* external presenters by position under the presenters, then the counts.    *)
Rows(e, in) ==
  [i \in DOMAIN in.presenters |-> On("designate", e, "presenter", in.presenters[i])]

Replace(e, in) ==
  << On("clear", e, "presenter", "nobody") >> \o Rows(e, in)
    \o [i \in 1 .. in.externals |-> On("external", e, "presenter", Externals[i])]
    \o << On("clear", e, "organizer", "nobody") >>
    \o [i \in DOMAIN in.organizers |-> On("designate", e, "organizer", in.organizers[i])]
    \o << [Op("counts", e) EXCEPT !.n = << Len(in.presenters) + in.externals, Len(in.organizers) >>] >>

\* create: the row, the registry, the designations of the form, if any.
Create(c, e, scope, day, described, in) ==
  /\ ~Exists(e) /\ \A f \in Events : ~Exists(f) => e <= f
  /\ \A d \in Callers : ~\E i \in DOMAIN call[d].ops : call[d].ops[i] = Op("put", e)
  /\ day > today
  /\ Idle(c) /\ Spend
  /\ call' = [call EXCEPT ![c] =
       [NoCall EXCEPT !.event = [status |-> "Upcoming", scope |-> scope, ends |-> day,
                                 described |-> described, presenters |-> 0, organizers |-> 0],
                      !.ops = << Op("put", e), Op("register", e) >> \o
                         IF in.presenters \o in.organizers = <<>> /\ in.externals = 0
                         THEN <<>> ELSE Replace(e, in)]]
  /\ UNCHANGED <<event, desig, scopes, who, today, awarded, ghosts>>

\* set: not of a completed event.
SetDesignations(c, e, in) ==
  /\ Exists(e) /\ event[e].status # "Completed"
  /\ Start(c, Replace(e, in), e)
  /\ UNCHANGED <<event, desig, scopes, who, today, awarded>>

\* clear_designations: the rows are listed, then deleted one by one.
Clear(c) ==
  /\ Does(c, "clear")
  /\ LET op == Head(call[c].ops)
         mine == {r \in DOMAIN desig[op.event] : r[1] = op.kind}
         order == CHOOSE f \in [1 .. Cardinality(mine) -> mine] :
                    \A i, j \in DOMAIN f : i # j => f[i] # f[j]
     IN  Continue(c, [i \in DOMAIN order |-> On("delete", op.event, order[i][1], order[i][2])])
  /\ UNCHANGED <<event, desig, scopes, who, today, awarded, ghosts>>

Delete(c) ==
  /\ Does(c, "delete")
  /\ LET op == Head(call[c].ops)
     IN  desig' = [desig EXCEPT ![op.event] = [r \in DOMAIN @ \ {<<op.kind, op.user>>} |-> @[r]]]
  /\ Continue(c, <<>>)
  /\ UNCHANGED <<event, scopes, who, today, awarded, ghosts>>

PutDesignation(e, k, u, row) ==
  desig' = [desig EXCEPT ![e] = [r \in DOMAIN @ \cup {<<k, u>>} |-> IF r = <<k, u>> THEN row ELSE @[r]]]

Unverified == [role |-> "unknown", named |-> FALSE]

Eligible(info) == info.role = "Member"

\* _resolve: the profile, looked up once in a request, or none if that fails.
Designate(c) ==
  /\ Does(c, "designate")
  /\ LET op == Head(call[c].ops)
         known == call[c].seen
     IN  \E info \in IF op.user \in DOMAIN known THEN {known[op.user]} ELSE {who[op.user], Unverified} :
           /\ PutDesignation(op.event, op.kind, op.user,
                [role |-> info.role, named |-> info.named, external |-> FALSE,
                 eligible |-> Eligible(info)])
           /\ call' = [call EXCEPT ![c].ops = Tail(@),
                                   ![c].seen = [u \in DOMAIN @ \cup {op.user} |->
                                                  IF u = op.user THEN info ELSE @[u]]]
           /\ verified' = verified \cup {u \in {op.user} : info.role = "Member"}
  /\ UNCHANGED <<event, scopes, who, today, awarded, deleted, raced, healed, died, budget>>

External(c) ==
  /\ Does(c, "external")
  /\ LET op == Head(call[c].ops)
     IN  PutDesignation(op.event, op.kind, op.user,
           [role |-> "unknown", named |-> TRUE, external |-> TRUE, eligible |-> FALSE])
  /\ Continue(c, <<>>)
  /\ UNCHANGED <<event, scopes, who, today, awarded, ghosts>>

\* set_designation_counts, of an event that exists.
SetCounts(c) ==
  /\ Does(c, "counts")
  /\ LET op == Head(call[c].ops)
     IN  PutEvent(op.event, [event[op.event] EXCEPT !.presenters = op.n[1], !.organizers = op.n[2]])
  /\ Continue(c, <<>>)
  /\ UNCHANGED <<desig, scopes, who, today, awarded, ghosts>>

-----------------------------------------------------------------------------
(* list_for, _refresh_unresolved: a row that shows an id for a name is       *)
(* looked up again and put back, with its role and, if that was not known,   *)
(* its eligibility.                                                          *)
ListDesignations(c, e) ==
  /\ Exists(e)
  /\ \E r \in DOMAIN desig[e] :
       /\ ~desig[e][r].external /\ ~desig[e][r].named
       /\ who[r[2]].named
       /\ Start(c, << [On("heal", e, r[1], r[2]) EXCEPT !.row = <<desig[e][r]>>] >>, e)
  /\ UNCHANGED <<event, desig, scopes, who, today, awarded>>

HealedRowEligible(row, info) == IF row.role = "unknown" THEN Eligible(info) ELSE row.eligible

Heal(c) ==
  /\ Does(c, "heal")
  /\ LET op == Head(call[c].ops)
         info == who[op.user]
     IN  /\ PutDesignation(op.event, op.kind, op.user,
              [Held(c) EXCEPT !.named = TRUE, !.role = info.role,
                              !.eligible = HealedRowEligible(Held(c), info)])
         /\ healed' = healed \cup {<<op.event, op.kind, op.user>>}
         /\ verified' = verified \cup {u \in {op.user} : info.role = "Member"}
  /\ Continue(c, <<>>)
  /\ UNCHANGED <<event, scopes, who, today, awarded, deleted, raced, died>>

-----------------------------------------------------------------------------
(* The event row: each handler writes back what it has read. *)
Edit(c, e) ==
  /\ Exists(e) /\ event[e].status = "Upcoming"
  /\ Start(c, << Op("edit", e) >>, e)
  /\ UNCHANGED <<event, desig, scopes, who, today, awarded>>

EditWrite(c) ==
  /\ Does(c, "edit")
  /\ \E day \in Days, described \in BOOLEAN : PutEvent(Head(call[c].ops).event,
       [call[c].event EXCEPT !.ends = day, !.described = described])
  /\ Continue(c, <<>>)
  /\ UNCHANGED <<desig, scopes, who, today, awarded, ghosts>>

\* _transition: only an upcoming event is cancelled or completed.
Cancel(c, e) ==
  /\ Exists(e) /\ event[e].status = "Upcoming"
  /\ Start(c, << Op("cancel", e) >>, e)
  /\ UNCHANGED <<event, desig, scopes, who, today, awarded>>

CancelWrite(c) ==
  /\ Does(c, "cancel")
  /\ PutEvent(Head(call[c].ops).event, [call[c].event EXCEPT !.status = "Cancelled"])
  /\ Continue(c, <<>>)
  /\ UNCHANGED <<desig, scopes, who, today, awarded, ghosts>>

\* complete_internal, by hand or after attendance: it is over and described.
MayComplete(row) == row.status = "Upcoming" /\ row.ends <= today /\ row.described

Complete(c, e) ==
  /\ Exists(e) /\ MayComplete(event[e])
  /\ Start(c, << Op("complete", e), Op("collect", e) >>, e)
  /\ UNCHANGED <<event, desig, scopes, who, today, awarded>>

CompleteWrite(c) ==
  /\ Does(c, "complete")
  /\ PutEvent(Head(call[c].ops).event, [call[c].event EXCEPT !.status = "Completed"])
  /\ Continue(c, <<>>)
  /\ UNCHANGED <<desig, scopes, who, today, awarded, ghosts>>

\* Mutant: only the presenters are awarded.
EligiblePresenters(e) == {r \in DOMAIN desig[e] : desig[e][r].eligible /\ r[1] = "presenter"}

EligibleRows(e) == {r \in DOMAIN desig[e] : desig[e][r].eligible}

\* award_on_completion lists the rows and publishes one award for each.
Collect(c) ==
  /\ Does(c, "collect")
  /\ LET e == Head(call[c].ops).event
     IN  Continue(c, << [Op("publish", e) EXCEPT !.keys = EligibleRows(e)] >>)
  /\ UNCHANGED <<event, desig, scopes, who, today, awarded, ghosts>>

Publish(c) ==
  /\ Does(c, "publish")
  /\ LET op == Head(call[c].ops)
     IN  awarded' = awarded \cup {<<op.event, r[2], r[1]>> : r \in op.keys}
  /\ Continue(c, <<>>)
  /\ UNCHANGED <<event, desig, scopes, who, today, ghosts>>

-----------------------------------------------------------------------------
\* put_event and register_scope of a creation.
PutNew(c) ==
  /\ Does(c, "put") /\ PutEvent(Head(call[c].ops).event, call[c].event)
  /\ Continue(c, <<>>)
  /\ UNCHANGED <<desig, scopes, who, today, awarded, ghosts>>

Register(c) ==
  /\ Does(c, "register") /\ scopes' = scopes \cup {call[c].event.scope}
  /\ Continue(c, <<>>)
  /\ UNCHANGED <<event, desig, who, today, awarded, ghosts>>

(* cancel_group_events: the page of the group's upcoming events is read, and *)
(* each is written back cancelled.                                           *)
GroupDeleted(c) ==
  /\ ~deleted /\ Idle(c)
  /\ LET page == {e \in Events : Exists(e) /\ event[e].status = "Upcoming" /\ event[e].scope = "group"}
         order == CHOOSE f \in [1 .. Cardinality(page) -> page] :
                    \A i, j \in DOMAIN f : i < j => f[i] < f[j]
     IN  /\ call' = [call EXCEPT ![c].ops =
                       [i \in DOMAIN order |-> [Op("close", order[i]) EXCEPT !.row = <<event[order[i]]>>]]]
         /\ raced' = raced \cup {e \in Events : \E o \in Callers : ~Idle(o) /\ Head(call[o].ops).event = e}
  /\ deleted' = TRUE
  /\ UNCHANGED <<event, desig, scopes, who, today, awarded, healed, verified, died, budget>>

Close(c) ==
  /\ Does(c, "close")
  /\ PutEvent(Head(call[c].ops).event, [Held(c) EXCEPT !.status = "Cancelled"])
  /\ Continue(c, <<>>)
  /\ UNCHANGED <<desig, scopes, who, today, awarded, ghosts>>

-----------------------------------------------------------------------------
(* Time, the profiles, and a request that stops. *)
Tick ==
  /\ today < LastDay /\ today' = today + 1
  /\ UNCHANGED <<event, desig, scopes, who, call, awarded, ghosts, budget>>

ProfileChanges(u) ==
  /\ budget.profiles > 0 /\ budget' = [budget EXCEPT !.profiles = @ - 1]
  /\ \E role \in {"Member", "UserGroupLeader"} : who' = [who EXCEPT ![u] = [role |-> role, named |-> TRUE]]
  /\ UNCHANGED <<event, desig, scopes, today, call, awarded, ghosts>>

Die(c) ==
  /\ ~Idle(c) /\ budget.deaths > 0 /\ budget' = [budget EXCEPT !.deaths = @ - 1]
  /\ call' = [call EXCEPT ![c] = NoCall] /\ died' = TRUE
  /\ UNCHANGED <<event, desig, scopes, who, today, awarded, deleted, raced, healed, verified>>

Handle(c) ==
  \/ \E e \in Events :
       \/ \E scope \in Scopes, day \in Days, described \in BOOLEAN, in \in Inputs :
            Create(c, e, scope, day, described, in)
       \/ \E in \in Inputs : SetDesignations(c, e, in)
       \/ ListDesignations(c, e) \/ Edit(c, e) \/ Cancel(c, e) \/ Complete(c, e)
  \/ GroupDeleted(c)

Step(c) ==
  \/ PutNew(c) \/ Register(c) \/ Clear(c) \/ Delete(c) \/ Designate(c) \/ External(c)
  \/ SetCounts(c) \/ Heal(c) \/ EditWrite(c) \/ CancelWrite(c) \/ CompleteWrite(c)
  \/ Collect(c) \/ Publish(c) \/ Close(c)

Next ==
  \/ \E c \in Callers : Handle(c) \/ Step(c) \/ Die(c)
  \/ Tick
  \/ \E u \in Users : ProfileChanges(u)

Spec == Init /\ [][Next]_vars

-----------------------------------------------------------------------------
(* query_all_scopes_page and stats_by_group: what a Community Leader reads.  *)
Listed == {e \in Events : Exists(e) /\ event[e].scope \in scopes \cup {"COMMUNITY"}}
CountFor(scope) == Cardinality({e \in Events : Exists(e) /\ event[e].scope = scope
                                               /\ event[e].status \in {"Upcoming", "Completed"}})

TypeOK ==
  /\ \A e \in Events :
       /\ event[e] = NoEvent \/ event[e] \in
            [status : {"Upcoming", "Completed", "Cancelled"}, scope : Scopes, ends : Days,
             described : BOOLEAN, presenters : Nat, organizers : Nat]
       /\ \A r \in DOMAIN desig[e] :
            desig[e][r] \in [role : {"Member", "UserGroupLeader", "unknown"},
                             named : BOOLEAN, external : BOOLEAN, eligible : BOOLEAN]
  /\ scopes \subseteq Scopes

Quiet == \A c \in Callers : Idle(c)
Settled(e) == Exists(e) /\ Quiet /\ ~died /\ e \notin raced

\* An event counts the presenters and the organizers it has rows for, whatever has
\* been written to its row in between.
CountsMatchRows ==
  \A e \in Events : Settled(e) =>
    /\ event[e].presenters = Cardinality({r \in DOMAIN desig[e] : r[1] = "presenter"})
    /\ event[e].organizers = Cardinality({r \in DOMAIN desig[e] : r[1] = "organizer"})

\* Nobody earns who was not found to be a Member by a lookup that succeeded, even if a
\* failed one was healed later (BR-P3, "fail-closed for points").
OnlyMembersEarn == \A a \in awarded : a[2] \in verified

\* A completed event has awarded each designee it shows as eligible, unless he was
\* healed by a later read; it is over, and one that is not completed awarded none.
DesigneesAreAwarded ==
  \A e \in Events : Settled(e) =>
    /\ event[e].status = "Completed" =>
         \A r \in DOMAIN desig[e] :
           desig[e][r].eligible /\ <<e, r[1], r[2]>> \notin healed => <<e, r[2], r[1]>> \in awarded
    /\ (\E a \in awarded : a[1] = e) => event[e].status = "Completed" /\ event[e].ends <= today

\* What the Community Leader's listing shows is every event, and the bars of the
\* dashboard sum to those of them that count.
EveryEventIsListed ==
  Quiet /\ ~died =>
    /\ Listed = {e \in Events : Exists(e)}
    /\ CountFor("group") + CountFor("COMMUNITY") = Cardinality({e \in Listed : event[e].status # "Cancelled"})

=============================================================================
