-------------------------- MODULE EventAttendance --------------------------
(***************************************************************************)
(* One event of the events service: members answer it, managers edit,      *)
(* cancel and complete it and record who came, by hand, from a CSV file or *)
(* from a fetched Teams batch.  The event is one row, which editing,       *)
(* cancelling and completing write back whole as they have read it, while  *)
(* answers and attendance move counters in it.                             *)
(*                                                                         *)
(*   event      EVENT#/META: status, the day it ends, rsvpYesCount and     *)
(*              attendedCount                                              *)
(*   rsvp[u]    EVENT#/RSVP#u: the response ("absent": no row), attended   *)
(*   applied    the Teams batches in fetchedAt order: appliedAt is set     *)
(*   told[x]    AttendanceRecorded published for the member x, or for      *)
(*              x = Designees the award events of a completion             *)
(*   call[c]    the request (or GroupSoftDeleted event) that c is running  *)
(*   overlap    two requests have been under way at once                   *)
(***************************************************************************)
EXTENDS Integers, Sequences, FiniteSetsExt

CONSTANTS Users, Designees,
          Lists,          \* attendee lists that managers may submit
          Callers,
          LastDay,        \* bound on the clock
          MaxRequests, MaxBatches, MaxCrashes

ASSUME UsersAssumption == IsFiniteSet(Users) /\ Designees \notin Users
ASSUME ListsAssumption == Lists \subseteq Seq(Users)
ASSUME BoundAssumption == {LastDay, MaxRequests, MaxBatches, MaxCrashes} \subseteq Nat

VARIABLES event, rsvp, applied, told, call, today, budget, overlap

rows == <<event, rsvp, applied>>
vars == <<rows, told, call, today, budget, overlap>>

Days == 1..LastDay
Event == [status : {"Upcoming", "Completed", "Cancelled"}, ends : Days,
          yes : Int, attended : Int]
Rsvp == [response : {"absent", "yes", "no"}, attended : BOOLEAN]

Nobody == [response |-> "absent", attended |-> FALSE]

\* What a handler holds: the event it has read, its attendee list, the members with a
\* row, the members newly marked; for an answer, who answers what and the row read.
Unread == [status |-> "none", ends |-> 0, yes |-> 0, attended |-> 0]
Idle == [pc |-> "idle", event |-> Unread, list |-> <<>>, known |-> {}, fresh |-> <<>>,
         user |-> "none", answer |-> "none", row |-> Nobody, batch |-> 0]

Init ==
  /\ event \in [status : {"Upcoming"}, ends : Days, yes : {0}, attended : {0}]
  /\ rsvp = [u \in Users |-> Nobody]
  /\ applied = <<>>
  /\ told = [x \in Users \cup {Designees} |-> 0]
  /\ call = [c \in Callers |-> Idle]
  /\ today = 1
  /\ budget = [request |-> MaxRequests, crash |-> MaxCrashes]
  /\ overlap = FALSE

-----------------------------------------------------------------------------
\* A bound is a budget: an action that needs one uses it up.
Spend(what) == budget[what] > 0 /\ budget' = [budget EXCEPT ![what] = @ - 1]

\* A request starts, as the handler goes on to run it.
Begin(c, handler) ==
  /\ call[c].pc = "idle"
  /\ Spend("request")
  /\ call' = [call EXCEPT ![c] = handler]
  /\ overlap' = (overlap \/ \E d \in Callers : call[d].pc # "idle")
  /\ UNCHANGED <<rows, told, today>>

Goto(c, pc) == call' = [call EXCEPT ![c].pc = pc]
Return(c) == call' = [call EXCEPT ![c] = Idle]

-----------------------------------------------------------------------------
(* RsvpService.respond *)

RespondCheck(c, u, answer) ==
  /\ event.status = "Upcoming"
  /\ Begin(c, [Idle EXCEPT !.pc = "rsvp", !.user = u, !.answer = answer])

\* A repeated answer changes nothing.
RespondRead(c) ==
  /\ call[c].pc = "rsvp"
  /\ IF rsvp[call[c].user].response = call[c].answer
     THEN Return(c)
     ELSE call' = [call EXCEPT ![c].pc = "answer", ![c].row = rsvp[call[c].user]]
  /\ UNCHANGED <<rows, told, today, budget, overlap>>

\* Mutant: the counter forgets what the member had answered before.
RespondWriteForgetting(c) ==
  /\ call[c].pc = "answer"
  /\ rsvp' = [rsvp EXCEPT ![call[c].user] = [response |-> call[c].answer,
                                             attended |-> call[c].row.attended]]
  /\ event' = [event EXCEPT !.yes = @ + (IF call[c].answer = "yes" THEN 1 ELSE 0)]
  /\ Return(c)
  /\ UNCHANGED <<applied, told, today, budget, overlap>>

\* put_rsvp_with_counters: row and counter in one transaction, both as of the row read.
RespondWrite(c) ==
  LET delta == (IF call[c].answer = "yes" THEN 1 ELSE 0)
                 - (IF call[c].row.response = "yes" THEN 1 ELSE 0)
  IN  /\ call[c].pc = "answer"
      /\ rsvp' = [rsvp EXCEPT ![call[c].user] = [response |-> call[c].answer,
                                                 attended |-> call[c].row.attended]]
      /\ event' = [event EXCEPT !.yes = @ + delta]
      /\ Return(c)
      /\ UNCHANGED <<applied, told, today, budget, overlap>>

-----------------------------------------------------------------------------
(* Attendance: record and import_csv bring a list, teams_apply the latest batch. *)

Record(c, list) ==
  /\ event.status # "Cancelled"
  /\ Begin(c, [Idle EXCEPT !.pc = "list", !.event = event, !.list = list])

\* teams_fetch stores what it has fetched and awards nothing.
TeamsFetch ==
  /\ event.status # "Cancelled"
  /\ Len(applied) < MaxBatches
  /\ applied' = Append(applied, FALSE)
  /\ UNCHANGED <<event, rsvp, told, call, today, budget, overlap>>

\* The manager may rename and leave out participants of the batch.
TeamsRead(c, list) ==
  /\ event.status # "Cancelled" /\ applied # <<>>
  /\ Begin(c, [Idle EXCEPT !.pc = "apply", !.event = event, !.list = list,
                           !.batch = Len(applied)])

\* mark_teams_batch_applied, or a 409.
TeamsApply(c) ==
  /\ call[c].pc = "apply"
  /\ IF applied[call[c].batch]
     THEN Return(c) /\ UNCHANGED applied
     ELSE applied' = [applied EXCEPT ![call[c].batch] = TRUE] /\ Goto(c, "list")
  /\ UNCHANGED <<event, rsvp, told, today, budget, overlap>>

(* _commit *)

ListRsvps(c) ==
  /\ call[c].pc = "list"
  /\ call' = [call EXCEPT ![c].pc = "mark",
                          ![c].known = {u \in Users : rsvp[u].response # "absent"}]
  /\ UNCHANGED <<rows, told, today, budget, overlap>>

\* mark_attended for a member with a row, put_attendance_only for any other.
MarkNext(c) ==
  LET u == Head(call[c].list)
      flipped == u \notin call[c].known \/ ~ rsvp[u].attended
  IN  /\ call[c].pc = "mark" /\ call[c].list # <<>>
      /\ rsvp' = [rsvp EXCEPT ![u] = IF u \in call[c].known
                                     THEN [@ EXCEPT !.attended = TRUE]
                                     ELSE [response |-> "no", attended |-> TRUE]]
      /\ call' = [call EXCEPT ![c].list = Tail(@),
                              ![c].fresh = IF flipped THEN Append(@, u) ELSE @]
      /\ UNCHANGED <<event, applied, told, today, budget, overlap>>

\* Mutant: the awards of an event that cannot be completed are left out.
CountAttendedIfOver(c) ==
  /\ call[c].pc = "mark" /\ call[c].list = <<>>
  /\ event' = [event EXCEPT !.attended = @ + Len(call[c].fresh)]
  /\ IF call[c].fresh = <<>> \/ event.ends > today THEN Goto(c, "marked") ELSE Goto(c, "publish")
  /\ UNCHANGED <<rsvp, applied, told, today, budget, overlap>>

\* bump_event_counters, when somebody was newly marked.
CountAttended(c) ==
  /\ call[c].pc = "mark" /\ call[c].list = <<>>
  /\ event' = [event EXCEPT !.attended = @ + Len(call[c].fresh)]
  /\ IF call[c].fresh = <<>> THEN Goto(c, "marked") ELSE Goto(c, "publish")
  /\ UNCHANGED <<rsvp, applied, told, today, budget, overlap>>

PublishAttendance(c) ==
  /\ call[c].pc = "publish"
  /\ told' = [x \in DOMAIN told |->
                told[x] + Quantify(DOMAIN call[c].fresh, LAMBDA i : call[c].fresh[i] = x)]
  /\ Goto(c, "marked")
  /\ UNCHANGED <<rows, today, budget, overlap>>

\* Attendance completes the event, unless it was completed when the request came.
CompleteAfterwards(c) ==
  /\ call[c].pc = "marked"
  /\ IF call[c].event.status = "Completed"
     THEN Return(c)
     ELSE call' = [call EXCEPT ![c].pc = "complete", ![c].event = event]
  /\ UNCHANGED <<rows, told, today, budget, overlap>>

-----------------------------------------------------------------------------
(* EventService: each writes the event it has read. *)

CompleteRead(c) == Begin(c, [Idle EXCEPT !.pc = "complete", !.event = event])

\* complete_internal: BR-L1, and the event must be over.
CompleteWrite(c) ==
  /\ call[c].pc = "complete"
  /\ IF call[c].event.status = "Upcoming" /\ call[c].event.ends <= today
     THEN event' = [call[c].event EXCEPT !.status = "Completed"] /\ Goto(c, "award")
     ELSE Return(c) /\ UNCHANGED event
  /\ UNCHANGED <<rsvp, applied, told, today, budget, overlap>>

\* award_on_completion
PublishDesignees(c) ==
  /\ call[c].pc = "award"
  /\ told' = [told EXCEPT ![Designees] = @ + 1]
  /\ Return(c)
  /\ UNCHANGED <<rows, today, budget, overlap>>

EditRead(c) ==
  /\ event.status = "Upcoming"
  /\ Begin(c, [Idle EXCEPT !.pc = "edit", !.event = event])

EditWrite(c) ==
  /\ call[c].pc = "edit"
  /\ \E day \in Days : event' = [call[c].event EXCEPT !.ends = day]
  /\ Return(c)
  /\ UNCHANGED <<rsvp, applied, told, today, budget, overlap>>

\* cancel, and cancel_group_events of a group that was deleted.
CancelRead(c) ==
  /\ event.status = "Upcoming"
  /\ Begin(c, [Idle EXCEPT !.pc = "cancel", !.event = event])

CancelWrite(c) ==
  /\ call[c].pc = "cancel"
  /\ event' = [call[c].event EXCEPT !.status = "Cancelled"]
  /\ Return(c)
  /\ UNCHANGED <<rsvp, applied, told, today, budget, overlap>>

-----------------------------------------------------------------------------
Tick ==
  /\ today < LastDay
  /\ today' = today + 1
  /\ UNCHANGED <<rows, told, call, budget, overlap>>

Die(c) ==
  /\ call[c].pc # "idle"
  /\ Spend("crash")
  /\ Return(c)
  /\ UNCHANGED <<rows, told, today, overlap>>

-----------------------------------------------------------------------------
Respond(c) == \/ \E u \in Users, answer \in {"yes", "no"} : RespondCheck(c, u, answer)
              \/ RespondRead(c) \/ RespondWrite(c)

Attend(c) == \/ \E list \in Lists : Record(c, list) \/ TeamsRead(c, list)
             \/ TeamsApply(c) \/ ListRsvps(c) \/ MarkNext(c) \/ CountAttended(c)
             \/ PublishAttendance(c) \/ CompleteAfterwards(c)

Manage(c) == \/ CompleteRead(c) \/ CompleteWrite(c) \/ PublishDesignees(c)
             \/ EditRead(c) \/ EditWrite(c) \/ CancelRead(c) \/ CancelWrite(c)

Next ==
  \/ \E c \in Callers : Respond(c) \/ Attend(c) \/ Manage(c) \/ Die(c)
  \/ TeamsFetch
  \/ Tick

Spec == Init /\ [][Next]_vars

-----------------------------------------------------------------------------
TypeOK ==
  /\ event \in Event
  /\ rsvp \in [Users -> Rsvp]
  /\ applied \in Seq(BOOLEAN)
  /\ told \in [Users \cup {Designees} -> Nat]
  /\ today \in Days
  /\ \A c \in Callers :
       /\ call[c].list \in Seq(Users) /\ call[c].fresh \in Seq(Users)
       /\ call[c].pc \in {"rsvp", "answer"} => call[c].user \in Users
       /\ call[c].pc \in {"complete", "edit", "cancel"} => call[c].event \in Event
       /\ call[c].pc = "apply" => call[c].batch \in DOMAIN applied

Quiet == \A c \in Callers : call[c].pc = "idle"

\* Whoever is marked as having attended has an award published, and the designees of a
\* completed event have theirs, when no request is under way and none has died: whatever
\* answers, edits, cancellations and completions came between, and whether the event
\* could be completed or not (_commit, "mark attendance ..., then publish awards").
AttendedIsAwarded ==
  Quiet /\ budget.crash = MaxCrashes =>
    /\ \A u \in Users : rsvp[u].attended => told[u] > 0
    /\ event.status = "Completed" => told[Designees] > 0

\* Two managers who apply one Teams batch do not both award it (teams_apply, BR-T5:
\* "two managers clicking Apply concurrently must not both award").
BatchAppliedOnce ==
  \A c, d \in {e \in Callers : call[e].pc \in {"list", "mark", "publish"}} :
    call[c].batch = call[d].batch /\ call[c].batch # 0 => c = d

\* The awards published to members, one for each time one was told.
AwardsToMembers == UNION {{u} \X (1..told[u]) : u \in Users}

\* Requests that come one after the other, however many and in whatever order, leave
\* the counters of the event at what the rows and the published awards say, although
\* edits, cancellations and completions write the counters back
\* (put_rsvp_with_counters: "in ONE transaction (P-REL-6), so they cannot drift").
CountersFollowRows ==
  Quiet /\ ~ overlap /\ budget.crash = MaxCrashes =>
    /\ event.yes = Quantify(Users, LAMBDA u : rsvp[u].response = "yes")
    /\ event.attended = Cardinality(AwardsToMembers)

\* Attendance is paid, and paid once.
AttendanceIsPaid == AttendedIsAwarded /\ BatchAppliedOnce

\* A completed event has awarded its attendees, even if a request died on the way and
\* was sent again (_commit: "mark attendance (idempotent, so a retry is safe)"; "the
\* reverse would leave a Completed event whose attendees were never awarded").
CompletedIsAwarded ==
  Quiet /\ event.status = "Completed" => \A u \in Users : rsvp[u].attended => told[u] > 0
=============================================================================
