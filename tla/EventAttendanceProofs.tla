---------------------- MODULE EventAttendanceProofs ----------------------
(***************************************************************************)
(* Proofs about the attendance of an event, for any finite set of members, *)
(* any requests at once, lists, days and bounds: whoever is marked has an  *)
(* award published, a Teams batch is applied by one request, and requests  *)
(* that come one after the other leave the counters right.                 *)
(***************************************************************************)
EXTENDS EventAttendance, FiniteSetTheorems, FunctionTheorems, TLAPS

-----------------------------------------------------------------------------
(* What a request holds. *)

Pcs == {"idle", "rsvp", "answer", "list", "apply", "mark", "publish", "marked", "complete",
        "award", "edit", "cancel"}
Handlers == [pc : Pcs, event : Event \cup {Unread}, list : Seq(Users), known : SUBSET Users,
             fresh : Seq(Users), user : Users \cup {"none"}, answer : {"none", "yes", "no"},
             row : Rsvp, batch : Nat]
Budgets == [request : Nat, crash : 0..MaxCrashes]

Pc(c) == call[c].pc
Copy(c) == call[c].event
Known(c) == call[c].known
Fresh(c) == call[c].fresh
User(c) == call[c].user
Answer(c) == call[c].answer
Row(c) == call[c].row
Batch(c) == call[c].batch

\* What a request is at work with.
Aimed(c) ==
  /\ Pc(c) \in {"rsvp", "answer"} => User(c) \in Users /\ Answer(c) \in {"yes", "no"}
  /\ Pc(c) \in {"complete", "edit", "cancel"} => Copy(c) \in Event
  /\ Pc(c) = "apply" => Batch(c) \in DOMAIN applied

Types ==
  /\ event \in Event /\ rsvp \in [Users -> Rsvp] /\ applied \in Seq(BOOLEAN)
  /\ told \in [Users \cup {Designees} -> Nat] /\ today \in Days
  /\ call \in [Callers -> Handlers] /\ budget \in Budgets /\ overlap \in BOOLEAN
  /\ \A c \in Callers : Aimed(c)

-----------------------------------------------------------------------------
(* What a step does. *)

Others(c) == \A d \in Callers \ {c} :
  /\ Pc(d)' = Pc(d) /\ Copy(d)' = Copy(d) /\ Known(d)' = Known(d) /\ Fresh(d)' = Fresh(d)
  /\ User(d)' = User(d) /\ Answer(d)' = Answer(d) /\ Row(d)' = Row(d) /\ Batch(d)' = Batch(d)
Lives == overlap' = overlap /\ budget' = budget

\* A handler begins.
Starts(c) ==
  /\ Pc(c) = "idle" /\ Pc(c)' \in {"rsvp", "list", "apply", "complete", "edit", "cancel"}
  /\ Fresh(c)' = <<>> /\ (Pc(c)' = "list" => Batch(c)' = 0)
  /\ Pc(c)' \in {"complete", "edit", "cancel"} => Copy(c)' = event
  /\ Pc(c)' = "edit" => event.status = "Upcoming"
  /\ overlap' = (overlap \/ \E d \in Callers : Pc(d) # "idle")
  /\ budget'.crash = budget.crash /\ UNCHANGED <<event, rsvp, applied, told>>
\* It ends without a write.
Ends(c) ==
  /\ Pc(c) \in {"rsvp", "apply", "marked", "complete"} /\ Pc(c)' = "idle"
  /\ UNCHANGED <<event, rsvp, applied, told>> /\ Lives
Reads(c) ==
  /\ Pc(c) = "rsvp" /\ Pc(c)' = "answer" /\ User(c)' = User(c) /\ Answer(c)' = Answer(c)
  /\ Row(c)' = rsvp[User(c)] /\ UNCHANGED <<event, rsvp, applied, told>> /\ Lives
Yes(response) == IF response = "yes" THEN 1 ELSE 0
Answers(c) ==
  /\ Pc(c) = "answer" /\ Pc(c)' = "idle"
  /\ rsvp' = [rsvp EXCEPT ![User(c)] = [response |-> Answer(c), attended |-> Row(c).attended]]
  /\ event' = [event EXCEPT !.yes = event.yes + Yes(Answer(c)) - Yes(Row(c).response)]
  /\ UNCHANGED <<applied, told>> /\ Lives
Takes(c) ==
  /\ Pc(c) = "apply" /\ Pc(c)' = "list" /\ Batch(c)' = Batch(c) /\ Fresh(c)' = Fresh(c)
  /\ ~ applied[Batch(c)] /\ applied' = [applied EXCEPT ![Batch(c)] = TRUE]
  /\ UNCHANGED <<event, rsvp, told>> /\ Lives
Looks(c) ==
  /\ Pc(c) = "list" /\ Pc(c)' = "mark" /\ Batch(c)' = Batch(c) /\ Fresh(c)' = Fresh(c)
  /\ Known(c)' = {u \in Users : rsvp[u].response # "absent"}
  /\ UNCHANGED <<event, rsvp, applied, told>> /\ Lives
Marks(c) == \E u \in Users :
  /\ Pc(c) = "mark" /\ Pc(c)' = "mark" /\ Batch(c)' = Batch(c) /\ Known(c)' = Known(c)
  /\ rsvp' = [rsvp EXCEPT ![u] = IF u \in Known(c) THEN [rsvp[u] EXCEPT !.attended = TRUE]
                                 ELSE [response |-> "no", attended |-> TRUE]]
  /\ Fresh(c)' = IF u \notin Known(c) \/ ~ rsvp[u].attended THEN Append(Fresh(c), u)
                 ELSE Fresh(c)
  /\ UNCHANGED <<event, applied, told>> /\ Lives
Counts(c) ==
  /\ Pc(c) = "mark" /\ Pc(c)' = (IF Fresh(c) = <<>> THEN "marked" ELSE "publish")
  /\ Batch(c)' = Batch(c) /\ Fresh(c)' = Fresh(c)
  /\ event' = [event EXCEPT !.attended = event.attended + Len(Fresh(c))]
  /\ UNCHANGED <<rsvp, applied, told>> /\ Lives
Times(s, x) == Cardinality({i \in DOMAIN s : s[i] = x})
Publishes(c) ==
  /\ Pc(c) = "publish" /\ Pc(c)' = "marked"
  /\ told' = [x \in Users \cup {Designees} |-> told[x] + Times(Fresh(c), x)]
  /\ UNCHANGED <<event, rsvp, applied>> /\ Lives
Refreshes(c) ==
  /\ Pc(c) = "marked" /\ Pc(c)' = "complete" /\ Copy(c)' = event
  /\ UNCHANGED <<event, rsvp, applied, told>> /\ Lives
Completes(c) ==
  /\ Pc(c) = "complete" /\ Pc(c)' = "award" /\ event' = [Copy(c) EXCEPT !.status = "Completed"]
  /\ UNCHANGED <<rsvp, applied, told>> /\ Lives
Designates(c) ==
  /\ Pc(c) = "award" /\ Pc(c)' = "idle"
  /\ told' = [told EXCEPT ![Designees] = told[Designees] + 1]
  /\ UNCHANGED <<event, rsvp, applied>> /\ Lives
Edits(c) ==
  /\ Pc(c) \in {"edit", "cancel"} /\ Pc(c)' = "idle"
  /\ event' \in Event /\ event'.yes = Copy(c).yes /\ event'.attended = Copy(c).attended
  /\ event'.status = (IF Pc(c) = "edit" THEN Copy(c).status ELSE "Cancelled")
  /\ UNCHANGED <<rsvp, applied, told>> /\ Lives
Dies(c) ==
  /\ Pc(c) # "idle" /\ Pc(c)' = "idle" /\ overlap' = overlap
  /\ budget'.crash = budget.crash - 1
  /\ UNCHANGED <<event, rsvp, applied, told>>

Simple(c) ==
  /\ Others(c)
  /\ \/ Starts(c) \/ Ends(c) \/ Reads(c) \/ Answers(c) \/ Takes(c) \/ Looks(c) \/ Marks(c)
     \/ Counts(c) \/ Publishes(c) \/ Refreshes(c) \/ Completes(c) \/ Designates(c) \/ Edits(c)
     \/ Dies(c)
\* No request moves: a fetch, a new day, or nothing.
Aside ==
  /\ UNCHANGED <<event, rsvp, told, call, budget, overlap>>
  /\ applied' = applied \/ applied' = Append(applied, FALSE)

\* A request holds h next, the others what they held.
LEMMA Holding ==
  ASSUME Types, NEW c \in Callers, NEW h \in Handlers, call' = [call EXCEPT ![c] = h]
  PROVE  /\ call' \in [Callers -> Handlers] /\ Others(c)
         /\ Pc(c)' = h.pc /\ Copy(c)' = h.event /\ Known(c)' = h.known /\ Fresh(c)' = h.fresh
         /\ User(c)' = h.user /\ Answer(c)' = h.answer /\ Row(c)' = h.row /\ Batch(c)' = h.batch
<1>1. call'[c] = h /\ \A d \in Callers \ {c} : call'[d] = call[d]  BY DEF Types
<1>2. call' \in [Callers -> Handlers]  BY DEF Types
<1>3. Others(c)
  BY <1>1 DEF Others, Pc, Copy, Known, Fresh, User, Answer, Row, Batch
<1>4. QED BY <1>1, <1>2, <1>3 DEF Pc, Copy, Known, Fresh, User, Answer, Row, Batch

LEMMA Blank == Idle \in Handlers
BY DEF Idle, Handlers, Pcs, Unread, Nobody, Rsvp

LEMMA Fields ==
  ASSUME Types, NEW c \in Callers
  PROVE  /\ call[c] \in Handlers /\ Pc(c) \in Pcs /\ Copy(c) \in Event \cup {Unread}
         /\ Known(c) \subseteq Users /\ Fresh(c) \in Seq(Users) /\ call[c].list \in Seq(Users)
         /\ User(c) \in Users \cup {"none"} /\ Answer(c) \in {"none", "yes", "no"}
         /\ Row(c) \in Rsvp /\ Batch(c) \in Nat
<1>1. call[c] \in Handlers  BY DEF Types
<1>2. QED BY <1>1 DEF Handlers, Pc, Copy, Known, Fresh, User, Answer, Row, Batch

LEMMA Begun ==
  ASSUME Types, NEW c \in Callers, NEW h \in Handlers, Begin(c, h)
  PROVE  /\ call' = [call EXCEPT ![c] = h] /\ Pc(c) = "idle"
         /\ overlap' = (overlap \/ \E d \in Callers : Pc(d) # "idle")
         /\ budget' \in Budgets /\ budget'.crash = budget.crash
         /\ UNCHANGED <<event, rsvp, applied, told, today>>
<1>1. budget \in Budgets /\ budget.request > 0 /\ budget' = [budget EXCEPT !.request = budget.request - 1]
  BY DEF Begin, Spend, Types
<1>2. budget' \in Budgets /\ budget'.crash = budget.crash  BY <1>1 DEF Budgets
<1>3. QED BY <1>2 DEF Begin, Pc, rows

\* What a step leaves well formed, but for the rows.
Sound(c) ==
  /\ call' \in [Callers -> Handlers] /\ budget' \in Budgets /\ today' = today
  /\ Aimed(c)' /\ Others(c)

LEMMA BeginsAreSimple ==
  ASSUME Types, NEW c \in Callers,
         \/ \E u \in Users, answer \in {"yes", "no"} : RespondCheck(c, u, answer)
         \/ \E list \in Lists : Record(c, list) \/ TeamsRead(c, list)
         \/ CompleteRead(c) \/ EditRead(c) \/ CancelRead(c)
  PROVE  Starts(c) /\ Sound(c)
<1>t. event \in Event /\ applied \in Seq(BOOLEAN) /\ Lists \subseteq Seq(Users)
  BY ListsAssumption DEF Types, ListsAssumption
<1>i. Idle \in Handlers /\ Idle.fresh = <<>> /\ Idle.batch = 0  BY Blank DEF Idle
<1>1. ASSUME NEW u \in Users, NEW answer \in {"yes", "no"}, RespondCheck(c, u, answer)
      PROVE  Starts(c) /\ Sound(c)
  <2> DEFINE h == [Idle EXCEPT !.pc = "rsvp", !.user = u, !.answer = answer]
  <2>1. /\ h \in Handlers /\ h.pc = "rsvp" /\ h.user = u /\ h.answer = answer /\ h.fresh = <<>>
    BY <1>i DEF Handlers, Pcs, Idle
  <2>2. Begin(c, h)  BY <1>1 DEF RespondCheck
  <2> HIDE DEF h
  <2>3. QED BY <2>1, <2>2, Begun, Holding DEF Starts, Sound, Aimed
<1>2. ASSUME NEW list \in Lists, Record(c, list) PROVE Starts(c) /\ Sound(c)
  <2> DEFINE h == [Idle EXCEPT !.pc = "list", !.event = event, !.list = list]
  <2>1. /\ h \in Handlers /\ h.pc = "list" /\ h.batch = 0 /\ h.fresh = <<>>
    BY <1>i, <1>t DEF Handlers, Pcs, Idle
  <2>2. Begin(c, h)  BY <1>2 DEF Record
  <2> HIDE DEF h
  <2>3. QED BY <2>1, <2>2, Begun, Holding DEF Starts, Sound, Aimed
<1>3. ASSUME NEW list \in Lists, TeamsRead(c, list) PROVE Starts(c) /\ Sound(c)
  <2> DEFINE h == [Idle EXCEPT !.pc = "apply", !.event = event, !.list = list,
                               !.batch = Len(applied)]
  <2>1. applied # <<>> /\ Begin(c, h)  BY <1>3 DEF TeamsRead
  <2>2. Len(applied) \in Nat /\ Len(applied) \in DOMAIN applied  BY <1>t, <2>1
  <2>3. /\ h \in Handlers /\ h.pc = "apply" /\ h.batch = Len(applied) /\ h.fresh = <<>>
    BY <1>i, <1>t, <2>2 DEF Handlers, Pcs, Idle
  <2> HIDE DEF h
  <2>4. applied' = applied  BY <2>1, <2>3, Begun
  <2>5. QED BY <2>1, <2>2, <2>3, <2>4, Begun, Holding DEF Starts, Sound, Aimed
<1>4. ASSUME NEW pc \in {"complete", "edit", "cancel"},
             Begin(c, [Idle EXCEPT !.pc = pc, !.event = event]),
             pc = "edit" => event.status = "Upcoming"
      PROVE  Starts(c) /\ Sound(c)
  <2> DEFINE h == [Idle EXCEPT !.pc = pc, !.event = event]
  <2>1. h \in Handlers /\ h.pc = pc /\ h.event = event /\ h.fresh = <<>>
    BY <1>i, <1>t DEF Handlers, Pcs, Idle
  <2>2. Begin(c, h)  BY <1>4
  <2> HIDE DEF h
  <2>3. event' = event  BY <2>1, <2>2, Begun
  <2>4. QED BY <1>t, <1>4, <2>1, <2>2, <2>3, Begun, Holding DEF Starts, Sound, Aimed
<1>5. CASE CompleteRead(c)  BY <1>4, <1>5 DEF CompleteRead
<1>6. CASE EditRead(c)  BY <1>4, <1>6 DEF EditRead
<1>7. CASE CancelRead(c)  BY <1>4, <1>7 DEF CancelRead
<1>8. QED BY <1>1, <1>2, <1>3, <1>5, <1>6, <1>7

\* c goes on with what it holds.
Keeps(c) ==
  /\ Copy(c)' = Copy(c) /\ Known(c)' = Known(c) /\ Fresh(c)' = Fresh(c)
  /\ User(c)' = User(c) /\ Answer(c)' = Answer(c) /\ Row(c)' = Row(c) /\ Batch(c)' = Batch(c)

LEMMA Gone ==
  ASSUME Types, NEW c \in Callers, NEW pc \in Pcs, Goto(c, pc)
  PROVE  call' \in [Callers -> Handlers] /\ Others(c) /\ Pc(c)' = pc /\ Keeps(c)
<1> DEFINE h == [call[c] EXCEPT !.pc = pc]
<1>1. call[c] \in Handlers /\ call' = [call EXCEPT ![c] = h]  BY DEF Goto, Types
<1>2. /\ h \in Handlers /\ h.pc = pc /\ h.event = Copy(c) /\ h.known = Known(c)
      /\ h.fresh = Fresh(c) /\ h.user = User(c) /\ h.answer = Answer(c) /\ h.row = Row(c)
      /\ h.batch = Batch(c)
  BY <1>1 DEF Handlers, Copy, Known, Fresh, User, Answer, Row, Batch
<1> HIDE DEF h
<1>3. QED BY <1>1, <1>2, Holding DEF Keeps

LEMMA Returned ==
  ASSUME Types, NEW c \in Callers, Return(c)
  PROVE  /\ call' \in [Callers -> Handlers] /\ Others(c) /\ Pc(c)' = "idle" /\ Aimed(c)'
<1>1. Idle \in Handlers /\ Idle.pc = "idle"  BY Blank DEF Idle
<1>2. call' = [call EXCEPT ![c] = Idle]  BY DEF Return
<1>3. QED BY <1>1, <1>2, Holding DEF Aimed

LEMMA RespondIsSimple ==
  ASSUME Types, NEW c \in Callers, RespondRead(c) \/ RespondWrite(c)
  PROVE  (Ends(c) \/ Reads(c) \/ Answers(c)) /\ Sound(c)
<1>f. call[c] \in Handlers /\ User(c) \in Users /\ Answer(c) \in {"yes", "no"} /\ rsvp \in [Users -> Rsvp]
      /\ event \in Event /\ Row(c) \in Rsvp
  BY Fields DEF Types, Aimed, RespondRead, RespondWrite, Pc
<1>0. today' = today /\ budget' = budget /\ overlap' = overlap /\ budget' \in Budgets
  BY DEF RespondRead, RespondWrite, Types
<1>1. CASE RespondRead(c) /\ Return(c)
  BY <1>0, <1>1, Returned DEF RespondRead, rows, Ends, Lives, Sound, Pc
<1>2. CASE RespondRead(c) /\ ~ Return(c)
  <2> DEFINE h == [[call[c] EXCEPT !.pc = "answer"] EXCEPT !.row = rsvp[User(c)]]
  <2>1. call' = [call EXCEPT ![c] = h]
    BY <1>2, <1>f DEF RespondRead, User, Handlers, Types
  <2>2. /\ h \in Handlers /\ h.pc = "answer" /\ h.row = rsvp[User(c)]
        /\ h.user = User(c) /\ h.answer = Answer(c)
    BY <1>f DEF Handlers, User, Answer, Pcs
  <2> HIDE DEF h
  <2>3. QED BY <1>0, <1>2, <1>f, <2>1, <2>2, Holding
            DEF RespondRead, rows, Reads, Lives, Sound, Aimed, Pc
<1>3. CASE RespondWrite(c)
  <2>1. /\ Pc(c) = "answer" /\ Return(c) /\ UNCHANGED <<applied, told>>
        /\ rsvp' = [rsvp EXCEPT ![User(c)] = [response |-> Answer(c), attended |-> Row(c).attended]]
    BY <1>3 DEF RespondWrite, Pc, User, Answer, Row
  <2>2. event' = [event EXCEPT !.yes = event.yes + (Yes(Answer(c)) - Yes(Row(c).response))]
    BY <1>3 DEF RespondWrite, Answer, Row, Yes
  <2>3. event.yes \in Int /\ Yes(Answer(c)) \in Int /\ Yes(Row(c).response) \in Int
    BY <1>f DEF Event, Yes
  <2>4. event.yes + (Yes(Answer(c)) - Yes(Row(c).response)) = event.yes + Yes(Answer(c)) - Yes(Row(c).response)
    BY <2>3
  <2>5. QED BY <1>0, <2>1, <2>2, <2>4, Returned DEF Answers, Lives, Sound
<1>4. QED BY <1>1, <1>2, <1>3

LEMMA AttendIsSimple ==
  ASSUME Types, NEW c \in Callers,
         \/ TeamsApply(c) \/ ListRsvps(c) \/ MarkNext(c) \/ CountAttended(c)
         \/ PublishAttendance(c) \/ CompleteAfterwards(c)
  PROVE  (Ends(c) \/ Takes(c) \/ Looks(c) \/ Marks(c) \/ Counts(c) \/ Publishes(c) \/ Refreshes(c))
         /\ Sound(c)
<1>f. /\ call[c] \in Handlers /\ Fresh(c) \in Seq(Users) /\ call[c].list \in Seq(Users)
      /\ Known(c) \subseteq Users /\ event \in Event /\ rsvp \in [Users -> Rsvp]
      /\ told \in [Users \cup {Designees} -> Nat]
  BY Fields DEF Types
<1>0. today' = today /\ budget' = budget /\ overlap' = overlap /\ budget' \in Budgets
  BY DEF TeamsApply, ListRsvps, MarkNext, CountAttended, PublishAttendance, CompleteAfterwards, Types
<1>p. {"idle", "list", "mark", "publish", "marked", "complete"} \subseteq Pcs  BY DEF Pcs
<1>1. CASE TeamsApply(c) /\ applied[Batch(c)]
  <2>1. Pc(c) = "apply" /\ Return(c) /\ applied' = applied /\ UNCHANGED <<event, rsvp, told>>
    BY <1>1 DEF TeamsApply, Pc, Batch
  <2>2. QED BY <1>0, <2>1, Returned DEF Ends, Lives, Sound
<1>2. CASE TeamsApply(c) /\ ~ applied[Batch(c)]
  <2>1. /\ Pc(c) = "apply" /\ Goto(c, "list") /\ applied' = [applied EXCEPT ![Batch(c)] = TRUE]
        /\ UNCHANGED <<event, rsvp, told>>
    BY <1>2 DEF TeamsApply, Pc, Batch
  <2>2. QED BY <1>0, <1>p, <1>2, <2>1, Gone DEF Takes, Lives, Sound, Keeps, Aimed
<1>3. CASE ListRsvps(c)
  <2> DEFINE h == [[call[c] EXCEPT !.pc = "mark"]
                   EXCEPT !.known = {u \in Users : rsvp[u].response # "absent"}]
  <2>1. call' = [call EXCEPT ![c] = h]
    BY <1>3, <1>f DEF ListRsvps, Handlers, Types
  <2>2. /\ h \in Handlers /\ h.pc = "mark" /\ h.fresh = Fresh(c) /\ h.batch = Batch(c)
        /\ h.known = {u \in Users : rsvp[u].response # "absent"}
    BY <1>f, <1>p DEF Handlers, Fresh, Batch
  <2> HIDE DEF h
  <2>3. QED BY <1>0, <1>3, <2>1, <2>2, Holding DEF ListRsvps, rows, Looks, Lives, Sound, Aimed, Pc
<1>4. CASE MarkNext(c)
  <2> DEFINE u == Head(call[c].list)
             s == IF u \notin Known(c) \/ ~ rsvp[u].attended THEN Append(Fresh(c), u) ELSE Fresh(c)
             h == [[call[c] EXCEPT !.list = Tail(call[c].list)] EXCEPT !.fresh = s]
  <2>1. call[c].list # <<>> /\ Pc(c) = "mark"  BY <1>4 DEF MarkNext, Pc
  <2>2. u \in Users /\ Tail(call[c].list) \in Seq(Users)  BY <1>f, <2>1
  <2>3. s \in Seq(Users)  BY <1>f, <2>2
  <2>4. call' = [call EXCEPT ![c] = h]
    BY <1>4, <1>f DEF MarkNext, Handlers, Known, Fresh, Types
  <2>5. /\ h \in Handlers /\ h.pc = "mark" /\ h.fresh = s /\ h.batch = Batch(c) /\ h.known = Known(c)
    BY <1>f, <2>1, <2>2, <2>3 DEF Handlers, Pc, Batch, Known
  <2>6. /\ rsvp' = [rsvp EXCEPT ![u] = IF u \in Known(c) THEN [rsvp[u] EXCEPT !.attended = TRUE]
                                       ELSE [response |-> "no", attended |-> TRUE]]
        /\ UNCHANGED <<event, applied, told>>
    BY <1>4 DEF MarkNext, Known
  <2> HIDE DEF h
  <2>7. Fresh(c)' = s /\ Pc(c)' = "mark" /\ Batch(c)' = Batch(c) /\ Known(c)' = Known(c)
        /\ call' \in [Callers -> Handlers] /\ Others(c)
    BY <2>4, <2>5, Holding
  <2>8. Marks(c)  BY <1>0, <2>1, <2>2, <2>6, <2>7 DEF Marks, Lives
  <2>9. QED BY <1>0, <2>7, <2>8 DEF Sound, Aimed
<1>5. CASE CountAttended(c)
  <2> DEFINE pc == IF Fresh(c) = <<>> THEN "marked" ELSE "publish"
  <2>1. /\ Pc(c) = "mark" /\ Goto(c, pc) /\ UNCHANGED <<rsvp, applied, told>>
        /\ event' = [event EXCEPT !.attended = event.attended + Len(Fresh(c))]
    BY <1>5 DEF CountAttended, Pc, Fresh
  <2>2. QED BY <1>0, <1>p, <2>1, Gone DEF Counts, Lives, Sound, Keeps, Aimed
<1>6. CASE PublishAttendance(c)
  <2>1. Pc(c) = "publish" /\ Goto(c, "marked") /\ UNCHANGED <<event, rsvp, applied>>
    BY <1>6 DEF PublishAttendance, rows, Pc
  <2>2. told' = [x \in Users \cup {Designees} |-> told[x] + Times(Fresh(c), x)]
    BY <1>6, <1>f DEF PublishAttendance, Quantify, Fresh, Times
  <2>3. QED BY <1>0, <1>p, <2>1, <2>2, Gone DEF Publishes, Lives, Sound, Keeps, Aimed
<1>7. CASE CompleteAfterwards(c) /\ Return(c)
  BY <1>0, <1>7, Returned DEF CompleteAfterwards, rows, Ends, Lives, Sound, Pc
<1>8. CASE CompleteAfterwards(c) /\ ~ Return(c)
  <2> DEFINE h == [[call[c] EXCEPT !.pc = "complete"] EXCEPT !.event = event]
  <2>1. call' = [call EXCEPT ![c] = h]
    BY <1>8, <1>f DEF CompleteAfterwards, Handlers, Types
  <2>2. h \in Handlers /\ h.pc = "complete" /\ h.event = event
    BY <1>f, <1>p DEF Handlers
  <2> HIDE DEF h
  <2>3. Pc(c) = "marked" /\ UNCHANGED <<event, rsvp, applied, told>>
    BY <1>8 DEF CompleteAfterwards, rows, Pc
  <2>4. QED BY <1>0, <1>f, <2>1, <2>2, <2>3, Holding DEF Refreshes, Lives, Sound, Aimed
<1>9. QED BY <1>1, <1>2, <1>3, <1>4, <1>5, <1>6, <1>7, <1>8

LEMMA ManageIsSimple ==
  ASSUME Types, NEW c \in Callers,
         CompleteWrite(c) \/ PublishDesignees(c) \/ EditWrite(c) \/ CancelWrite(c)
  PROVE  (Ends(c) \/ Completes(c) \/ Designates(c) \/ Edits(c)) /\ Sound(c)
<1>0. today' = today /\ budget' = budget /\ overlap' = overlap /\ budget' \in Budgets
  BY DEF CompleteWrite, PublishDesignees, EditWrite, CancelWrite, Types
<1>1. CASE CompleteWrite(c) /\ Return(c) /\ UNCHANGED event
  BY <1>0, <1>1, Returned DEF CompleteWrite, Ends, Lives, Sound, Pc
<1>2. CASE CompleteWrite(c) /\ ~ (Return(c) /\ UNCHANGED event)
  <2>1. /\ Pc(c) = "complete" /\ Goto(c, "award") /\ event' = [Copy(c) EXCEPT !.status = "Completed"]
        /\ UNCHANGED <<rsvp, applied, told>>
    BY <1>2 DEF CompleteWrite, Pc, Copy
  <2>2. QED BY <1>0, <2>1, Gone DEF Completes, Lives, Sound, Keeps, Aimed, Pcs
<1>3. CASE PublishDesignees(c)
  BY <1>0, <1>3, Returned DEF PublishDesignees, rows, Designates, Lives, Sound, Pc
<1>4. CASE EditWrite(c)
  <2>1. PICK day \in Days : event' = [Copy(c) EXCEPT !.ends = day]  BY <1>4 DEF EditWrite, Copy
  <2>2. Pc(c) = "edit" /\ Return(c) /\ UNCHANGED <<rsvp, applied, told>>  BY <1>4 DEF EditWrite, Pc
  <2>3. Copy(c) \in Event  BY <2>2 DEF Types, Aimed
  <2>4. /\ event' \in Event /\ event'.yes = Copy(c).yes /\ event'.attended = Copy(c).attended
        /\ event'.status = Copy(c).status
    BY <2>1, <2>3 DEF Event
  <2>5. QED BY <1>0, <2>2, <2>4, Returned DEF Edits, Lives, Sound
<1>5. CASE CancelWrite(c)
  <2>1. /\ Pc(c) = "cancel" /\ Return(c) /\ UNCHANGED <<rsvp, applied, told>>
        /\ event' = [Copy(c) EXCEPT !.status = "Cancelled"]
    BY <1>5 DEF CancelWrite, Pc, Copy
  <2>2. Copy(c) \in Event  BY <2>1 DEF Types, Aimed
  <2>3. /\ event' \in Event /\ event'.yes = Copy(c).yes /\ event'.attended = Copy(c).attended
        /\ event'.status = "Cancelled"
    BY <2>1, <2>2 DEF Event
  <2>4. QED BY <1>0, <2>1, <2>3, Returned DEF Edits, Lives, Sound
<1>6. QED BY <1>1, <1>2, <1>3, <1>4, <1>5

LEMMA DieIsSimple ==
  ASSUME Types, NEW c \in Callers, Die(c)
  PROVE  Dies(c) /\ Sound(c)
<1>1. budget \in Budgets /\ budget.crash > 0 /\ budget' = [budget EXCEPT !.crash = budget.crash - 1]
  BY DEF Die, Spend, Types
<1>2. MaxCrashes \in Nat  BY BoundAssumption DEF BoundAssumption
<1>3. budget' \in Budgets /\ budget'.crash = budget.crash - 1  BY <1>1, <1>2 DEF Budgets
<1>4. QED BY <1>3, Returned DEF Die, rows, Dies, Sound, Pc

LEMMA EveryStepIsSimple ==
  ASSUME Types, [Next]_vars
  PROVE  \/ \E c \in Callers : Simple(c) /\ Sound(c)
         \/ Aside /\ today' \in Days
<1>1. ASSUME NEW c \in Callers, Respond(c) \/ Attend(c) \/ Manage(c) \/ Die(c)
      PROVE  Simple(c) /\ Sound(c)
  <2>1. CASE Respond(c)
    BY <2>1, BeginsAreSimple, RespondIsSimple DEF Respond, Simple, Sound
  <2>2. CASE Attend(c)
    BY <2>2, BeginsAreSimple, AttendIsSimple DEF Attend, Simple, Sound
  <2>3. CASE Manage(c)
    BY <2>3, BeginsAreSimple, ManageIsSimple DEF Manage, Simple, Sound
  <2>4. CASE Die(c)  BY <2>4, DieIsSimple DEF Simple, Sound
  <2>5. QED BY <1>1, <2>1, <2>2, <2>3, <2>4
<1>2. CASE TeamsFetch  BY <1>2 DEF TeamsFetch, Aside, Types
<1>3. CASE Tick
  <2>1. LastDay \in Nat /\ today \in 1..LastDay /\ today < LastDay /\ today' = today + 1
    BY <1>3, BoundAssumption DEF Tick, Types, Days, BoundAssumption
  <2>2. QED BY <1>3, <2>1 DEF Tick, Aside, rows, Days
<1>4. CASE UNCHANGED vars  BY <1>4 DEF vars, rows, Aside, Types
<1>5. QED BY <1>1, <1>2, <1>3, <1>4 DEF Next

LEMMA TimesIsNat ==
  ASSUME NEW s \in Seq(Users), NEW x
  PROVE  Times(s, x) \in Nat
<1>1. Len(s) \in Nat /\ DOMAIN s = 1..Len(s)  OBVIOUS
<1>2. IsFiniteSet(DOMAIN s)  BY <1>1, FS_Interval
<1>3. IsFiniteSet({i \in DOMAIN s : s[i] = x})  BY <1>2, FS_Subset
<1>4. QED BY <1>3, FS_CardinalityType DEF Times

LEMMA StepTypes ==
  ASSUME Types, [Next]_vars
  PROVE  Types'
<1>t. /\ event \in Event /\ rsvp \in [Users -> Rsvp] /\ applied \in Seq(BOOLEAN)
      /\ told \in [Users \cup {Designees} -> Nat] /\ today \in Days
      /\ call \in [Callers -> Handlers] /\ budget \in Budgets /\ overlap \in BOOLEAN
      /\ \A c \in Callers : Aimed(c)
  BY DEF Types
<1>1. CASE Aside /\ today' \in Days
  <2>1. applied' \in Seq(BOOLEAN) /\ DOMAIN applied \subseteq DOMAIN applied'
    <3>1. CASE applied' = applied  BY <3>1, <1>t
    <3>2. CASE applied' = Append(applied, FALSE)
      <4>1. applied' \in Seq(BOOLEAN) /\ Len(applied') = Len(applied) + 1  BY <3>2, <1>t
      <4>2. Len(applied) \in Nat /\ DOMAIN applied = 1..Len(applied) /\ DOMAIN applied' = 1..Len(applied')
        BY <4>1, <1>t
      <4>3. QED BY <4>1, <4>2
    <3>3. QED BY <1>1, <3>1, <3>2 DEF Aside
  <2>2. \A c \in Callers : Aimed(c)'
    BY <1>1, <1>t, <2>1 DEF Aside, Aimed, Pc, User, Answer, Copy, Batch
  <2>3. QED BY <1>1, <1>t, <2>1, <2>2 DEF Aside, Types
<1>2. ASSUME NEW c \in Callers, Simple(c), Sound(c) PROVE Types'
  <2>f. /\ Copy(c) \in Event \cup {Unread} /\ Fresh(c) \in Seq(Users) /\ Row(c) \in Rsvp
    BY Fields
  <2>0. UNCHANGED <<event, rsvp, applied, told>> \/ Answers(c) \/ Takes(c) \/ Marks(c) \/ Counts(c)
        \/ Publishes(c) \/ Completes(c) \/ Designates(c) \/ Edits(c)
    BY <1>2 DEF Simple, Starts, Ends, Reads, Looks, Refreshes, Dies
  <2>1. event' \in Event
    <3>1. CASE Answers(c)
      <4>1. event.yes + Yes(Answer(c)) - Yes(Row(c).response) \in Int  BY <1>t DEF Event, Yes
      <4>2. QED BY <3>1, <4>1, <1>t DEF Answers, Event
    <3>2. CASE Counts(c)
      <4>1. event.attended + Len(Fresh(c)) \in Int  BY <1>t, <2>f DEF Event
      <4>2. QED BY <3>2, <4>1, <1>t DEF Counts, Event
    <3>3. CASE Completes(c)
      <4>1. Copy(c) \in Event  BY <3>3, <1>t DEF Completes, Aimed
      <4>2. QED BY <3>3, <4>1 DEF Completes, Event
    <3>4. QED BY <2>0, <3>1, <3>2, <3>3, <1>t DEF Takes, Marks, Publishes, Designates, Edits
  <2>2. rsvp' \in [Users -> Rsvp]
    <3>1. CASE Answers(c)
      <4>1. User(c) \in Users /\ Answer(c) \in {"yes", "no"}  BY <3>1, <1>t DEF Answers, Aimed
      <4>2. [response |-> Answer(c), attended |-> Row(c).attended] \in Rsvp  BY <4>1, <2>f DEF Rsvp
      <4>3. QED BY <3>1, <4>2, <1>t DEF Answers
    <3>2. CASE Marks(c)
      <4>1. PICK u \in Users :
              rsvp' = [rsvp EXCEPT ![u] = IF u \in Known(c) THEN [rsvp[u] EXCEPT !.attended = TRUE]
                                          ELSE [response |-> "no", attended |-> TRUE]]
        BY <3>2 DEF Marks
      <4>2. [rsvp[u] EXCEPT !.attended = TRUE] \in Rsvp  BY <1>t DEF Rsvp
      <4>3. [response |-> "no", attended |-> TRUE] \in Rsvp  BY DEF Rsvp
      <4>4. QED BY <4>1, <4>2, <4>3, <1>t
    <3>3. QED BY <2>0, <3>1, <3>2, <1>t DEF Takes, Counts, Publishes, Completes, Designates, Edits
  <2>3. applied' \in Seq(BOOLEAN) /\ DOMAIN applied' = DOMAIN applied
    <3>1. CASE Takes(c)
      <4>1. Batch(c) \in DOMAIN applied  BY <3>1, <1>t DEF Takes, Aimed
      <4>2. QED BY <3>1, <4>1, <1>t DEF Takes
    <3>2. QED BY <2>0, <3>1, <1>t
              DEF Answers, Marks, Counts, Publishes, Completes, Designates, Edits
  <2>4. told' \in [Users \cup {Designees} -> Nat]
    <3>1. CASE Publishes(c)
      <4>1. \A x \in Users \cup {Designees} : told[x] + Times(Fresh(c), x) \in Nat
        BY <1>t, <2>f, TimesIsNat
      <4>2. QED BY <3>1, <4>1 DEF Publishes
    <3>2. CASE Designates(c)
      <4>1. told[Designees] + 1 \in Nat  BY <1>t
      <4>2. QED BY <3>2, <4>1, <1>t DEF Designates
    <3>3. QED BY <2>0, <3>1, <3>2, <1>t DEF Answers, Takes, Marks, Counts, Completes, Edits
  <2>5. overlap' \in BOOLEAN
    BY <1>2, <1>t DEF Simple, Starts, Ends, Reads, Answers, Takes, Looks, Marks, Counts, Publishes,
       Refreshes, Completes, Designates, Edits, Dies, Lives
  <2>6. \A d \in Callers : Aimed(d)'
    <3>1. \A d \in Callers \ {c} : Aimed(d)'  BY <1>2, <1>t, <2>3 DEF Sound, Others, Aimed
    <3>2. QED BY <1>2, <3>1 DEF Sound
  <2>7. QED BY <1>2, <1>t, <2>1, <2>2, <2>3, <2>4, <2>5, <2>6 DEF Sound, Types
<1>3. QED BY <1>1, <1>2, EveryStepIsSimple

-----------------------------------------------------------------------------
(* Teams batches. *)

\* A request that has taken a batch has it to itself, and the batch is applied.
InHand(c) == Pc(c) \in {"list", "mark", "publish"} /\ Batch(c) # 0
Batches ==
  \A c \in Callers : InHand(c) =>
    /\ Batch(c) \in DOMAIN applied /\ applied[Batch(c)]
    /\ \A d \in Callers : InHand(d) /\ Batch(d) = Batch(c) => d = c

LEMMA StepBatches ==
  ASSUME Types, Batches, NEW c \in Callers, Simple(c)
  PROVE  Batches'
<1>t. applied \in Seq(BOOLEAN) /\ (Pc(c) = "apply" => Batch(c) \in DOMAIN applied)
  BY DEF Types, Aimed
<1>o. \A d \in Callers \ {c} : Pc(d)' = Pc(d) /\ Batch(d)' = Batch(d)  BY DEF Simple, Others
<1>1. CASE Takes(c)
  <2>1. /\ applied' \in Seq(BOOLEAN) /\ DOMAIN applied' = DOMAIN applied /\ applied'[Batch(c)]
        /\ \A b \in DOMAIN applied : applied[b] => applied'[b]
    BY <1>1, <1>t DEF Takes
  <2>2. \A d \in Callers \ {c} : InHand(d) => Batch(d) # Batch(c)
    BY <1>1 DEF Takes, Batches
  <2>3. Pc(c) = "apply" /\ Batch(c)' = Batch(c)  BY <1>1 DEF Takes
  <2>4. QED BY <1>o, <1>t, <2>1, <2>2, <2>3 DEF Batches, InHand
<1>2. CASE ~ Takes(c)
  <2>1. applied' = applied
    BY <1>2 DEF Simple, Starts, Ends, Reads, Answers, Looks, Marks, Counts, Publishes,
       Refreshes, Completes, Designates, Edits, Dies
  <2>2. InHand(c)' => InHand(c) /\ Batch(c)' = Batch(c)
    BY <1>2 DEF Simple, Starts, Ends, Reads, Answers, Looks, Marks, Counts, Publishes,
       Refreshes, Completes, Designates, Edits, Dies, InHand
  <2>3. QED BY <1>o, <2>1, <2>2 DEF Batches, InHand
<1>3. QED BY <1>1, <1>2

-----------------------------------------------------------------------------
(* Awards: until a request dies, whoever is marked has been told or is about to be. *)

NoDeath == budget.crash = MaxCrashes
Owes(c, u) == Pc(c) \in {"mark", "publish"} /\ \E i \in DOMAIN Fresh(c) : Fresh(c)[i] = u
Reached(u) == told[u] > 0 \/ \E c \in Callers : Owes(c, u)
Marked == NoDeath => \A u \in Users : rsvp[u].attended => Reached(u)
\* An answer puts back what it has read of the attendance.
Carried == NoDeath => \A c \in Callers, u \in Users :
  Pc(c) = "answer" /\ User(c) = u /\ Row(c).attended => Reached(u)

LEMMA TimesIsPositive ==
  ASSUME NEW s \in Seq(Users), NEW x, NEW i \in DOMAIN s, s[i] = x
  PROVE  Times(s, x) > 0
<1>1. Len(s) \in Nat /\ DOMAIN s = 1..Len(s)  OBVIOUS
<1>2. IsFiniteSet(DOMAIN s)  BY <1>1, FS_Interval
<1>3. IsFiniteSet({j \in DOMAIN s : s[j] = x})  BY <1>2, FS_Subset
<1>4. {j \in DOMAIN s : s[j] = x} # {}  OBVIOUS
<1>5. Times(s, x) # 0  BY <1>3, <1>4, FS_EmptySet DEF Times
<1>6. QED BY <1>5, TimesIsNat

LEMMA StepDeath ==
  ASSUME Types, NEW c \in Callers, Simple(c), NoDeath'
  PROVE  NoDeath /\ ~ Dies(c)
<1>1. budget \in Budgets /\ MaxCrashes \in Nat  BY BoundAssumption DEF Types, BoundAssumption
<1>2. budget.crash \in 0..MaxCrashes  BY <1>1 DEF Budgets
<1>3. ~ Dies(c)  BY <1>1, <1>2 DEF Dies, NoDeath
<1>4. budget'.crash = budget.crash
  BY <1>3 DEF Simple, Starts, Ends, Reads, Answers, Takes, Looks, Marks, Counts, Publishes,
     Refreshes, Completes, Designates, Edits, Lives
<1>5. QED BY <1>3, <1>4 DEF NoDeath

LEMMA StepTold ==
  ASSUME Types, NEW c \in Callers, Simple(c), NEW x \in Users \cup {Designees}
  PROVE  /\ told[x] \in Nat /\ told'[x] \in Nat /\ told'[x] >= told[x]
         /\ Publishes(c) => told'[x] = told[x] + Times(Fresh(c), x)
<1>t. told \in [Users \cup {Designees} -> Nat] /\ Fresh(c) \in Seq(Users)  BY Fields DEF Types
<1>1. CASE Publishes(c)
  <2>1. told'[x] = told[x] + Times(Fresh(c), x)  BY <1>1 DEF Publishes
  <2>2. QED BY <1>t, <2>1, TimesIsNat
<1>2. CASE Designates(c)
  <2>1. ~ Publishes(c)  BY <1>2 DEF Designates, Publishes
  <2>2. QED BY <1>2, <1>t, <2>1 DEF Designates
<1>3. CASE ~ Publishes(c) /\ ~ Designates(c)
  <2>1. told' = told
    BY <1>3 DEF Simple, Starts, Ends, Reads, Answers, Takes, Looks, Marks, Counts,
       Refreshes, Completes, Edits, Dies
  <2>2. QED BY <1>3, <1>t, <2>1
<1>4. QED BY <1>1, <1>2, <1>3

LEMMA StepReached ==
  ASSUME Types, NEW c \in Callers, Simple(c), ~ Dies(c), NEW u \in Users, Reached(u)
  PROVE  Reached(u)'
<1>f. Fresh(c) \in Seq(Users)  BY Fields
<1>1. CASE told[u] > 0  BY <1>1, StepTold DEF Reached
<1>2. ASSUME NEW d \in Callers \ {c}, Owes(d, u) PROVE Reached(u)'
  BY <1>2 DEF Simple, Others, Owes, Reached
<1>3. CASE Owes(c, u)
  <2>1. PICK i \in DOMAIN Fresh(c) : Fresh(c)[i] = u  BY <1>3 DEF Owes
  <2>2. Fresh(c) # <<>>  BY <2>1
  <2>3. Marks(c) \/ Counts(c) \/ Publishes(c)
    BY <1>3 DEF Owes, Simple, Starts, Ends, Reads, Answers, Takes, Looks, Refreshes, Completes,
       Designates, Edits
  <2>4. CASE Marks(c)
    <3>1. PICK v \in Users : Pc(c)' = "mark" /\ Fresh(c)' \in {Fresh(c), Append(Fresh(c), v)}
      BY <2>4 DEF Marks
    <3>2. i \in DOMAIN Append(Fresh(c), v) /\ Append(Fresh(c), v)[i] = u  BY <1>f, <2>1
    <3>3. Owes(c, u)'  BY <2>1, <3>1, <3>2 DEF Owes
    <3>4. QED BY <3>3 DEF Reached
  <2>5. CASE Counts(c)
    <3>1. Owes(c, u)'  BY <1>3, <2>2, <2>5 DEF Counts, Owes
    <3>2. QED BY <3>1 DEF Reached
  <2>6. CASE Publishes(c)
    <3>1. Times(Fresh(c), u) > 0 /\ Times(Fresh(c), u) \in Nat
      BY <1>f, <2>1, TimesIsPositive, TimesIsNat
    <3>2. told'[u] > 0  BY <2>6, <3>1, StepTold
    <3>3. QED BY <3>2 DEF Reached
  <2>7. QED BY <2>3, <2>4, <2>5, <2>6
<1>4. QED BY <1>1, <1>2, <1>3 DEF Reached

LEMMA StepMarked ==
  ASSUME Types, Marked, Carried, NEW c \in Callers, Simple(c)
  PROVE  Marked' /\ Carried'
<1> SUFFICES ASSUME NoDeath' PROVE
      /\ \A u \in Users : rsvp'[u].attended => Reached(u)'
      /\ \A d \in Callers, u \in Users :
           Pc(d)' = "answer" /\ User(d)' = u /\ Row(d)'.attended => Reached(u)'
  BY DEF Marked, Carried
<1>0. NoDeath /\ ~ Dies(c)  BY StepDeath
<1>t. /\ rsvp \in [Users -> Rsvp] /\ Fresh(c) \in Seq(Users) /\ Known(c) \subseteq Users
      /\ \A d \in Callers : Pc(d) \in {"rsvp", "answer"} => User(d) \in Users
  BY Fields DEF Types, Aimed
<1>r. \A u \in Users : Reached(u) => Reached(u)'  BY <1>0, StepReached
<1>1. ASSUME NEW u \in Users, rsvp'[u].attended PROVE Reached(u)'
  <2>1. CASE Answers(c)
    <3>1. User(c) \in Users /\ Pc(c) = "answer"  BY <1>t, <2>1 DEF Answers
    <3>2. CASE u = User(c)
      <4>1. Row(c).attended  BY <1>1, <1>t, <2>1, <3>1, <3>2 DEF Answers
      <4>2. QED BY <1>0, <1>r, <3>1, <3>2, <4>1 DEF Carried
    <3>3. CASE u # User(c)
      <4>1. rsvp[u].attended  BY <1>1, <1>t, <2>1, <3>1, <3>3 DEF Answers
      <4>2. QED BY <1>0, <1>r, <4>1 DEF Marked
    <3>4. QED BY <3>2, <3>3
  <2>2. CASE Marks(c)
    <3>1. PICK v \in Users :
            /\ Pc(c)' = "mark"
            /\ rsvp' = [rsvp EXCEPT ![v] = IF v \in Known(c) THEN [rsvp[v] EXCEPT !.attended = TRUE]
                                           ELSE [response |-> "no", attended |-> TRUE]]
            /\ Fresh(c)' = IF v \notin Known(c) \/ ~ rsvp[v].attended THEN Append(Fresh(c), v)
                           ELSE Fresh(c)
      BY <2>2 DEF Marks
    <3>2. CASE rsvp[u].attended  BY <1>0, <1>r, <3>2 DEF Marked
    <3>3. CASE ~ rsvp[u].attended
      <4>1. u = v  BY <1>1, <1>t, <3>1, <3>3
      <4>2. Fresh(c)' = Append(Fresh(c), u)  BY <3>1, <3>3, <4>1
      <4>3. Len(Fresh(c)) + 1 \in DOMAIN Fresh(c)' /\ Fresh(c)'[Len(Fresh(c)) + 1] = u
        BY <1>t, <4>2
      <4>4. Owes(c, u)'  BY <3>1, <4>3 DEF Owes
      <4>5. QED BY <4>4 DEF Reached
    <3>4. QED BY <3>2, <3>3
  <2>3. CASE rsvp' = rsvp  BY <1>0, <1>1, <1>r, <2>3 DEF Marked
  <2>4. QED BY <2>1, <2>2, <2>3 DEF Simple, Starts, Ends, Reads, Takes, Looks, Counts, Publishes,
            Refreshes, Completes, Designates, Edits, Dies
<1>2. ASSUME NEW d \in Callers, NEW u \in Users, Pc(d)' = "answer", User(d)' = u, Row(d)'.attended
      PROVE  Reached(u)'
  <2>1. CASE d # c
    <3>1. Pc(d) = "answer" /\ User(d) = u /\ Row(d).attended  BY <1>2, <2>1 DEF Simple, Others
    <3>2. QED BY <1>0, <1>r, <3>1 DEF Carried
  <2>2. CASE d = c
    <3>1. Reads(c)
      BY <1>2, <2>2 DEF Simple, Starts, Ends, Answers, Takes, Looks, Marks, Counts, Publishes,
         Refreshes, Completes, Designates, Edits, Dies
    <3>2. User(c) = u /\ rsvp[u].attended  BY <1>2, <2>2, <3>1 DEF Reads
    <3>3. QED BY <1>0, <1>r, <3>2 DEF Marked
  <2>3. QED BY <2>1, <2>2
<1>3. QED BY <1>1, <1>2

-----------------------------------------------------------------------------
(* The designees of a completed event. *)

Edited == \A c \in Callers : Pc(c) = "edit" => Copy(c).status # "Completed"
Designated == NoDeath /\ event.status = "Completed" =>
  told[Designees] > 0 \/ \E c \in Callers : Pc(c) = "award"

LEMMA StepEdited ==
  ASSUME Edited, NEW c \in Callers, Simple(c)
  PROVE  Edited'
<1>1. \A d \in Callers \ {c} : Pc(d)' = Pc(d) /\ Copy(d)' = Copy(d)  BY DEF Simple, Others
<1>2. Pc(c)' = "edit" => Copy(c)'.status = "Upcoming"
  BY DEF Simple, Starts, Ends, Reads, Answers, Takes, Looks, Marks, Counts, Publishes,
     Refreshes, Completes, Designates, Edits, Dies
<1>3. QED BY <1>1, <1>2 DEF Edited

LEMMA StepDesignated ==
  ASSUME Types, Edited, Designated, NEW c \in Callers, Simple(c)
  PROVE  Designated'
<1> SUFFICES ASSUME NoDeath', event'.status = "Completed"
             PROVE  told'[Designees] > 0 \/ \E d \in Callers : Pc(d)' = "award"
  BY DEF Designated
<1>0. NoDeath /\ ~ Dies(c)  BY StepDeath
<1>t. told \in [Users \cup {Designees} -> Nat] /\ event \in Event  BY DEF Types
<1>1. CASE Completes(c)  BY <1>1 DEF Completes
<1>2. CASE Designates(c)
  <2>1. told'[Designees] = told[Designees] + 1  BY <1>2, <1>t DEF Designates
  <2>2. QED BY <1>t, <2>1
<1>3. CASE ~ Completes(c) /\ ~ Designates(c)
  <2>1. event.status = "Completed"
    <3>1. ~ Edits(c)  BY DEF Edits, Edited
    <3>2. QED BY <1>0, <1>3, <1>t, <3>1 DEF Simple, Starts, Ends, Reads, Answers, Takes, Looks, Marks,
              Counts, Publishes, Refreshes, Event
  <2>2. CASE told[Designees] > 0  BY <2>2, StepTold
  <2>3. ASSUME NEW d \in Callers, Pc(d) = "award" PROVE Pc(d)' = "award"
    <3>1. d # c
      BY <1>0, <1>3, <2>3 DEF Simple, Starts, Ends, Reads, Answers, Takes, Looks, Marks, Counts,
         Publishes, Refreshes, Edits
    <3>2. QED BY <2>3, <3>1 DEF Simple, Others
  <2>4. QED BY <1>0, <2>1, <2>2, <2>3 DEF Designated
<1>4. QED BY <1>1, <1>2, <1>3

-----------------------------------------------------------------------------
(* One request after the other. *)

Alone == ~ overlap => \A c, d \in Callers : c # d => Pc(c) = "idle" \/ Pc(d) = "idle"
\* What a request has read is still so.
Current == ~ overlap => \A c \in Callers :
  /\ Pc(c) \in {"complete", "edit", "cancel"} =>
       Copy(c).yes = event.yes /\ Copy(c).attended = event.attended
  /\ Pc(c) = "answer" => Row(c).response = rsvp[User(c)].response
  /\ Pc(c) = "mark" => \A u \in Users \ Known(c) : rsvp[u].response # "yes"

LEMMA AloneNow ==
  ASSUME Alone, NEW c \in Callers, Simple(c), ~ overlap'
  PROVE  ~ overlap /\ \A d \in Callers \ {c} : Pc(d) = "idle" /\ Pc(d)' = "idle"
<1>1. \A d \in Callers \ {c} : Pc(d)' = Pc(d)  BY DEF Simple, Others
<1>2. CASE Starts(c)  BY <1>1, <1>2 DEF Starts
<1>3. CASE ~ Starts(c)
  <2>1. overlap' = overlap /\ Pc(c) # "idle"
    BY <1>3 DEF Simple, Ends, Reads, Answers, Takes, Looks, Marks, Counts, Publishes,
       Refreshes, Completes, Designates, Edits, Dies, Lives
  <2>2. QED BY <1>1, <2>1 DEF Alone
<1>4. QED BY <1>2, <1>3

LEMMA StepAlone ==
  ASSUME Alone, NEW c \in Callers, Simple(c)
  PROVE  Alone'
BY AloneNow DEF Alone

LEMMA StepCurrent ==
  ASSUME Types, Alone, Current, NEW c \in Callers, Simple(c)
  PROVE  Current'
<1> SUFFICES ASSUME ~ overlap' PROVE
      /\ Pc(c)' \in {"complete", "edit", "cancel"} =>
           Copy(c)'.yes = event'.yes /\ Copy(c)'.attended = event'.attended
      /\ Pc(c)' = "answer" => Row(c)'.response = rsvp'[User(c)'].response
      /\ Pc(c)' = "mark" => \A u \in Users \ Known(c)' : rsvp'[u].response # "yes"
  BY AloneNow DEF Current
<1>t. rsvp \in [Users -> Rsvp]  BY DEF Types
<1>0. ~ overlap  BY AloneNow
<1>1. CASE Starts(c)  BY <1>1 DEF Starts
<1>2. CASE Reads(c)  BY <1>2 DEF Reads
<1>3. CASE Looks(c)  BY <1>3 DEF Looks
<1>4. CASE Refreshes(c)  BY <1>4 DEF Refreshes
<1>5. CASE Marks(c)
  <2>1. PICK v \in Users :
          /\ Pc(c) = "mark" /\ Pc(c)' = "mark" /\ Known(c)' = Known(c)
          /\ rsvp' = [rsvp EXCEPT ![v] = IF v \in Known(c) THEN [rsvp[v] EXCEPT !.attended = TRUE]
                                         ELSE [response |-> "no", attended |-> TRUE]]
    BY <1>5 DEF Marks
  <2>2. ASSUME NEW u \in Users \ Known(c) PROVE rsvp'[u].response # "yes"
    <3>1. rsvp[u].response # "yes"  BY <1>0, <2>1 DEF Current
    <3>2. CASE u = v  BY <1>t, <2>1, <3>2
    <3>3. CASE u # v  BY <1>t, <2>1, <3>1, <3>3
    <3>4. QED BY <3>2, <3>3
  <2>3. QED BY <2>1, <2>2
<1>6. CASE \/ Ends(c) \/ Answers(c) \/ Takes(c) \/ Counts(c) \/ Publishes(c) \/ Completes(c)
           \/ Designates(c) \/ Edits(c) \/ Dies(c)
  BY <1>6 DEF Ends, Answers, Takes, Counts, Publishes, Completes, Designates, Edits, Dies
<1>7. QED BY <1>1, <1>2, <1>3, <1>4, <1>5, <1>6 DEF Simple

-----------------------------------------------------------------------------
(* The counters of the event. *)

Coming == {u \in Users : rsvp[u].response = "yes"}
YesCounts == ~ overlap => event.yes = Cardinality(Coming)

LEMMA ComingIsFinite ==
  /\ IsFiniteSet(Coming) /\ Cardinality(Coming) \in Nat
  /\ IsFiniteSet(Coming') /\ Cardinality(Coming') \in Nat
<1>1. Coming \in SUBSET Users /\ Coming' \in SUBSET Users  BY DEF Coming
<1>2. QED BY <1>1, UsersAssumption, FS_Subset, FS_CardinalityType DEF UsersAssumption

LEMMA StepYes ==
  ASSUME Types, Alone, Current, YesCounts, NEW c \in Callers, Simple(c)
  PROVE  YesCounts'
<1> SUFFICES ASSUME ~ overlap' PROVE event'.yes = Cardinality(Coming')  BY DEF YesCounts
<1>0. ~ overlap /\ event.yes = Cardinality(Coming)  BY AloneNow DEF YesCounts
<1>t. /\ event \in Event /\ rsvp \in [Users -> Rsvp]
      /\ Pc(c) = "answer" => User(c) \in Users
      /\ Pc(c) = "complete" => Copy(c) \in Event
  BY DEF Types, Aimed
<1>1. CASE Answers(c)
  <2> DEFINE u == User(c)
  <2>1. u \in Users /\ Row(c).response = rsvp[u].response  BY <1>0, <1>1, <1>t DEF Answers, Current
  <2>2. event'.yes = event.yes + Yes(Answer(c)) - Yes(rsvp[u].response)
    BY <1>1, <1>t, <2>1 DEF Answers, Event
  <2>3. rsvp'[u].response = Answer(c) /\ \A v \in Users \ {u} : rsvp'[v] = rsvp[v]
    BY <1>1, <1>t, <2>1 DEF Answers
  <2>4. CASE Answer(c) = "yes"
    <3>1. Coming' = Coming \cup {u}  BY <2>1, <2>3, <2>4 DEF Coming
    <3>2. u \in Coming <=> rsvp[u].response = "yes"  BY <2>1 DEF Coming
    <3>3. Cardinality(Coming') = IF u \in Coming THEN Cardinality(Coming) ELSE Cardinality(Coming) + 1
      BY <3>1, ComingIsFinite, FS_AddElement
    <3>4. QED BY <1>0, <2>2, <2>4, <3>2, <3>3, ComingIsFinite DEF Yes
  <2>5. CASE Answer(c) # "yes"
    <3>1. Coming' = Coming \ {u}  BY <2>1, <2>3, <2>5 DEF Coming
    <3>2. u \in Coming <=> rsvp[u].response = "yes"  BY <2>1 DEF Coming
    <3>3. Cardinality(Coming') = IF u \in Coming THEN Cardinality(Coming) - 1 ELSE Cardinality(Coming)
      BY <3>1, ComingIsFinite, FS_RemoveElement
    <3>4. QED BY <1>0, <2>2, <2>5, <3>2, <3>3, ComingIsFinite DEF Yes
  <2>6. QED BY <2>4, <2>5
<1>2. CASE Marks(c)
  <2>1. PICK v \in Users :
          /\ Pc(c) = "mark" /\ event' = event
          /\ rsvp' = [rsvp EXCEPT ![v] = IF v \in Known(c) THEN [rsvp[v] EXCEPT !.attended = TRUE]
                                         ELSE [response |-> "no", attended |-> TRUE]]
    BY <1>2 DEF Marks
  <2>2. v \notin Known(c) => rsvp[v].response # "yes"  BY <1>0, <2>1 DEF Current
  <2>3. ASSUME NEW u \in Users PROVE rsvp'[u].response = "yes" <=> rsvp[u].response = "yes"
    <3>1. CASE u # v  BY <1>t, <2>1, <3>1
    <3>2. CASE u = v /\ v \in Known(c)
      <4>1. rsvp'[u] = [rsvp[v] EXCEPT !.attended = TRUE]  BY <1>t, <2>1, <3>2
      <4>2. rsvp[v] \in Rsvp  BY <1>t
      <4>3. QED BY <3>2, <4>1, <4>2 DEF Rsvp
    <3>3. CASE u = v /\ v \notin Known(c)  BY <1>t, <2>1, <2>2, <3>3
    <3>4. QED BY <3>1, <3>2, <3>3
  <2>4. Coming' = Coming  BY <2>3 DEF Coming
  <2>5. QED BY <1>0, <2>1, <2>4
<1>3. CASE ~ Answers(c) /\ ~ Marks(c)
  <2>1. rsvp' = rsvp
    BY <1>3 DEF Simple, Starts, Ends, Reads, Takes, Looks, Counts, Publishes,
       Refreshes, Completes, Designates, Edits, Dies
  <2>2. event'.yes = event.yes
    <3>1. CASE Counts(c)  BY <3>1, <1>t DEF Counts, Event
    <3>2. CASE Completes(c)
      <4>1. Copy(c) \in Event /\ Copy(c).yes = event.yes  BY <3>2, <1>0, <1>t DEF Completes, Current
      <4>2. QED BY <3>2, <4>1 DEF Completes, Event
    <3>3. CASE Edits(c)  BY <3>3, <1>0 DEF Edits, Current
    <3>4. QED BY <1>3, <3>1, <3>2, <3>3 DEF Simple, Starts, Ends, Reads, Takes, Looks, Publishes,
              Refreshes, Designates, Dies
  <2>3. Coming' = Coming  BY <2>1 DEF Coming
  <2>4. QED BY <1>0, <2>2, <2>3
<1>4. QED BY <1>1, <1>2, <1>3

AttendedCounts == ~ overlap /\ NoDeath =>
  /\ \A c \in Callers : Pc(c) = "publish" =>
       event.attended = Cardinality(AwardsToMembers) + Len(Fresh(c))
  /\ (\A c \in Callers : Pc(c) # "publish") => event.attended = Cardinality(AwardsToMembers)

\* Finitely many awards, as many as t says of each member.
LEMMA AwardsAreFinite ==
  ASSUME NEW a \in [Users -> Nat], NEW b \in [Users -> Nat]
  PROVE  IsFiniteSet(UNION {{u} \X ((a[u] + 1)..b[u]) : u \in Users})
<1> DEFINE Of(u) == {u} \X ((a[u] + 1)..b[u])
           T == {Of(u) : u \in Users}
           f == [u \in Users |-> Of(u)]
<1>1. f \in Surjection(Users, T)  BY DEF Surjection
<1>2. IsFiniteSet(T)
  <2> HIDE DEF f, T
  <2>1. QED BY <1>1, UsersAssumption, FS_Surjection DEF UsersAssumption
<1>3. ASSUME NEW u \in Users PROVE IsFiniteSet(Of(u))
  <2>1. a[u] + 1 \in Int /\ b[u] \in Int  OBVIOUS
  <2>2. IsFiniteSet((a[u] + 1)..b[u])  BY <2>1, FS_Interval
  <2>3. IsFiniteSet({u})  BY FS_Singleton
  <2>4. QED BY <2>2, <2>3, FS_Product
<1>4. \A X \in T : IsFiniteSet(X)  BY <1>3
<1>5. QED BY <1>2, <1>4, FS_UNION

\* The attendees of a list are as many as the awards published for it.
LEMMA MoreAwards ==
  ASSUME Types, NEW c \in Callers, Simple(c), Publishes(c)
  PROVE  Cardinality(AwardsToMembers') = Cardinality(AwardsToMembers) + Len(Fresh(c))
<1> DEFINE s == Fresh(c)
           a == [u \in Users |-> told[u]]
           b == [u \in Users |-> told'[u]]
           None == [u \in Users |-> 0]
           Place(u) == {i \in DOMAIN s : s[i] = u}
           Count(u) == (a[u] + 1)..b[u]
           More == UNION {{u} \X Count(u) : u \in Users}
<1>s. s \in Seq(Users) /\ Len(s) \in Nat /\ DOMAIN s = 1..Len(s) /\ \A i \in DOMAIN s : s[i] \in Users
  BY Fields
<1>t. \A u \in Users : /\ told[u] \in Nat /\ told'[u] \in Nat /\ told'[u] = told[u] + Times(s, u)
                       /\ Times(s, u) \in Nat
  BY <1>s, StepTold, TimesIsNat
<1>1. a \in [Users -> Nat] /\ b \in [Users -> Nat] /\ None \in [Users -> Nat]  BY <1>t
<1>2. AwardsToMembers = UNION {{u} \X ((None[u] + 1)..a[u]) : u \in Users}
  BY DEF AwardsToMembers
<1>3. IsFiniteSet(AwardsToMembers) /\ IsFiniteSet(More)  BY <1>1, <1>2, AwardsAreFinite
<1>4. /\ \A x : x \in AwardsToMembers <=> \E u \in Users : \E n \in 1..told[u] : x = <<u, n>>
      /\ \A x : x \in AwardsToMembers' <=> \E u \in Users : \E n \in 1..told'[u] : x = <<u, n>>
      /\ \A x : x \in More <=> \E u \in Users : \E n \in (told[u] + 1)..told'[u] : x = <<u, n>>
  BY DEF AwardsToMembers
<1>5. \A u \in Users : \A n :
       /\ n \in 1..told'[u] <=> n \in 1..told[u] \/ n \in (told[u] + 1)..told'[u]
       /\ ~ (n \in 1..told[u] /\ n \in (told[u] + 1)..told'[u])
  BY <1>t
<1>6. AwardsToMembers' = AwardsToMembers \cup More
  <2>1. \A x : x \in AwardsToMembers' <=> x \in AwardsToMembers \/ x \in More
    <3> TAKE x
    <3>1. ASSUME x \in AwardsToMembers' PROVE x \in AwardsToMembers \/ x \in More
      <4>1. PICK u \in Users : \E n \in 1..told'[u] : x = <<u, n>>  BY <1>4, <3>1
      <4>1a. PICK n \in 1..told'[u] : x = <<u, n>>  BY <4>1
      <4>2. n \in 1..told[u] \/ n \in (told[u] + 1)..told'[u]  BY <1>5, <4>1a
      <4>3. QED BY <1>4, <4>1a, <4>2
    <3>2. ASSUME x \in AwardsToMembers PROVE x \in AwardsToMembers'
      <4>1. PICK u \in Users : \E n \in 1..told[u] : x = <<u, n>>  BY <1>4, <3>2
      <4>1a. PICK n \in 1..told[u] : x = <<u, n>>  BY <4>1
      <4>2. n \in 1..told'[u]  BY <1>5, <4>1a
      <4>3. QED BY <1>4, <4>1a, <4>2
    <3>3. ASSUME x \in More PROVE x \in AwardsToMembers'
      <4>1. PICK u \in Users : \E n \in (told[u] + 1)..told'[u] : x = <<u, n>>  BY <1>4, <3>3
      <4>1a. PICK n \in (told[u] + 1)..told'[u] : x = <<u, n>>  BY <4>1
      <4>2. n \in 1..told'[u]  BY <1>5, <4>1a
      <4>3. QED BY <1>4, <4>1a, <4>2
    <3>4. QED BY <3>1, <3>2, <3>3
  <2> HIDE DEF More
  <2>2. QED BY <2>1
<1>7. AwardsToMembers \cap More = {}
  <2>1. ASSUME NEW x, x \in AwardsToMembers, x \in More PROVE FALSE
    <3>1. PICK u \in Users : \E n \in 1..told[u] : x = <<u, n>>  BY <1>4, <2>1
    <3>1a. PICK n \in 1..told[u] : x = <<u, n>>  BY <3>1
    <3>2. PICK v \in Users : \E m \in (told[v] + 1)..told'[v] : x = <<v, m>>  BY <1>4, <2>1
    <3>2a. PICK m \in (told[v] + 1)..told'[v] : x = <<v, m>>  BY <3>2
    <3>3. u = v /\ n = m  BY <3>1a, <3>2a
    <3>4. QED BY <1>5, <3>1a, <3>2a, <3>3
  <2> HIDE DEF More
  <2>2. QED BY <2>1
\* Each member's places in the list are as many as the awards told to the member.
<1>8. ASSUME NEW u \in Users PROVE Bijection(Place(u), Count(u)) # {}
  <2>1. IsFiniteSet(DOMAIN s)  BY <1>s, FS_Interval
  <2>2. IsFiniteSet(Place(u))  BY <2>1, FS_Subset
  <2>3. Cardinality(Place(u)) = Times(s, u)  BY DEF Times
  <2>4. a[u] + 1 \in Int /\ b[u] \in Int /\ a[u] \in Nat /\ b[u] = a[u] + Times(s, u) /\ Times(s, u) \in Nat
    BY <1>t
  <2>5. IsFiniteSet(Count(u))
        /\ Cardinality(Count(u)) = IF a[u] + 1 > b[u] THEN 0 ELSE b[u] - (a[u] + 1) + 1
    <3> HIDE DEF a, b
    <3>1. QED BY <2>4, FS_Interval
  <2>6. Cardinality(Count(u)) = Times(s, u)
    <3> HIDE DEF a, b
    <3>1. QED BY <2>4, <2>5
  <2> HIDE DEF Place, Count
  <2>7. QED BY <2>2, <2>3, <2>5, <2>6, FS_SameCardinalityBij DEF ExistsBijection
<1> DEFINE g == [u \in Users |-> CHOOSE h : h \in Bijection(Place(u), Count(u))]
           f == [j \in DOMAIN s |-> <<s[j], g[s[j]][j]>>]
<1>9. \A u \in Users : g[u] \in Bijection(Place(u), Count(u))
  <2> HIDE DEF Place, Count
  <2>1. QED BY <1>8
<1>10. \A u \in Users : /\ \A j \in Place(u) : g[u][j] \in Count(u)
                        /\ \A i, j \in Place(u) : g[u][i] = g[u][j] => i = j
                        /\ \A n \in Count(u) : \E j \in Place(u) : g[u][j] = n
  <2> HIDE DEF Place, Count, g
  <2>1. QED BY <1>9 DEF Bijection, Injection, IsInjective, Surjection
<1>11. f \in Bijection(DOMAIN s, More)
  <2>0. \A j \in DOMAIN s : s[j] \in Users /\ j \in Place(s[j])  BY <1>s
  <2>m. \A x : x \in More <=> \E u \in Users : \E n \in Count(u) : x = <<u, n>>  OBVIOUS
  <2>p. \A u \in Users : \A j \in Place(u) : j \in DOMAIN s /\ s[j] = u  OBVIOUS
  <2> HIDE DEF Place, Count, g, s, More
  <2>1. f \in [DOMAIN s -> More]  BY <1>10, <2>0, <2>m
  <2>2. \A i, j \in DOMAIN s : f[i] = f[j] => i = j
    <3> SUFFICES ASSUME NEW i \in DOMAIN s, NEW j \in DOMAIN s, f[i] = f[j] PROVE i = j  OBVIOUS
    <3>1. s[i] = s[j] /\ g[s[i]][i] = g[s[j]][j]  OBVIOUS
    <3>2. QED BY <1>10, <2>0, <3>1
  <2>3. \A x \in More : \E j \in DOMAIN s : f[j] = x
    <3> SUFFICES ASSUME NEW x \in More PROVE \E j \in DOMAIN s : f[j] = x  OBVIOUS
    <3>1. PICK u \in Users : \E n \in Count(u) : x = <<u, n>>  BY <2>m
    <3>1a. PICK n \in Count(u) : x = <<u, n>>  BY <3>1
    <3>2. PICK j \in Place(u) : g[u][j] = n  BY <1>10
    <3>3. j \in DOMAIN s /\ s[j] = u  BY <2>p
    <3>4. f[j] = x  BY <3>1a, <3>2, <3>3
    <3>5. QED BY <3>3, <3>4
  <2> HIDE DEF f
  <2>4. QED BY <2>1, <2>2, <2>3 DEF Bijection, Injection, IsInjective, Surjection
<1>12. Cardinality(More) = Len(s)
  <2>1. IsFiniteSet(DOMAIN s) /\ Cardinality(DOMAIN s) = Len(s)  BY <1>s, FS_Interval
  <2> HIDE DEF f, More, s
  <2>2. ExistsBijection(DOMAIN s, More)  BY <1>11 DEF ExistsBijection
  <2>3. QED BY <2>1, <2>2, FS_Bijection
<1>13. QED
  <2> HIDE DEF More, s
  <2>1. Cardinality(AwardsToMembers') =
          Cardinality(AwardsToMembers) + Cardinality(More) - Cardinality(AwardsToMembers \cap More)
    BY <1>3, <1>6, FS_Union
  <2>2. Cardinality(AwardsToMembers \cap More) = 0  BY <1>7, FS_EmptySet
  <2>3. Cardinality(AwardsToMembers) \in Nat  BY <1>3, FS_CardinalityType
  <2>4. Cardinality(AwardsToMembers') = Cardinality(AwardsToMembers) + Len(s)
    BY <1>s, <1>12, <2>1, <2>2, <2>3
  <2>5. QED BY <2>4 DEF s

LEMMA StepAttended ==
  ASSUME Types, Alone, Current, AttendedCounts, NEW c \in Callers, Simple(c)
  PROVE  AttendedCounts'
<1> SUFFICES ASSUME ~ overlap', NoDeath' PROVE
      /\ Pc(c)' = "publish" =>
           event'.attended = Cardinality(AwardsToMembers') + Len(Fresh(c)')
      /\ Pc(c)' # "publish" => event'.attended = Cardinality(AwardsToMembers')
  BY AloneNow DEF AttendedCounts
<1>0. /\ ~ overlap /\ NoDeath /\ ~ Dies(c)
      /\ Pc(c) = "publish" => event.attended = Cardinality(AwardsToMembers) + Len(Fresh(c))
      /\ Pc(c) # "publish" => event.attended = Cardinality(AwardsToMembers)
  BY AloneNow, StepDeath DEF AttendedCounts
<1>t. /\ event \in Event /\ Fresh(c) \in Seq(Users)
      /\ told \in [Users \cup {Designees} -> Nat]
      /\ Pc(c) = "complete" => Copy(c) \in Event
  BY Fields DEF Types, Aimed
<1>1. CASE Publishes(c)
  <2>1. Pc(c) = "publish" /\ Pc(c)' # "publish" /\ event' = event  BY <1>1 DEF Publishes
  <2>2. QED BY <1>0, <1>1, <2>1, MoreAwards
<1>2. CASE ~ Publishes(c)
  <2>1. AwardsToMembers' = AwardsToMembers
    <3>1. \A u \in Users : told'[u] = told[u]
      <4>1. CASE Designates(c)
        <5>1. Designees \notin Users  BY UsersAssumption DEF UsersAssumption
        <5>2. QED BY <1>t, <4>1, <5>1 DEF Designates
      <4>2. CASE told' = told  BY <4>2
      <4>3. QED BY <1>2, <4>1, <4>2 DEF Simple, Starts, Ends, Reads, Answers, Takes, Looks, Marks, Counts,
                Refreshes, Completes, Edits, Dies
    <3>2. QED BY <3>1 DEF AwardsToMembers
  <2>2. CASE Counts(c)
    <3>1. /\ Pc(c) = "mark" /\ Fresh(c)' = Fresh(c)
          /\ Pc(c)' = (IF Fresh(c) = <<>> THEN "marked" ELSE "publish")
          /\ event'.attended = event.attended + Len(Fresh(c))
      BY <2>2, <1>t DEF Counts, Event
    <3>2. event.attended \in Int /\ Len(<<>>) = 0  BY <1>t DEF Event
    <3>3. QED BY <1>0, <2>1, <3>1, <3>2
  <2>3. CASE ~ Counts(c)
    <3>1. Pc(c) # "publish" /\ Pc(c)' # "publish"
      BY <1>0, <1>2, <2>3 DEF Simple, Starts, Ends, Reads, Answers, Takes, Looks, Marks,
         Refreshes, Completes, Designates, Edits
    <3>2. event'.attended = event.attended
      <4>1. CASE Answers(c)  BY <4>1, <1>t DEF Answers, Event
      <4>2. CASE Completes(c)
        <5>1. Copy(c) \in Event /\ Copy(c).attended = event.attended
          BY <4>2, <1>0, <1>t DEF Completes, Current
        <5>2. QED BY <4>2, <5>1 DEF Completes, Event
      <4>3. CASE Edits(c)  BY <4>3, <1>0 DEF Edits, Current
      <4>4. QED BY <1>0, <1>2, <2>3, <4>1, <4>2, <4>3 DEF Simple, Starts, Ends, Reads, Takes, Looks,
                Marks, Refreshes, Designates
    <3>3. QED BY <1>0, <2>1, <3>1, <3>2
  <2>4. QED BY <2>2, <2>3
<1>3. QED BY <1>1, <1>2

-----------------------------------------------------------------------------
(* The inductive invariant. *)

Awarding == Marked /\ Carried /\ Edited /\ Designated
Counting == Alone /\ Current /\ YesCounts /\ AttendedCounts
IInv == Types /\ Batches /\ Awarding /\ Counting

LEMMA Initially == Init => IInv
<1> SUFFICES ASSUME Init PROVE IInv  OBVIOUS
<1>0. MaxRequests \in Nat /\ MaxCrashes \in Nat /\ LastDay \in Nat
  BY BoundAssumption DEF BoundAssumption
<1>1. \A c \in Callers : call[c] = Idle /\ Pc(c) = "idle"  BY DEF Init, Pc, Idle
<1>2. Types
  <2>1. event \in Event  BY DEF Init, Event
  <2>2. rsvp \in [Users -> Rsvp]  BY DEF Init, Nobody, Rsvp
  <2>3. applied \in Seq(BOOLEAN) /\ overlap \in BOOLEAN
    <3>1. applied = <<>> /\ overlap = FALSE  BY DEF Init
    <3>2. \A S : <<>> \in Seq(S)  OBVIOUS
    <3>3. applied \in Seq(BOOLEAN)  BY <3>1, <3>2, Zenon
    <3>4. QED BY <3>1, <3>3
  <2>4. told \in [Users \cup {Designees} -> Nat]  BY DEF Init
  <2>5. today \in Days
    <3>1. event.ends \in Days  BY <2>1 DEF Event
    <3>2. today = 1  BY DEF Init
    <3>3. QED BY <1>0, <3>1, <3>2 DEF Days
  <2>6. call \in [Callers -> Handlers]  BY Blank DEF Init
  <2>7. budget \in Budgets  BY <1>0 DEF Init, Budgets
  <2>8. \A c \in Callers : Aimed(c)  BY <1>1 DEF Aimed
  <2>9. QED BY <2>1, <2>2, <2>3, <2>4, <2>5, <2>6, <2>7, <2>8 DEF Types
<1>3. Batches  BY <1>1 DEF Batches, InHand
<1>4. Awarding
  BY <1>1 DEF Init, Awarding, Marked, Carried, Edited, Designated, Nobody
<1>5. Alone /\ Current  BY <1>1 DEF Alone, Current
<1>6. YesCounts
  <2>1. Coming = {}  BY DEF Init, Coming, Nobody
  <2>2. event.yes = 0  BY DEF Init
  <2>3. QED BY <2>1, <2>2, FS_EmptySet DEF YesCounts
<1>7. AttendedCounts
  <2>1. \A u \in Users : told[u] = 0  BY DEF Init
  <2>2. AwardsToMembers = {}  BY <2>1 DEF AwardsToMembers
  <2>3. event.attended = 0  BY DEF Init
  <2>4. QED BY <1>1, <2>2, <2>3, FS_EmptySet DEF AttendedCounts
<1>8. QED BY <1>2, <1>3, <1>4, <1>5, <1>6, <1>7 DEF IInv, Counting

\* A fetch, a new day or a stutter.
LEMMA StepAside ==
  ASSUME Types, Batches, Awarding, Counting, Aside
  PROVE  Batches' /\ Awarding' /\ Counting'
<1>1. \A c \in Callers :
        /\ Pc(c)' = Pc(c) /\ Copy(c)' = Copy(c) /\ Known(c)' = Known(c) /\ Fresh(c)' = Fresh(c)
        /\ User(c)' = User(c) /\ Row(c)' = Row(c) /\ Batch(c)' = Batch(c)
  BY DEF Aside, Pc, Copy, Known, Fresh, User, Row, Batch
<1>2. UNCHANGED <<event, rsvp, told, budget, overlap>>  BY DEF Aside
<1>3. Batches'
  <2>1. \A b \in DOMAIN applied : b \in DOMAIN applied' /\ applied'[b] = applied[b]
    <3>1. CASE applied' = applied  BY <3>1
    <3>2. CASE applied' = Append(applied, FALSE)
      <4>1. applied \in Seq(BOOLEAN) /\ Len(applied) \in Nat /\ DOMAIN applied = 1..Len(applied)
        BY DEF Types
      <4>2. ASSUME NEW b \in DOMAIN applied PROVE b \in DOMAIN applied' /\ applied'[b] = applied[b]
        <5>1. applied' = Append(applied, FALSE) /\ Len(applied') = Len(applied) + 1
              /\ DOMAIN applied' = 1..(Len(applied) + 1)
          BY <3>2, <4>1
        <5>2. b \in 1..Len(applied)  BY <4>1
        <5>3. QED BY <4>1, <5>1, <5>2
      <4>3. QED BY <4>2
    <3>3. QED BY <3>1, <3>2 DEF Aside
  <2>2. QED BY <1>1, <2>1 DEF Batches, InHand
<1>4. Awarding'
  <2>1. \A u : Reached(u)' <=> Reached(u)  BY <1>1, <1>2 DEF Reached, Owes
  <2>2. Marked' /\ Carried'
    BY <1>1, <1>2, <2>1 DEF Awarding, Marked, Carried, NoDeath
  <2>3. Edited' /\ Designated'
    BY <1>1, <1>2 DEF Awarding, Edited, Designated, NoDeath
  <2>4. QED BY <2>2, <2>3 DEF Awarding
<1>5. Counting'
  <2>1. Alone' /\ Current'  BY <1>1, <1>2 DEF Counting, Alone, Current
  <2>2. YesCounts'  BY <1>2 DEF Counting, YesCounts, Coming
  <2>3. AwardsToMembers' = AwardsToMembers  BY <1>2 DEF AwardsToMembers
  <2>4. AttendedCounts'  BY <1>1, <1>2, <2>3 DEF Counting, AttendedCounts, NoDeath
  <2>5. QED BY <2>1, <2>2, <2>4 DEF Counting
<1>6. QED BY <1>3, <1>4, <1>5

LEMMA Preserved == ASSUME IInv, [Next]_vars PROVE IInv'
<1>1. Types'  BY StepTypes DEF IInv
<1>2. ASSUME NEW c \in Callers, Simple(c) PROVE Batches' /\ Awarding' /\ Counting'
  <2>1. Batches'  BY <1>2, StepBatches DEF IInv
  <2>2. Marked' /\ Carried'  BY <1>2, StepMarked DEF IInv, Awarding
  <2>3. Edited' /\ Designated'  BY <1>2, StepEdited, StepDesignated DEF IInv, Awarding
  <2>4. Alone' /\ Current'  BY <1>2, StepAlone, StepCurrent DEF IInv, Counting
  <2>5. YesCounts'  BY <1>2, StepYes DEF IInv, Counting
  <2>6. AttendedCounts'  BY <1>2, StepAttended DEF IInv, Counting
  <2>7. QED BY <2>1, <2>2, <2>3, <2>4, <2>5, <2>6 DEF Awarding, Counting
<1>3. ASSUME Aside PROVE Batches' /\ Awarding' /\ Counting'  BY <1>3, StepAside DEF IInv
<1>4. QED BY <1>1, <1>2, <1>3, EveryStepIsSimple DEF IInv

THEOREM Inductive == Spec => []IInv
BY Initially, Preserved, PTL DEF Spec

LEMMA Implied ==
  IInv => TypeOK /\ AttendanceIsPaid /\ CountersFollowRows
<1> SUFFICES ASSUME IInv PROVE TypeOK /\ AttendanceIsPaid /\ CountersFollowRows  OBVIOUS
<1>1. TypeOK
  <2>1. \A c \in Callers : /\ call[c].list \in Seq(Users) /\ call[c].fresh \in Seq(Users)
    BY Fields DEF IInv, Fresh
  <2>2. \A c \in Callers : Aimed(c)  BY DEF IInv, Types
  <2>3. QED BY <2>1, <2>2 DEF IInv, Types, TypeOK, Aimed, Pc, User, Copy, Batch
<1>2. AttendedIsAwarded
  <2> SUFFICES ASSUME \A c \in Callers : Pc(c) = "idle", NoDeath
               PROVE  /\ \A u \in Users : rsvp[u].attended => told[u] > 0
                      /\ event.status = "Completed" => told[Designees] > 0
    BY DEF AttendedIsAwarded, Quiet, Pc, NoDeath
  <2>1. \A c \in Callers, u \in Users : ~ Owes(c, u)  BY DEF Owes
  <2>2. \A u \in Users : rsvp[u].attended => told[u] > 0
    BY <2>1 DEF IInv, Awarding, Marked, Reached
  <2>3. event.status = "Completed" => told[Designees] > 0
    BY DEF IInv, Awarding, Designated
  <2>4. QED BY <2>2, <2>3
<1>3. BatchAppliedOnce  BY DEF IInv, Batches, InHand, BatchAppliedOnce, Pc, Batch
<1>4. CountersFollowRows
  <2> SUFFICES ASSUME \A c \in Callers : Pc(c) = "idle", ~ overlap, NoDeath
               PROVE  /\ event.yes = Quantify(Users, LAMBDA u : rsvp[u].response = "yes")
                      /\ event.attended = Cardinality(AwardsToMembers)
    BY DEF CountersFollowRows, Quiet, Pc, NoDeath
  <2>1. event.yes = Cardinality(Coming)  BY DEF IInv, Counting, YesCounts
  <2>2. event.attended = Cardinality(AwardsToMembers)  BY DEF IInv, Counting, AttendedCounts
  <2>3. QED BY <2>1, <2>2 DEF Quantify, Coming
<1>5. QED BY <1>1, <1>2, <1>3, <1>4 DEF AttendanceIsPaid

-----------------------------------------------------------------------------
(* What is so in every behaviour, for any members, lists, requests and bounds. *)

\* The event, its answers, batches and notices, and what a request is at work with, are
\* what they are made of (the items of the events table).
THEOREM TypeCorrect == Spec => []TypeOK
BY Inductive, Implied, PTL

\* Whoever is marked as having attended and the designees of a completed event have an
\* award published, unless a request died, and one request applies a Teams batch (_commit,
\* award_on_completion, teams_apply).
THEOREM AttendanceAlwaysPaid == Spec => []AttendanceIsPaid
BY Inductive, Implied, PTL

\* Requests that come one after the other leave the counters of the event at what the
\* rows and the published awards say (put_rsvp_with_counters, bump_event_counters, put_event).
THEOREM CountersAlwaysFollowRows == Spec => []CountersFollowRows
BY Inductive, Implied, PTL
=============================================================================
