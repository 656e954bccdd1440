--------------------------- MODULE Announcements ---------------------------
(***************************************************************************)
(* The announcements service: leaders post, edit and delete announcements, *)
(* each one row of a table that every reader scans; the events service has *)
(* some posted for it, and the identity service, by its notices, has those *)
(* of a deleted group hidden and those of a restored group shown again.    *)
(*                                                                         *)
(*   row[a]    there: "whole", or "part" when an update made it anew       *)
(*   gone      the groups that are deleted, as identity has it             *)
(*   sent      the notices published, numbered in order; seen those that   *)
(*             run_once has claimed, due those to be delivered             *)
(*   task[c]   an invocation: the copy of the row it holds, or the rows    *)
(*             that are left of the scan it made                           *)
(*   today     the day; a row is to expire                                 *)
(*   optIns, blasts   ghosts: how often a was opted in, how often its      *)
(*             audience was mailed                                         *)
(*   fresh     ghost: the rows no notice of a group has found yet          *)
(*   crossed   ghost: the rows written or marked by a task whose copy or   *)
(*             scan of them was no longer true                             *)
(*   lost, late   ghosts: a task died; a notice overtook an earlier one    *)
(***************************************************************************)
EXTENDS Integers, Sequences, FiniteSets

CONSTANTS Ids, Groups, Leaders, LedBy, NoGroup, Targets, Tasks, Terms, Budgets

VARIABLES row, gone, sent, seen, due, task, today, optIns, blasts, fresh, crossed, lost, late, budget

table == <<row, fresh, crossed, optIns>>
notices == <<gone, sent, seen, due, late>>
vars == <<table, notices, task, today, blasts, lost, budget>>

NoRow == [there |-> "none", by |-> NoGroup, groups |-> {}, opted |-> FALSE, marked |-> FALSE,
          hidden |-> FALSE, until |-> 0, origin |-> 0]
NoTask == [do |-> "idle", ann |-> 0, read |-> NoRow, copy |-> NoRow, event |-> 0, left |-> {},
           hide |-> FALSE]

Init ==
  /\ row = [a \in Ids |-> NoRow] /\ gone = {} /\ sent = <<>> /\ seen = {} /\ due = {}
  /\ task = [c \in Tasks |-> NoTask] /\ today = 0
  /\ optIns = [a \in Ids |-> 0] /\ blasts = [a \in Ids |-> 0]
  /\ fresh = {} /\ crossed = {} /\ lost = FALSE /\ late = FALSE
  /\ budget \in Budgets

Spend(b) == budget[b] > 0 /\ budget' = [budget EXCEPT ![b] = @ - 1]
Idle == CHOOSE c \in Tasks \cup {0} : IF c = 0 THEN \A o \in Tasks : task[o] # NoTask
                                     ELSE task[c] = NoTask /\ \A o \in Tasks : o < c => task[o] # NoTask
\* Every row has an id of its own.
Unused == {a \in Ids : row[a] = NoRow /\ a \notin crossed /\ optIns[a] = 0 /\ blasts[a] = 0
                        /\ a \notin fresh /\ \A c \in Tasks : task[c].ann # a /\ a \notin task[c].left}

-----------------------------------------------------------------------------
(* A leader of a group posts to that group, a community leader to everybody  *)
(* or to the groups he names.                                                *)
normalize_target(u) == IF LedBy[u] # NoGroup THEN {{LedBy[u]}} ELSE Targets

\* Two days when the leader gives none, ninety at most.
resolve_expiry(d) == today + d

\* _build_item
BuildItem(u, g, opted, until, origin) ==
  [there |-> "whole", by |-> u, groups |-> g, opted |-> opted, marked |-> opted,
   hidden |-> FALSE, until |-> until, origin |-> origin]

\* put: the row whole.  read is what the copy was made from.
Put(a, read, new) ==
  /\ row' = [row EXCEPT ![a] = new]
  /\ optIns' = [optIns EXCEPT ![a] = @ + IF new.opted /\ ~row[a].opted THEN 1 ELSE 0]
  /\ fresh' = IF row[a].groups # new.groups \/ row[a] = NoRow THEN fresh \cup {a} ELSE fresh
  /\ crossed' = IF row[a] # read THEN crossed \cup {a} ELSE crossed

Store(c, a, new) ==
  /\ Put(a, NoRow, new)
  /\ task' = [task EXCEPT ![c] = [NoTask EXCEPT !.do = "publish", !.ann = a, !.copy = new]]

Create(c, a, u) ==
  /\ c = Idle
  /\ \E g \in normalize_target(u), opted \in BOOLEAN, d \in Terms :
       Store(c, a, BuildItem(u, g, opted, resolve_expiry(d), 0))
  /\ Spend("create")
  /\ UNCHANGED <<notices, today, blasts, lost>>

EditReads(c, a) ==
  /\ c = Idle /\ row[a].there = "whole"
  /\ \E g \in normalize_target(row[a].by) \cup {row[a].groups}, opted \in BOOLEAN,
        t \in {row[a].until} \cup {resolve_expiry(d) : d \in Terms} :
       task' = [task EXCEPT ![c] = [NoTask EXCEPT !.do = "edit", !.ann = a, !.read = row[a],
                  !.copy = [row[a] EXCEPT !.groups = g, !.opted = opted, !.until = t]]]
  /\ Spend("edit")
  /\ UNCHANGED <<table, notices, today, blasts, lost>>

NewlyOpted(t) == t.copy.opted /\ ~t.read.opted

EditWrites(c) ==
  /\ task[c].do = "edit"
  /\ Put(task[c].ann, task[c].read, task[c].copy)
  /\ task' = [task EXCEPT ![c] = IF NewlyOpted(@) THEN [@ EXCEPT !.do = "mark", !.read = task[c].copy]
                                 ELSE NoTask]
  /\ UNCHANGED <<notices, today, blasts, lost, budget>>

\* A second put, with emailSent.
EditMarks(c) ==
  /\ task[c].do = "mark"
  /\ LET new == [task[c].copy EXCEPT !.marked = TRUE]
     IN  /\ Put(task[c].ann, task[c].read, new)
         /\ task' = [task EXCEPT ![c] = [NoTask EXCEPT !.do = "publish", !.ann = task[c].ann, !.copy = new]]
  /\ UNCHANGED <<notices, today, blasts, lost, budget>>

\* AnnouncementPublished; it is mailed when its item is opted in.
Publish(c) ==
  /\ task[c].do = "publish"
  /\ blasts' = [blasts EXCEPT ![task[c].ann] = @ + IF task[c].copy.opted THEN 1 ELSE 0]
  /\ task' = [task EXCEPT ![c] = NoTask]
  /\ UNCHANGED <<table, notices, today, lost, budget>>

\* By its author or a community leader.
Delete(a) ==
  /\ row[a].there = "whole"
  /\ row' = [row EXCEPT ![a] = NoRow]
  /\ Spend("delete")
  /\ UNCHANGED <<notices, task, today, optIns, blasts, fresh, crossed, lost>>

\* DynamoDB removes a row some time after its ttl.
TtlRemoves(a) ==
  /\ row[a].there = "whole" /\ row[a].until < today
  /\ row' = [row EXCEPT ![a] = NoRow]
  /\ UNCHANGED <<notices, task, today, optIns, blasts, fresh, crossed, lost, budget>>

-----------------------------------------------------------------------------
(* The notices.                                                              *)
Notify(e) == sent' = Append(sent, e) /\ due' = due \cup {Len(sent')}

SoftDeleteGroup(g) ==
  /\ g \notin gone /\ gone' = gone \cup {g}
  /\ Notify([type |-> "GroupSoftDeleted", group |-> {g}, email |-> FALSE])
  /\ Spend("group")
  /\ UNCHANGED <<table, seen, late, task, today, blasts, lost>>

RestoreGroup(g) ==
  /\ g \in gone /\ gone' = gone \ {g}
  /\ Notify([type |-> "GroupRestored", group |-> {g}, email |-> FALSE])
  /\ Spend("group")
  /\ UNCHANGED <<table, seen, late, task, today, blasts, lost>>

\* With announce set; group is empty for an event of the community.
EventCreated ==
  /\ \E g \in Targets, mail \in BOOLEAN :
       Cardinality(g) < 2 /\ Notify([type |-> "EventCreated", group |-> g, email |-> mail])
  /\ Spend("event")
  /\ UNCHANGED <<table, gone, seen, late, task, today, blasts, lost>>

targeting_group(g) == {a \in Ids : row[a].there = "whole" /\ g \subseteq row[a].groups}

\* A notice of a group scans the table; another has an announcement posted.
Dispatch(c, n) ==
  LET e == sent[n] IN
  IF e.type = "EventCreated"
  THEN /\ task' = [task EXCEPT ![c] = [NoTask EXCEPT !.do = "post", !.event = n]]
       /\ UNCHANGED fresh
  ELSE /\ task' = [task EXCEPT ![c] = [NoTask EXCEPT !.do = "hide", !.event = n,
                     !.left = targeting_group(e.group), !.hide = (e.type = "GroupSoftDeleted")]]
       /\ fresh' = fresh \ targeting_group(e.group)

\* Mutant: a second delivery is handled like the first.
HandleEach(c, n) ==
  /\ n \in due /\ c = Idle /\ due' = due \ {n} /\ seen' = seen \cup {n}
  /\ Dispatch(c, n)
  /\ late' = (late \/ \E k \in 1 .. n - 1 : k \in due)
  /\ UNCHANGED <<row, gone, sent, today, optIns, blasts, crossed, lost, budget>>

\* run_once, then the handler.
Handle(c, n) ==
  /\ n \in due /\ due' = due \ {n} /\ seen' = seen \cup {n}
  /\ IF n \in seen THEN UNCHANGED <<task, fresh>> ELSE c = Idle /\ Dispatch(c, n)
  /\ late' = (late \/ \E k \in 1 .. n - 1 : k \in due \/ \E o \in Tasks : task[o].event = k)
  /\ UNCHANGED <<row, gone, sent, today, optIns, blasts, crossed, lost, budget>>

AutoPost(c, a) ==
  /\ task[c].do = "post"
  /\ \E u \in Leaders, d \in Terms :
       Store(c, a, BuildItem(u, sent[task[c].event].group, sent[task[c].event].email, resolve_expiry(d), task[c].event))
  /\ UNCHANGED <<notices, today, blasts, lost, budget>>

\* An update creates the row when it is gone.
set_group_hidden(r, hide) ==
  IF r.there = "none" THEN [NoRow EXCEPT !.there = "part", !.hidden = hide] ELSE [r EXCEPT !.hidden = hide]

SetGroupHidden(c) ==
  /\ task[c].do = "hide"
  /\ IF task[c].left = {} THEN task' = [task EXCEPT ![c] = NoTask] /\ UNCHANGED table
     ELSE \E a \in task[c].left :
            /\ row' = [row EXCEPT ![a] = set_group_hidden(@, task[c].hide)]
            /\ crossed' = IF row[a].there = "whole" /\ sent[task[c].event].group \subseteq row[a].groups
                          THEN crossed ELSE crossed \cup {a}
            /\ task' = [task EXCEPT ![c].left = @ \ {a}]
            /\ UNCHANGED <<optIns, fresh>>
  /\ UNCHANGED <<notices, today, blasts, lost, budget>>

DeliverAgain ==
  /\ \E n \in seen \ due : due' = due \cup {n}
  /\ Spend("again")
  /\ UNCHANGED <<table, gone, sent, seen, late, task, today, blasts, lost>>

\* An invocation ends before its work does; its claim stays.
Dies(c) ==
  /\ task[c] # NoTask /\ task' = [task EXCEPT ![c] = NoTask] /\ lost' = TRUE
  /\ Spend("dies")
  /\ UNCHANGED <<table, notices, today, blasts>>

Day ==
  /\ today' = today + 1
  /\ Spend("days")
  /\ UNCHANGED <<table, notices, task, blasts, lost>>

-----------------------------------------------------------------------------
Next ==
  \/ \E c \in Tasks :
       \/ \E a \in Unused : AutoPost(c, a) \/ \E u \in Leaders : Create(c, a, u)
       \/ \E a \in Ids : EditReads(c, a)
       \/ \E n \in due : Handle(c, n)
       \/ EditWrites(c) \/ EditMarks(c) \/ Publish(c) \/ SetGroupHidden(c) \/ Dies(c)
  \/ \E a \in Ids : Delete(a) \/ TtlRemoves(a)
  \/ \E g \in Groups : SoftDeleteGroup(g) \/ RestoreGroup(g)
  \/ EventCreated \/ DeliverAgain \/ Day

Spec == Init /\ [][Next]_vars

-----------------------------------------------------------------------------
(* What a reader of some groups is shown: _audience_match over a scan.       *)
Shown(a) == row[a].there # "none" /\ ~row[a].hidden /\ (row[a].there = "whole" => row[a].until > today)
_audience_match(a, mine) == row[a].groups = {} \/ row[a].groups \cap mine # {}
Panel(mine) == {a \in Ids : Shown(a) /\ _audience_match(a, mine)}

TypeOK ==
  /\ gone \subseteq Groups /\ due \cup seen \subseteq DOMAIN sent
  /\ \A a \in Ids :
       /\ row[a].there \in {"none", "part", "whole"}
       /\ row[a].there = "whole" => /\ row[a].by \in Leaders /\ row[a].groups \subseteq Groups
                                    /\ row[a].marked => row[a].opted \/ optIns[a] > 0
       /\ row[a].there = "none" => row[a] = NoRow

Settled == due = {} /\ \A c \in Tasks : task[c] = NoTask

(* BR-13.  Once every notice is handled, in order, the announcements of a    *)
(* group are on its members' panels just when the group is there: those the  *)
(* last notice found, and that no edit from before it has put back.          *)
HiddenWithGroup ==
  Settled /\ ~lost /\ ~late =>
    \A a \in Ids \ (fresh \cup crossed), g \in Groups :
      row[a].there = "whole" /\ row[a].groups = {g} /\ row[a].until > today =>
        (a \in Panel({g}) <=> g \notin gone)

(* BR-10.  The audience is mailed once for each time its author opted in,    *)
(* also when the announcement comes from an event.                           *)
BlastPerOptIn ==
  Settled /\ ~lost => \A a \in Ids \ crossed : blasts[a] = optIns[a]

(* BR-15.  An event is posted once, however often it is delivered.           *)
OnePostPerEvent ==
  \A a, b \in Ids : row[a].origin # 0 /\ row[a].origin = row[b].origin => a = b
=============================================================================
