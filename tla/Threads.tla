------------------------------ MODULE Threads ------------------------------
(***************************************************************************)
(* One post of the forums service with its replies, reactions and reports. *)
(* A request reads first and writes afterwards, each write one transaction *)
(* or one conditional put; another request, or a death, comes in between.  *)
(*                                                                         *)
(*   post       the POST# item: deleted, replyCount, reactionCounts and    *)
(*              the accepted reply it points at                            *)
(*   reply[r]   "none", "live" or "deleted" (soft_delete_reply)            *)
(*   kind[p]    the REACTION# row of p, or NoOne                           *)
(*   report[n]  status and reporter of the n-th report                      *)
(*   dedupe     the reporters that have a REPORTDEDUPE# item               *)
(*   rate[h][p] p's RATE# counter of hour h; hour is the present one       *)
(*   call[c]    <<>> or the request c serves: who, what it read, its steps *)
(*   crossed    ghost: two requests about one thing have overlapped        *)
(*   again      ghost: a report was moderated that was not open, or twice  *)
(*              at once                                                    *)
(*                                                                         *)
(* Role and Home say who a person is and whether the group of the post is  *)
(* one of theirs; Author wrote the post.                                   *)
(***************************************************************************)
EXTENDS Integers, Sequences, FiniteSets

CONSTANTS People, NoOne, Author, Role, Home, Replies, Kinds, Reports, Callers, HourlyLimit, Hours,
  Budgets

ASSUME NamesAssumption ==
  NoOne \notin People /\ NoOne \notin Kinds /\ NoOne \notin Replies /\ NoOne \notin Reports
ASSUME PeopleAssumption == IsFiniteSet(People) /\ IsFiniteSet(Replies)
ASSUME CallersAssumption == IsFiniteSet(Callers) /\ Callers # {}
ASSUME NumbersAssumption == HourlyLimit \in Nat \ {0} /\ Hours \in Nat \ {0}
ASSUME BudgetsAssumption == Budgets \subseteq [requests : Nat, deaths : Nat]

VARIABLES post, reply, kind, report, dedupe, rate, hour, call, crossed, again, budget

ghosts == <<crossed, again>>
vars == <<post, reply, kind, report, dedupe, rate, hour, call, ghosts, budget>>

NoReport == [status |-> "none", by |-> NoOne]

\* What a request holds: the steps it has still to take, who sent it, what it is about,
\* and what it has read or was given.
NoRequest == [todo |-> <<>>, who |-> NoOne, on |-> <<>>, reply |-> NoOne, accepted |-> FALSE,
              from |-> NoOne, to |-> NoOne, report |-> NoOne]

Init ==
  /\ post = [deleted |-> FALSE, replies |-> 0, reactions |-> [k \in Kinds |-> 0], answer |-> NoOne]
  /\ reply = [r \in Replies |-> [state |-> "none", by |-> NoOne]]
  /\ kind = [p \in People |-> NoOne] /\ report = [n \in Reports |-> NoReport] /\ dedupe = {}
  /\ rate = [h \in 1..Hours |-> [p \in People |-> 0]] /\ hour = 1
  /\ call = [c \in Callers |-> <<>>] /\ crossed = FALSE /\ again = FALSE
  /\ budget \in Budgets

-----------------------------------------------------------------------------
(* Who may do what (authz.py).                                               *)
IsAdmin(p) == Role[p] = "Administrator"
group_access(p) == ~IsAdmin(p) /\ (Role[p] = "CommunityLeader" \/ Home[p])
leads(p) == Role[p] = "CommunityLeader" \/ (Role[p] = "UserGroupLeader" /\ Home[p])
can_delete(p, author) == ~IsAdmin(p) /\ (p = author \/ leads(p))
pin_or_accept(p) == leads(p)
moderation(p) == leads(p)

(* A request begins with its steps; subject is what it is about, which       *)
(* another request may be at work on.                                        *)
Begin(c, p, steps, subject, held) ==
  /\ call[c] = <<>> /\ budget.requests > 0
  /\ call' = [call EXCEPT ![c] = <<[held EXCEPT !.todo = steps, !.who = p, !.on = subject]>>]
  /\ crossed' = (crossed \/ \E o \in Callers \ {c} : call[o] # <<>> /\ call[o][1].on = subject)
  /\ budget' = [budget EXCEPT !.requests = @ - 1]
Does(c, step) == call[c] # <<>> /\ Head(call[c][1].todo) = step
Step(c) ==
  /\ LET q == call[c][1]
     IN  call' = [call EXCEPT ![c] = IF Len(q.todo) = 1 THEN <<>>
                                     ELSE <<[q EXCEPT !.todo = Tail(q.todo)]>>]
  /\ UNCHANGED <<crossed, budget>>
Taken(subject) == \E c \in Callers : call[c] # <<>> /\ call[c][1].on = subject
\* Ids are new; the numbers stand for them in the order they are made.
FreeReply(r) == reply[r].state = "none" /\ ~Taken(<<"reply", r>>)
FreeReport(n) == report[n] = NoReport /\ ~Taken(<<"report", n>>)
NewReply(r) == FreeReply(r) /\ \A q \in Replies : FreeReply(q) => r <= q
NewReport(n) == FreeReport(n) /\ \A q \in Reports : FreeReport(q) => n <= q

-----------------------------------------------------------------------------
(* Replies.                                                                  *)

check_rate(p) == rate[hour][p] < HourlyLimit

\* _create_reply up to its first write.
CreateReply(c, p, r) ==
  /\ group_access(p) /\ check_rate(p) /\ NewReply(r)
  /\ Begin(c, p, <<"store", "rate">>, <<"reply", r>>, [NoRequest EXCEPT !.reply = r])
  /\ UNCHANGED <<post, reply, kind, report, dedupe, rate, hour, again>>

\* create_reply_transact: the reply and the count of the post, at once.
StoreReply(c) ==
  /\ Does(c, "store")
  /\ LET q == call[c][1]
     IN  reply' = [reply EXCEPT ![q.reply] = [state |-> "live", by |-> q.who]]
  /\ post' = [post EXCEPT !.replies = @ + 1]
  /\ Step(c) /\ UNCHANGED <<kind, report, dedupe, rate, hour, again>>

\* increment_rate, after the fact; mentions and followers are told afterwards.
IncrementRate(c) ==
  /\ Does(c, "rate") /\ rate' = [rate EXCEPT ![hour][call[c][1].who] = @ + 1]
  /\ Step(c) /\ UNCHANGED <<post, reply, kind, report, dedupe, hour, again>>

\* rate_key names the hour: the next one has a counter of its own.
NextHour ==
  /\ hour < Hours /\ hour' = hour + 1
  /\ UNCHANGED <<post, reply, kind, report, dedupe, rate, call, ghosts, budget>>

\* _resolve_reply and the author-or-leader rule.
DeleteReply(c, p, r) ==
  /\ ~post.deleted /\ group_access(p) /\ reply[r].state = "live" /\ can_delete(p, reply[r].by)
  /\ Begin(c, p, <<"drop">>, <<"reply", r>>, 
           [NoRequest EXCEPT !.reply = r, !.accepted = (post.answer = r)])
  /\ UNCHANGED <<post, reply, kind, report, dedupe, rate, hour, again>>

\* Mutant: the pointer of the post is left where it is.
soft_delete_reply_only(r, accepted) ==
  /\ reply' = [reply EXCEPT ![r].state = "deleted"]
  /\ post' = [post EXCEPT !.replies = @ - 1]

\* Its condition is that the item exists, which a deleted reply's does.
soft_delete_reply(r, accepted) ==
  /\ reply' = [reply EXCEPT ![r].state = "deleted"]
  /\ post' = [post EXCEPT !.replies = @ - 1, !.answer = IF accepted THEN NoOne ELSE @]

DropReply(c) ==
  /\ Does(c, "drop") /\ soft_delete_reply(call[c][1].reply, call[c][1].accepted)
  /\ Step(c) /\ UNCHANGED <<kind, report, dedupe, rate, hour, again>>

\* _accept_answer of a reply the thread lists; the replies' own flags and what
\* Contributions makes of them are AcceptedAnswers'.
Accept(c, p, r) ==
  /\ group_access(p) /\ (p = Author \/ pin_or_accept(p)) /\ reply[r].state = "live"
  /\ Begin(c, p, <<"point">>, <<"reply", r>>, [NoRequest EXCEPT !.reply = r])
  /\ UNCHANGED <<post, reply, kind, report, dedupe, rate, hour, again>>

PointAtAnswer(c) ==
  /\ Does(c, "point") /\ post' = [post EXCEPT !.answer = call[c][1].reply]
  /\ Step(c) /\ UNCHANGED <<reply, kind, report, dedupe, rate, hour, again>>

-----------------------------------------------------------------------------
(* Reactions.                                                                *)

\* _toggle_reaction: the kind asked for, or none if it is the one there is.
React(c, p, k) ==
  /\ group_access(p) /\ p # Author
  /\ LET to == IF k = kind[p] THEN NoOne ELSE k
     IN  Begin(c, p, <<"react">>, <<"reaction", p>>, [NoRequest EXCEPT !.from = kind[p], !.to = to])
  /\ UNCHANGED <<post, reply, kind, report, dedupe, rate, hour, again>>

\* The one update of set_reaction_transact.
Counts(counts, from, to) ==
  [k \in Kinds |-> counts[k] + (IF k = to THEN 1 ELSE 0) - (IF k = from THEN 1 ELSE 0)]

SetReaction(c) ==
  /\ Does(c, "react")
  /\ LET q == call[c][1]
     IN  /\ kind' = [kind EXCEPT ![q.who] = q.to]
         /\ post' = [post EXCEPT !.reactions = Counts(@, q.from, q.to)]
  /\ Step(c) /\ UNCHANGED <<reply, report, dedupe, rate, hour, again>>

-----------------------------------------------------------------------------
(* Reports and moderation.                                                   *)

\* put_report_dedupe: the item is put, or the report is refused.
Report(c, p, n) ==
  /\ group_access(p) /\ NewReport(n)
  /\ p \notin dedupe /\ dedupe' = dedupe \cup {p}
  /\ Begin(c, p, <<"report">>, <<"report", n>>, [NoRequest EXCEPT !.report = n])
  /\ UNCHANGED <<post, reply, kind, report, rate, hour, again>>

PutReport(c) ==
  /\ Does(c, "report")
  /\ report' = [report EXCEPT ![call[c][1].report] = [status |-> "Open", by |-> call[c][1].who]]
  /\ Step(c) /\ UNCHANGED <<post, reply, kind, dedupe, rate, hour, again>>

\* Mutant: the reporter may report again before the report is closed.
DismissStepsSwapped == <<"allow", "Dismissed">>

DismissSteps == <<"Dismissed", "allow">>

ActionSteps == <<"remove", "Actioned">>

\* _dismiss_report and _action_report of any report: its status is not looked at.
Moderate(c, p, n, steps) ==
  /\ moderation(p) /\ report[n] # NoReport
  /\ Begin(c, p, steps, <<"moderate", n>>, [NoRequest EXCEPT !.report = n])
  /\ again' = (again \/ report[n].status # "Open" \/ Taken(<<"moderate", n>>))
  /\ UNCHANGED <<post, reply, kind, report, dedupe, rate, hour>>

\* update_report_status.
Resolve(c, status) ==
  /\ Does(c, status) /\ report' = [report EXCEPT ![call[c][1].report].status = status]
  /\ Step(c) /\ UNCHANGED <<post, reply, kind, dedupe, rate, hour, again>>

\* delete_report_dedupe.
Allow(c) ==
  /\ Does(c, "allow") /\ dedupe' = dedupe \ {report[call[c][1].report].by}
  /\ Step(c) /\ UNCHANGED <<post, reply, kind, report, rate, hour, again>>

\* update_post with deleted, by a moderator or by _delete_post.
Remove(c) ==
  /\ Does(c, "remove") /\ post' = [post EXCEPT !.deleted = TRUE]
  /\ Step(c) /\ UNCHANGED <<reply, kind, report, dedupe, rate, hour, again>>

DeletePost(c, p) ==
  /\ group_access(p) /\ can_delete(p, Author)
  /\ Begin(c, p, <<"remove">>, <<"post", 1>>, NoRequest)
  /\ UNCHANGED <<post, reply, kind, report, dedupe, rate, hour, again>>

\* The invocation ends where it is.
Die(c) ==
  /\ call[c] # <<>> /\ budget.deaths > 0 /\ budget' = [budget EXCEPT !.deaths = @ - 1]
  /\ call' = [call EXCEPT ![c] = <<>>]
  /\ UNCHANGED <<post, reply, kind, report, dedupe, rate, hour, ghosts>>

Request(c) ==
  \E p \in People :
    \/ \E r \in Replies : CreateReply(c, p, r) \/ DeleteReply(c, p, r) \/ Accept(c, p, r)
    \/ \E k \in Kinds : React(c, p, k)
    \/ \E n \in Reports : \/ Report(c, p, n)
                          \/ Moderate(c, p, n, DismissSteps)
                          \/ Moderate(c, p, n, ActionSteps)
    \/ DeletePost(c, p)
Work(c) ==
  \/ StoreReply(c) \/ IncrementRate(c) \/ DropReply(c) \/ PointAtAnswer(c) \/ SetReaction(c)
  \/ PutReport(c) \/ Resolve(c, "Dismissed") \/ Resolve(c, "Actioned") \/ Allow(c) \/ Remove(c)

Next == NextHour \/ \E c \in Callers : Request(c) \/ Work(c) \/ Die(c)
Spec == Init /\ [][Next]_vars

-----------------------------------------------------------------------------
TypeOK ==
  /\ post \in [deleted : BOOLEAN, replies : Int, reactions : [Kinds -> Int],
               answer : Replies \cup {NoOne}]
  /\ reply \in [Replies -> [state : {"none", "live", "deleted"}, by : People \cup {NoOne}]]
  /\ kind \in [People -> Kinds \cup {NoOne}]
  /\ report \in [Reports -> [status : {"none", "Open", "Dismissed", "Actioned"},
                            by : People \cup {NoOne}]]
  /\ dedupe \subseteq People /\ hour \in 1..Hours /\ rate \in [1..Hours -> [People -> Nat]]
  /\ crossed \in BOOLEAN /\ again \in BOOLEAN

\* replyCount is the number of replies that are there: a reply and its count
\* are one transaction, whoever dies (create_reply_transact, soft_delete_reply).
\* Two deletes of one reply both count, so it is said of requests on different
\* replies.
ReplyCountHolds ==
  crossed \/ post.replies = Cardinality({r \in Replies : reply[r].state = "live"})

\* Each count of reactionCounts is the number of people with that reaction,
\* unless one person sent two at once (_toggle_reaction, BR-16).
ReactionCountsHold ==
  crossed \/ \A k \in Kinds : post.reactions[k] = Cardinality({p \in People : kind[p] = k})

\* A post is not badged as answered by a reply nobody can see (_delete_reply),
\* unless the reply was accepted and deleted at the same time.
AnswerIsVisible == crossed \/ post.answer = NoOne \/ reply[post.answer].state = "live"

\* Nobody exceeds the hourly limit by more than the requests that can be in
\* work between the check and the count (check_rate, increment_rate).
RateHolds ==
  \A h \in 1..Hours, p \in People : rate[h][p] <= HourlyLimit + Cardinality(Callers) - 1

OpenOf(p) == {n \in Reports : report[n].status = "Open" /\ report[n].by = p}

\* One open report for each reporter, as long as moderators act on open
\* reports only, one at a time (_report_content, _dismiss_report).
OneOpenReportEach == again \/ \A p \in People : Cardinality(OpenOf(p)) <= 1

\* The content of a report that is Actioned is gone (_action_report), whoever
\* dies and whatever else is done to the report.
ActionedIsRemoved == \A n \in Reports : report[n].status = "Actioned" => post.deleted

\* What the post says of its thread, and what the limits and moderators see to.
ThreadCountsHold == ReplyCountHolds /\ ReactionCountsHold /\ AnswerIsVisible
ModerationHolds == RateHolds /\ OneOpenReportEach /\ ActionedIsRemoved
=============================================================================
