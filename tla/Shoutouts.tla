----------------------------- MODULE Shoutouts -----------------------------
(***************************************************************************)
(* Shoutouts of member-profiles: one is stored as four items, for itself,  *)
(* the home feed, its recipient and its sender, written and deleted one by *)
(* one; reactions are rows of their own, counted in all four copies.       *)
(*                                                                         *)
(*   post[s]    sender, recipient and week of shoutout s (its id is new)   *)
(*   copy[s]    the items of s that exist, by place: reactions counted,    *)
(*              and part, set when a count created an item that was gone   *)
(*   marks      the REACTION# rows, <<s, user>>                            *)
(*   call[c]    what c's request has still to do, one table access each    *)
(*   told       shoutouts whose ShoutoutReceived is out                    *)
(*   week       this week                                                  *)
(*   gone       ghost: shoutouts a delete has finished with                *)
(*   twice      ghost: senders of whom two requests overlapped; crossed:   *)
(*              shoutouts of which a count and a delete, two counts of one *)
(*              user or a send and a delete did; died: one stopped         *)
(***************************************************************************)
EXTENDS Integers, Sequences, FiniteSets

CONSTANTS Posts, Role, GroupsOf, LedBy, Quotas, Callers, Weeks, Budgets

VARIABLES post, copy, marks, call, told, week, gone, twice, crossed, died, budget

ghosts == <<gone, twice, crossed, died>>
vars == <<post, copy, marks, call, told, week, ghosts, budget>>

Users == DOMAIN Role
Places == {"meta", "feed", "rcpt", "sent"}
NoPost == [used |-> FALSE]
Item == [count |-> 0, part |-> FALSE]
Has(s, p) == p \in DOMAIN copy[s]
Full(s, p) == Has(s, p) /\ ~copy[s][p].part

Init ==
  /\ post = [s \in Posts |-> NoPost] /\ copy = [s \in Posts |-> <<>>]
  /\ marks = {} /\ call = [c \in Callers |-> <<>>] /\ told = {} /\ week = 1
  /\ gone = {} /\ twice = {} /\ crossed = {} /\ died = FALSE /\ budget \in Budgets

-----------------------------------------------------------------------------
(* Who may recognise whom: one rule for the button and for the request. *)
sender_may_shout(u) == Role[u] \in {"CommunityLeader", "UserGroupLeader", "Member"}

recipient_may_receive(r) == Role[r] = "Member"

ugl_in_scope(u, r) == u \in DOMAIN LedBy /\ LedBy[u] \in GroupsOf[r]
can_send_shoutout(u, r) ==
  /\ sender_may_shout(u) /\ u # r /\ recipient_may_receive(r)
  /\ Role[u] = "UserGroupLeader" => ugl_in_scope(u, r)

-----------------------------------------------------------------------------
(* The requests that overlap.  An operation names its shoutout and user.     *)
Idle(c) == call[c] = <<>>
Does(c, what) == call[c] # <<>> /\ Head(call[c]).do = what
Op(do, s, u) == [do |-> do, post |-> s, user |-> u, place |-> "meta", by |-> 0, seen |-> {}]
At(do, s, u, p, n) == [Op(do, s, u) EXCEPT !.place = p, !.by = n]
Others(c) == {o \in Callers \ {c} : ~Idle(o)}
\* Two members' reactions may overlap in any order.
Reacting(ops) == ops # <<>> /\ Head(ops).do \in {"react", "unreact", "count"}
Crosses(ops, s, u, o) ==
  /\ Head(call[o]).post = s
  /\ Reacting(ops) /\ Reacting(call[o]) => Head(call[o]).user = u

Start(c, ops, s, u) ==
  /\ call' = [call EXCEPT ![c] = ops]
  /\ twice' = twice \cup {v \in {u} : \E o \in Others(c) : Head(call[o]).user = v}
  /\ crossed' = crossed \cup {v \in {s} : \E o \in Others(c) : Crosses(ops, s, u, o)}
  /\ UNCHANGED <<gone, died>>

Continue(c, ops) == call' = [call EXCEPT ![c] = ops \o Tail(@)] /\ UNCHANGED <<ghosts, budget>>

\* list_shoutouts_sent_since: the sender's own items, of this week.
SentThisWeek(u) == {s \in Posts : Full(s, "sent") /\ post[s].sender = u /\ post[s].week = week}

\* Mutant: a quota of three stops at the fourth.
QuotaIsLeft(u) == \E q \in Quotas[Role[u]] : Cardinality(SentThisWeek(u)) <= q

\* _weekly_limit: from the settings, or the default when they do not answer.
WithinLimit(u) == \E q \in Quotas[Role[u]] : Cardinality(SentThisWeek(u)) < q

\* put_shoutout, then the event.
SendSteps(s, u) ==
  << At("put", s, u, "meta", 0), At("put", s, u, "feed", 0), At("put", s, u, "rcpt", 0),
     At("put", s, u, "sent", 0), Op("tell", s, u) >>

\* send: rules, quota and one a week for each recipient, then a new record.
Send(c, s, u, r) ==
  /\ Idle(c) /\ budget.requests > 0
  /\ ~post[s].used /\ \A o \in Posts : ~post[o].used => s <= o
  /\ can_send_shoutout(u, r)
  /\ WithinLimit(u) /\ \A o \in SentThisWeek(u) : post[o].recipient # r
  /\ post' = [post EXCEPT ![s] = [used |-> TRUE, sender |-> u, recipient |-> r, week |-> week]]
  /\ Start(c, SendSteps(s, u), s, u)
  /\ budget' = [budget EXCEPT !.requests = @ - 1]
  /\ UNCHANGED <<copy, marks, told, week>>

Put(c) ==
  /\ Does(c, "put")
  /\ LET op == Head(call[c])
     IN  copy' = [copy EXCEPT ![op.post] =
                    [p \in DOMAIN @ \cup {op.place} |-> IF p = op.place THEN Item ELSE @[p]]]
  /\ Continue(c, <<>>) /\ UNCHANGED <<post, marks, told, week>>

Tell(c) ==
  /\ Does(c, "tell") /\ told' = told \cup {Head(call[c]).post}
  /\ Continue(c, <<>>) /\ UNCHANGED <<post, copy, marks, week>>

-----------------------------------------------------------------------------

\* _update_all: the four copies.
CountAll(s, u, n) ==
  << At("count", s, u, "meta", n), At("count", s, u, "feed", n),
     At("count", s, u, "rcpt", n), At("count", s, u, "sent", n) >>

(* toggle_reaction: the record must be there.  The rest of the request finds *)
(* the copies by what it says; of a part, they are nobody's items.           *)
ToggleReaction(c, s, u) ==
  /\ Idle(c) /\ budget.requests > 0
  /\ Full(s, "meta")
  /\ Start(c, << Op("react", s, u) >>, s, u)
  /\ budget' = [budget EXCEPT !.requests = @ - 1]
  /\ UNCHANGED <<post, copy, marks, told, week>>

\* The conditional put of the reaction, and its failure.
React(c) ==
  /\ Does(c, "react")
  /\ LET op == Head(call[c])
     IN  IF <<op.post, op.user>> \in marks
         THEN Continue(c, << Op("unreact", op.post, op.user) >>) /\ UNCHANGED marks
         ELSE /\ Continue(c, CountAll(op.post, op.user, 1))
              /\ marks' = marks \cup {<<op.post, op.user>>}
  /\ UNCHANGED <<post, copy, told, week>>

Unreact(c) ==
  /\ Does(c, "unreact")
  /\ LET op == Head(call[c])
     IN  /\ marks' = marks \ {<<op.post, op.user>>}
         /\ Continue(c, CountAll(op.post, op.user, -1))
  /\ UNCHANGED <<post, copy, told, week>>

\* ADD creates an item that is not there; an update that fails is logged.
Count(c) ==
  /\ Does(c, "count")
  /\ LET op == Head(call[c])
         was == IF Has(op.post, op.place) THEN copy[op.post][op.place] ELSE [Item EXCEPT !.part = TRUE]
     IN  copy' = [copy EXCEPT ![op.post] =
                    [p \in DOMAIN @ \cup {op.place} |->
                       IF p = op.place THEN [was EXCEPT !.count = @ + op.by] ELSE @[p]]]
  /\ Continue(c, <<>>) /\ UNCHANGED <<post, marks, told, week>>

-----------------------------------------------------------------------------

DropFour(s, u) ==
  << At("drop", s, u, "meta", 0), At("drop", s, u, "feed", 0), At("drop", s, u, "rcpt", 0),
     At("drop", s, u, "sent", 0) >>

(* delete: the sender's or a Community Leader's; of a part of a record the   *)
(* request fails.  The reactions are listed before the first delete.         *)
Delete(c, s, u) ==
  /\ Idle(c) /\ budget.requests > 0
  /\ Full(s, "meta") /\ (u = post[s].sender \/ Role[u] = "CommunityLeader")
  /\ Start(c, << Op("list", s, u) >>, s, u)
  /\ budget' = [budget EXCEPT !.requests = @ - 1]
  /\ UNCHANGED <<post, copy, marks, told, week>>

\* The delete_item calls; of the reactions as one step.
ListReactions(c) ==
  /\ Does(c, "list")
  /\ LET op == Head(call[c])
     IN  Continue(c, DropFour(op.post, op.user) \o
                     << [Op("clear", op.post, op.user) EXCEPT !.seen = {m \in marks : m[1] = op.post}] >>)
  /\ UNCHANGED <<post, copy, marks, told, week>>

Drop(c) ==
  /\ Does(c, "drop")
  /\ LET op == Head(call[c])
     IN  copy' = [copy EXCEPT ![op.post] = [p \in DOMAIN @ \ {op.place} |-> @[p]]]
  /\ Continue(c, <<>>) /\ UNCHANGED <<post, marks, told, week>>

Clear(c) ==
  /\ Does(c, "clear")
  /\ marks' = marks \ Head(call[c]).seen
  /\ gone' = gone \cup {Head(call[c]).post}
  /\ call' = [call EXCEPT ![c] = <<>>]
  /\ UNCHANGED <<post, copy, told, week, twice, crossed, died, budget>>

-----------------------------------------------------------------------------
Monday ==
  /\ week < Weeks /\ week' = week + 1
  /\ UNCHANGED <<post, copy, marks, call, told, ghosts, budget>>

Die(c) ==
  /\ ~Idle(c) /\ budget.deaths > 0
  /\ call' = [call EXCEPT ![c] = <<>>] /\ died' = TRUE
  /\ budget' = [budget EXCEPT !.deaths = @ - 1]
  /\ UNCHANGED <<post, copy, marks, told, week, gone, twice, crossed>>

Next ==
  \/ \E c \in Callers :
       \/ \E s \in Posts, u \in Users :
            \/ \E r \in Users : Send(c, s, u, r)
            \/ ToggleReaction(c, s, u) \/ Delete(c, s, u)
       \/ Put(c) \/ Tell(c) \/ React(c) \/ Unreact(c) \/ Count(c)
       \/ ListReactions(c) \/ Drop(c) \/ Clear(c) \/ Die(c)
  \/ Monday

Spec == Init /\ [][Next]_vars

-----------------------------------------------------------------------------
TypeOK ==
  /\ \A s \in Posts : DOMAIN copy[s] \subseteq Places /\ (copy[s] # <<>> => post[s].used)
  /\ marks \subseteq Posts \X Users /\ told \subseteq Posts
  /\ \A s \in Posts : post[s].used =>
       /\ Role[post[s].recipient] = "Member" /\ post[s].recipient # post[s].sender
       /\ Role[post[s].sender] = "UserGroupLeader" => LedBy[post[s].sender] \in GroupsOf[post[s].recipient]

Quiet == \A c \in Callers : Idle(c)

(* A shoutout is in all four places or in none, whoever reads it where, as   *)
(* long as no request stopped half way and no count or send crossed its      *)
(* deletion; a deleted one leaves no reaction behind.                        *)
CopiesAgree ==
  Quiet /\ ~died =>
    \A s \in Posts \ crossed :
      /\ \A p \in DOMAIN copy[s] : ~copy[s][p].part
      /\ DOMAIN copy[s] \in {{}, Places}
      /\ s \in gone => copy[s] = <<>> /\ ~\E m \in marks : m[1] = s

\* Each copy shows as many reactions as there are, when no request is under way.
CountIsReactions ==
  Quiet /\ ~died =>
    \A s \in Posts \ crossed : \A p \in DOMAIN copy[s] :
      copy[s][p].count = Cardinality({m \in marks : m[1] = s})

(* Nobody sends more in a week than the highest quota that applied, nor two  *)
(* to one member, unless two of his requests ran at once.                    *)
QuotaHolds ==
  \A u \in Users \ twice :
    LET mine == {s \in Posts : Full(s, "sent") /\ post[s].sender = u}
    IN  \A w \in 1 .. Weeks :
          LET then == {s \in mine : post[s].week = w}
          IN  /\ \E q \in Quotas[Role[u]] : Cardinality(then) <= q
              /\ \A s, o \in then : post[s].recipient = post[o].recipient => s = o

\* Every shoutout that is to be seen was announced to its recipient.
RecipientIsTold ==
  Quiet /\ ~died => \A s \in Posts : Full(s, "rcpt") => s \in told
=============================================================================
