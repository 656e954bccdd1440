------------------------------- MODULE Forums -------------------------------
(***************************************************************************)
(* The forums of the user groups: forums, their channels and posts, the    *)
(* keyword index, the events of identity-access about groups, and the      *)
(* nightly sweep that deletes what was marked.                             *)
(*                                                                         *)
(*   forum[f]     FORUM#f/META; an update of a row that is gone leaves one *)
(*                that is part: without group or name, in no index         *)
(*   channel[h]   CHANNEL#h/META, likewise                                 *)
(*   post[p]      POST#p/META, with the word of its text                   *)
(*   index        the TERM# items, <<word, post>>                          *)
(*   group[g]     the group as identity-access has it: new, active, soft   *)
(*                or hard (deleted)                                        *)
(*   bus          its lifecycle events as published, claimed: those that   *)
(*                the idempotency table has seen                           *)
(*   call[c]      what c has still to do, one table access each            *)
(*   sweep        what the sweep has still to do                           *)
(*   ghosts       made: forums put, with their groups; doomed: those that  *)
(*                a request or the end of their group deleted; late: those *)
(*                put for a group that was deleted; mixed: two callers     *)
(*                overlapped, or events came out of order; died: a caller  *)
(*                or a sweep stopped half way                              *)
(***************************************************************************)
EXTENDS Integers, Sequences, FiniteSets

CONSTANTS FreshForums, FreshChannels, Posts, Words, Groups, NoGroup, Callers, Batch, Budgets

VARIABLES forum, channel, post, index, group, bus, claimed, call, sweep,
          made, doomed, late, mixed, died, budget

ghosts == <<made, doomed, late, mixed, died>>
rows == <<forum, channel, post, index>>
vars == <<rows, group, bus, claimed, call, sweep, ghosts, budget>>

None == [part |-> TRUE, there |-> FALSE]
NewForum(g) == [part |-> FALSE, there |-> TRUE, group |-> g, hidden |-> FALSE, purging |-> FALSE, channels |-> 1]
PartForum == [part |-> TRUE, there |-> TRUE, group |-> NoGroup, hidden |-> FALSE, purging |-> FALSE, channels |-> 0]
NewChannel(f, g) == [part |-> FALSE, there |-> TRUE, forum |-> f, group |-> g, posts |-> 0]
PartChannel(h) == [part |-> TRUE, there |-> TRUE, forum |-> NoGroup, group |-> NoGroup, posts |-> 0]

Init ==
  /\ forum = [f \in FreshForums |-> None] /\ channel = [h \in FreshChannels |-> None]
  /\ post = [p \in Posts |-> None] /\ index = {}
  /\ group = [g \in Groups |-> "new"] /\ bus = <<>> /\ claimed = {}
  /\ call = [c \in Callers |-> <<>>] /\ sweep = <<>>
  /\ made = {} /\ doomed = {} /\ late = {} /\ mixed = FALSE /\ died = FALSE /\ budget \in Budgets

\* GSI1: a group's forums and channels, by the keys of the full rows.
ForumsOf(g) == {f \in FreshForums : ~forum[f].part /\ forum[f].group = g}
ChannelsOf(g) == {h \in FreshChannels : ~channel[h].part /\ channel[h].group = g}
ChannelsIn(f) == {h \in FreshChannels : ~channel[h].part /\ channel[h].forum = f}

\* Requests make ids of their own: the first that nothing has used.
NextOf(ids, used) == {i \in ids \ used : \A j \in ids \ used : i <= j}
Pending == UNION {{call[c][i] : i \in DOMAIN call[c]} : c \in Callers}
Reserved(do) == {op.id : op \in {o \in Pending : o.do = do}}
FreeForum == NextOf(FreshForums, {f \in FreshForums : forum[f].there} \cup Reserved("forum") \cup {m[1] : m \in made})
FreeChannel == NextOf(FreshChannels, {h \in FreshChannels : channel[h].there} \cup Reserved("channel"))

-----------------------------------------------------------------------------
Idle(c) == call[c] = <<>>
Does(c, what) == ~Idle(c) /\ Head(call[c]).do = what
Op(do, id, f, g, n) == [do |-> do, id |-> id, forum |-> f, group |-> g, n |-> n]

Sequence(S) == CHOOSE q \in [1 .. Cardinality(S) -> S] : \A i, j \in DOMAIN q : i < j => q[i] < q[j]
ForEach(S, do, n) == LET q == Sequence(S) IN [i \in DOMAIN q |-> Op(do, q[i], q[i], NoGroup, n)]

Start(c, ops) ==
  /\ Idle(c) /\ call' = [call EXCEPT ![c] = ops]
  /\ mixed' = (mixed \/ sweep # <<>> \/ \E o \in Callers : ~Idle(o))
  /\ UNCHANGED <<made, died>>

Request(c, ops) ==
  /\ budget.requests > 0 /\ budget' = [budget EXCEPT !.requests = @ - 1]
  /\ Start(c, ops)
  /\ UNCHANGED <<rows, group, bus, claimed, sweep>>

Continue(c) == call' = [call EXCEPT ![c] = Tail(@)]

\* put_forum with a channel count of one, then put_channel of its General channel.
NewForumOps(f, h, g) == << Op("forum", f, f, g, 0), Op("channel", h, f, g, 0) >>

-----------------------------------------------------------------------------
(* Requests of leaders.  None of them looks at hidden, or at the group.      *)
CreateForum(c, g) ==
  /\ group[g] # "new"
  /\ \E f \in FreeForum, h \in FreeChannel :
       Request(c, NewForumOps(f, h, g))
  /\ UNCHANGED <<doomed, late>>

CreateChannel(c, f) ==
  /\ ~forum[f].part
  /\ \E h \in FreeChannel :
       Request(c, << Op("channel", h, f, forum[f].group, 0), Op("count", f, f, NoGroup, 1) >>)
  /\ UNCHANGED <<doomed, late>>

DeleteChannel(c, h) ==
  /\ ~channel[h].part
  /\ Request(c, << Op("drop", h, NoGroup, NoGroup, 0),
                   Op("count", channel[h].forum, channel[h].forum, NoGroup, -1) >>)
  /\ UNCHANGED <<doomed, late>>

EditForum(c, f) ==
  /\ ~forum[f].part /\ Request(c, << Op("edit", f, f, NoGroup, 0) >>)
  /\ UNCHANGED <<doomed, late>>

DeleteForum(c, f) ==
  /\ ~forum[f].part /\ Request(c, << Op("mark", f, f, NoGroup, 0) >>)
  /\ doomed' = doomed \cup {<<f, forum[f].group>>} /\ UNCHANGED late

(* The accesses of a request: each update makes the row it does not find. *)
Update(f, new) == forum' = [forum EXCEPT ![f] = new]

RowOf(f) == IF forum[f].there THEN forum[f] ELSE PartForum

PutForum(c) ==
  /\ Does(c, "forum")
  /\ LET op == Head(call[c])
     IN  /\ Update(op.id, NewForum(op.group))
         /\ made' = made \cup {<<op.id, op.group>>}
         /\ late' = late \cup {f \in {op.id} : group[op.group] # "active"}
  /\ Continue(c)
  /\ UNCHANGED <<channel, post, index, group, bus, claimed, sweep, doomed, mixed, died, budget>>

PutChannel(c) ==
  /\ Does(c, "channel")
  /\ channel' = [channel EXCEPT ![Head(call[c]).id] = NewChannel(Head(call[c]).forum, Head(call[c]).group)]
  /\ Continue(c) /\ UNCHANGED <<forum, post, index, group, bus, claimed, sweep, ghosts, budget>>

DropChannel(c) ==
  /\ Does(c, "drop") /\ channel' = [channel EXCEPT ![Head(call[c]).id] = None]
  /\ Continue(c) /\ UNCHANGED <<forum, post, index, group, bus, claimed, sweep, ghosts, budget>>

CountChannel(c) ==
  /\ Does(c, "count")
  /\ LET op == Head(call[c]) IN Update(op.id, [RowOf(op.id) EXCEPT !.channels = @ + op.n])
  /\ Continue(c) /\ UNCHANGED <<channel, post, index, group, bus, claimed, sweep, ghosts, budget>>

WriteForum(c) ==
  /\ Does(c, "edit") /\ Update(Head(call[c]).id, RowOf(Head(call[c]).id))
  /\ Continue(c) /\ UNCHANGED <<channel, post, index, group, bus, claimed, sweep, ghosts, budget>>

\* mark_forum_purging
Mark(c) ==
  /\ Does(c, "mark")
  /\ LET op == Head(call[c]) IN Update(op.id, [RowOf(op.id) EXCEPT !.purging = TRUE, !.hidden = TRUE])
  /\ Continue(c) /\ UNCHANGED <<channel, post, index, group, bus, claimed, sweep, ghosts, budget>>

Hide(c) ==
  /\ Does(c, "hide")
  /\ LET op == Head(call[c]) IN Update(op.id, [RowOf(op.id) EXCEPT !.hidden = (op.n = 1)])
  /\ Continue(c) /\ UNCHANGED <<channel, post, index, group, bus, claimed, sweep, ghosts, budget>>

-----------------------------------------------------------------------------
(* Posts: created in one transaction, which counts in the channel's row.     *)
CreatePost(c, p, h, w) ==
  /\ ~post[p].there /\ ~channel[h].part
  /\ Request(c, << [Op("post", h, w, channel[h].group, 0) EXCEPT !.n = p] >>)
  /\ UNCHANGED <<doomed, late>>

\* create_post_transact
PutPost(c) ==
  /\ Does(c, "post")
  /\ LET op == Head(call[c])
         was == IF channel[op.id].there THEN channel[op.id] ELSE PartChannel(op.id)
     IN  /\ ~post[op.n].there
         /\ post' = [post EXCEPT ![op.n] = [part |-> FALSE, there |-> TRUE, channel |-> op.id,
                       group |-> op.group, word |-> op.forum, deleted |-> FALSE, edited |-> FALSE]]
         /\ channel' = [channel EXCEPT ![op.id] = [was EXCEPT !.posts = @ + 1]]
         /\ index' = index \cup {<<op.forum, op.n>>}
  /\ Continue(c) /\ UNCHANGED <<forum, group, bus, claimed, sweep, ghosts, budget>>

\* An edit changes the row and not the index; a deletion is a flag.
ChangePost(p, new) ==
  /\ post[p].there /\ budget.requests > 0 /\ budget' = [budget EXCEPT !.requests = @ - 1]
  /\ post' = [post EXCEPT ![p] = new]
  /\ UNCHANGED <<forum, channel, index, group, bus, claimed, call, sweep, ghosts>>

EditPost(p, w) == post[p].there /\ ChangePost(p, [post[p] EXCEPT !.word = w, !.edited = TRUE])
DeletePost(p) == post[p].there /\ ChangePost(p, [post[p] EXCEPT !.deleted = TRUE])

(* _search: what a reader of some groups finds; the rows say no more of      *)
(* being hidden, as posts never are.                                         *)
Found(w, groups) == {p \in Posts : <<w, p>> \in index /\ post[p].there
                                   /\ post[p].group \in groups /\ ~post[p].deleted}

\* _browse_forums: the forums that are not hidden, with their channels.
Browse(groups) == {f \in FreshForums : ~forum[f].part /\ forum[f].group \in groups /\ ~forum[f].hidden}

-----------------------------------------------------------------------------
(* identity-access changes a group and publishes; SQS delivers at least once *)
(* and in any order, and an event is handled once: it is claimed first.      *)
GroupChanges(g, was, is, type) ==
  /\ group[g] = was /\ group' = [group EXCEPT ![g] = is]
  /\ budget.events > 0 /\ budget' = [budget EXCEPT !.events = @ - 1]
  /\ bus' = Append(bus, [type |-> type, group |-> g])
  /\ UNCHANGED <<rows, claimed, call, sweep, ghosts>>

GroupLives(g) ==
  \/ GroupChanges(g, "new", "active", "GroupCreated")
  \/ GroupChanges(g, "active", "soft", "GroupSoftDeleted")
  \/ GroupChanges(g, "soft", "active", "GroupRestored")
  \/ GroupChanges(g, "soft", "hard", "GroupHardDeleted")

Handle(type, g) ==
  CASE type = "GroupSoftDeleted" -> ForEach({f \in ForumsOf(g) : ~forum[f].hidden}, "hide", 1)
    [] type = "GroupRestored" -> ForEach({f \in ForumsOf(g) : forum[f].hidden}, "hide", 0)
    [] OTHER -> ForEach(ForumsOf(g), "mark", 0)

Deliver(c, i) ==
  LET type == bus[i].type
      g == bus[i].group
  IN  /\ i \notin claimed /\ claimed' = claimed \cup {i}
      /\ IF type = "GroupCreated"
         THEN IF ForumsOf(g) # {} THEN Start(c, <<>>)
              ELSE \E f \in FreeForum, h \in FreeChannel : Start(c, NewForumOps(f, h, g))
         ELSE Start(c, Handle(type, g))
      /\ doomed' = doomed \cup (IF type = "GroupHardDeleted" THEN ForumsOf(g) \X {g} ELSE {})
      /\ mixed' = (mixed \/ sweep # <<>> \/ (\E o \in Callers : ~Idle(o)) \/ \E j \in 1 .. i - 1 : j \notin claimed)
      /\ UNCHANGED <<rows, group, bus, sweep, late, budget>>

-----------------------------------------------------------------------------
(* The sweep: the marked forums are scanned; for each, batches of the items  *)
(* of its group's index are deleted until none is left, then its own row.    *)
\* Mutant: whatever is hidden is swept.
HiddenForums == {f \in FreshForums : forum[f].there /\ forum[f].hidden}

PurgingForums == {f \in FreshForums : forum[f].there /\ forum[f].purging}

SweepStart ==
  /\ sweep = <<>> /\ PurgingForums # {}
  /\ LET q == Sequence(PurgingForums)
     IN  sweep' = [i \in DOMAIN q |-> <<q[i], forum[q[i]].group>>]
  /\ mixed' = (mixed \/ \E o \in Callers : ~Idle(o))
  /\ UNCHANGED <<rows, group, bus, claimed, call, made, doomed, late, died, budget>>

\* Mutant: only the channels.
FirstChannels(g) == {<<hs, fs>> \in {ChannelsOf(g)} \X {{}} : TRUE}

\* query_items_by_group: channels come before forums.
FirstItems(g) ==
  LET n == IF Cardinality(ChannelsOf(g)) < Batch THEN Cardinality(ChannelsOf(g)) ELSE Batch
  IN  {<<hs, fs>> \in (SUBSET ChannelsOf(g)) \X (SUBSET ForumsOf(g)) :
         /\ Cardinality(hs) = n
         /\ \/ Cardinality(fs) = Batch - n
            \/ fs = ForumsOf(g) /\ Cardinality(fs) < Batch - n}

SweepBatch ==
  /\ sweep # <<>>
  /\ LET g == Head(sweep)[2]
     IN  /\ ForumsOf(g) \cup ChannelsOf(g) # {}
         /\ \E items \in FirstItems(g) :
              /\ channel' = [h \in FreshChannels |-> IF h \in items[1] THEN None ELSE channel[h]]
              /\ forum' = [f \in FreshForums |-> IF f \in items[2] THEN None ELSE forum[f]]
  /\ UNCHANGED <<post, index, group, bus, claimed, call, sweep, ghosts, budget>>

SweepForum ==
  /\ sweep # <<>> /\ ForumsOf(Head(sweep)[2]) \cup ChannelsOf(Head(sweep)[2]) = {}
  /\ forum' = [forum EXCEPT ![Head(sweep)[1]] = None]
  /\ sweep' = Tail(sweep)
  /\ UNCHANGED <<channel, post, index, group, bus, claimed, call, ghosts, budget>>

\* The time cap, or the end of the lambda.
SweepStops ==
  /\ sweep # <<>> /\ budget.deaths > 0 /\ budget' = [budget EXCEPT !.deaths = @ - 1]
  /\ sweep' = <<>> /\ died' = TRUE
  /\ UNCHANGED <<rows, group, bus, claimed, call, made, doomed, late, mixed>>

Die(c) ==
  /\ ~Idle(c) /\ budget.deaths > 0 /\ budget' = [budget EXCEPT !.deaths = @ - 1]
  /\ call' = [call EXCEPT ![c] = <<>>] /\ died' = TRUE
  /\ UNCHANGED <<rows, group, bus, claimed, sweep, made, doomed, late, mixed>>

Access(c) ==
  \/ PutForum(c) \/ PutChannel(c) \/ DropChannel(c) \/ CountChannel(c) \/ WriteForum(c)
  \/ Mark(c) \/ Hide(c) \/ PutPost(c)

Next ==
  \/ \E c \in Callers :
       \/ \E g \in Groups : CreateForum(c, g)
       \/ \E f \in FreshForums : CreateChannel(c, f) \/ EditForum(c, f) \/ DeleteForum(c, f)
       \/ \E h \in FreshChannels : DeleteChannel(c, h) \/ \E p \in Posts, w \in Words : CreatePost(c, p, h, w)
       \/ \E i \in DOMAIN bus : Deliver(c, i)
       \/ Access(c) \/ Die(c)
  \/ \E p \in Posts : DeletePost(p) \/ \E w \in Words : EditPost(p, w)
  \/ \E g \in Groups : GroupLives(g)
  \/ SweepStart \/ SweepBatch \/ SweepForum \/ SweepStops

(* The sweep is scheduled every night, and a caller that runs goes on.       *)
Fairness ==
  /\ WF_vars(SweepStart) /\ WF_vars(SweepBatch \/ SweepForum)
  /\ \A c \in Callers : WF_vars(Access(c))

Spec == Init /\ [][Next]_vars /\ Fairness

-----------------------------------------------------------------------------
TypeOK ==
  /\ \A f \in FreshForums : forum[f].there =>
       /\ forum[f].group \in Groups \cup {NoGroup} /\ forum[f].channels \in Int
       /\ forum[f].part <=> forum[f].group = NoGroup
  /\ \A h \in FreshChannels : channel[h].there => channel[h].posts \in Nat
  /\ index \subseteq Words \X Posts
  /\ claimed \subseteq DOMAIN bus

Quiet == sweep = <<>> /\ \A c \in Callers : Idle(c)
Calm == Quiet /\ ~died /\ ~mixed
Spared(g) == ~\E d \in doomed : d[2] = g
Deleted(f) == \E d \in doomed : d[1] = f

\* The forums of a group none of whose forums was deleted are there, and count the
\* channels they have, whatever is swept of other groups.
ForumsSurvive ==
  Calm => \A m \in made : Spared(m[2]) =>
    /\ m[1] \in ForumsOf(m[2])
    /\ forum[m[1]].channels = Cardinality(ChannelsIn(m[1]))

(* Once its events have been handled in their order, the forums of a group   *)
(* that were there are hidden exactly as long as it is deleted (BR-28).      *)
HiddenWithGroup ==
  Calm /\ claimed = DOMAIN bus =>
    \A g \in Groups : \A f \in ForumsOf(g) \ late : ~Deleted(f) =>
      (forum[f].hidden <=> group[g] = "soft")

\* A group that is deleted for good shows no forum, from the handling of its event on.
HardDeletedIsUnseen ==
  Calm /\ claimed = DOMAIN bus =>
    \A g \in Groups : group[g] = "hard" => \A f \in Browse({g}) : ~Deleted(f)

\* What was posted with a word and not edited or deleted is found by it.
PostsAreFound ==
  \A p \in Posts : post[p].there /\ ~post[p].edited /\ ~post[p].deleted =>
    p \in Found(post[p].word, {post[p].group})

\* A forum that is marked is gone one night, however many times the sweep stops: again
\* and again none is left.
PurgedIsGone == []<>(\A f \in FreshForums : ~(forum[f].there /\ forum[f].purging))
=============================================================================
