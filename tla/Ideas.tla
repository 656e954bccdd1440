------------------------------- MODULE Ideas -------------------------------
(***************************************************************************)
(* The event ideas of the events service: members submit and vote, leaders *)
(* greenlight or decline, a nightly sweep archives what nobody votes for.  *)
(*                                                                         *)
(*   ideas[i]   the META row.  status "none": absent; "partial": only what *)
(*              a counter update created after the row was deleted         *)
(*              group: its group; count: voteCount; key: the count its     *)
(*              sort key was made from; old: last vote before the cutoff   *)
(*   votes      the VOTE# rows, <<idea, user>>                             *)
(*   call[c]    what c's request has still to do, one table access each    *)
(*   declined   ghost: ideas that a request deleted                        *)
(*   overlap    ghost: two handlers overlapped; raced: one of them changed *)
(*              a status; twice: both were votes of one user on one idea   *)
(***************************************************************************)
EXTENDS Integers, Sequences, FiniteSets, SequencesExt

CONSTANTS IdeaIds, Community, GroupsOf, LedBy, Callers, MaxRequests, MaxDeaths

VARIABLES ideas, votes, call, declined, overlap, raced, twice, requests, deaths

ghosts == <<overlap, raced, twice>>
vars == <<ideas, votes, call, declined, ghosts, requests, deaths>>

People == DOMAIN GroupsOf
Groups == {Community} \cup UNION {GroupsOf[u] : u \in People} \cup {LedBy[u] : u \in DOMAIN LedBy}
NoIdea == [status |-> "none", group |-> Community, count |-> 0, key |-> 0, old |-> FALSE]

Init ==
  /\ ideas = [i \in IdeaIds |-> NoIdea] /\ votes = {}
  /\ call = [c \in Callers |-> <<>>]
  /\ declined = {} /\ overlap = FALSE /\ raced = FALSE /\ twice = FALSE /\ requests = 0 /\ deaths = 0

\* _in_scope: community-wide, the member's groups, the group a leader leads.
Scopes(u) ==
  {Community} \cup GroupsOf[u] \cup (IF u \in DOMAIN LedBy THEN {LedBy[u]} ELSE {})
MayDecide(u, i) == u \in DOMAIN LedBy /\ ideas[i].group \in {Community, LedBy[u]}

\* _gsi1sk: never below zero.
SortCount(n) == IF n < 0 THEN 0 ELSE n

Idle(c) == call[c] = <<>>
Busy == {c \in Callers : ~Idle(c)}
Does(c, what) == call[c] # <<>> /\ Head(call[c]).do = what
Continue(c, ops) ==
  call' = [call EXCEPT ![c] = ops \o Tail(@)] /\ UNCHANGED <<declined, ghosts, requests, deaths>>

-----------------------------------------------------------------------------
\* The vote's own row: put when there is none, else deleted.
PutVote(c) ==
  /\ Does(c, "vote")
  /\ LET op == Head(call[c])
     IN  IF <<op.idea, op.user>> \in votes
         THEN /\ Continue(c, << [op EXCEPT !.do = "unvote"] >>) /\ UNCHANGED votes
         ELSE /\ votes' = votes \cup {<<op.idea, op.user>>}
              /\ Continue(c, << [op EXCEPT !.do = "count", !.by = 1] >>)
  /\ UNCHANGED ideas

DeleteVote(c) ==
  /\ Does(c, "unvote")
  /\ LET op == Head(call[c])
     IN  /\ votes' = votes \ {<<op.idea, op.user>>}
         /\ Continue(c, << [op EXCEPT !.do = "count", !.by = -1] >>)
  /\ UNCHANGED ideas

\* ADD voteCount: creates the row when there is none; the sort key follows in its own update.
CountVote(c) ==
  /\ Does(c, "count")
  /\ LET op == Head(call[c])
         n == ideas[op.idea].count + op.by
     IN  /\ ideas' = [ideas EXCEPT ![op.idea].count = n, ![op.idea].old = FALSE,
                                   ![op.idea].status = IF @ = "none" THEN "partial" ELSE @]
         /\ Continue(c, << [op EXCEPT !.do = "sort", !.by = n] >>)
  /\ UNCHANGED votes

\* Mutant: a vote is counted and the feed is not told.
SortNothing(c) == Does(c, "sort") /\ Continue(c, <<>>) /\ UNCHANGED <<ideas, votes>>

\* _update_gsi1_sort_key
UpdateSortKey(c) ==
  /\ Does(c, "sort")
  /\ LET op == Head(call[c])
     IN ideas' = [ideas EXCEPT ![op.idea].key = SortCount(op.by),
                               ![op.idea].status = IF @ = "none" THEN "partial" ELSE @]
  /\ Continue(c, <<>>)
  /\ UNCHANGED votes

\* update_idea_status: the row is looked at once more, then updated without a condition.
SetStatus(c) ==
  /\ Does(c, "status")
  /\ LET op == Head(call[c])
     IN ideas' = [ideas EXCEPT ![op.idea].status = IF @ = "none" THEN @ ELSE op.to]
  /\ Continue(c, <<>>)
  /\ UNCHANGED votes

\* delete_idea: every row of the idea's partition, as one query found them.
DeleteIdea(c) ==
  /\ Does(c, "delete")
  /\ LET i == Head(call[c]).idea
     IN  /\ ideas' = [ideas EXCEPT ![i] = NoIdea]
         /\ votes' = {v \in votes : v[1] # i}
         /\ declined' = declined \cup {i}
  /\ call' = [call EXCEPT ![c] = Tail(@)]
  /\ UNCHANGED <<ghosts, requests, deaths>>

-----------------------------------------------------------------------------
\* A request that has read its idea; changes says whether it may move a status.
Start(c, ops, changes) ==
  /\ Idle(c) /\ requests < MaxRequests
  /\ requests' = requests + 1
  /\ call' = [call EXCEPT ![c] = ops]
  /\ LET others == {Head(call[d]) : d \in Busy}
     IN  /\ overlap' = (overlap \/ others # {})
         /\ raced' = (raced \/ \E op \in others :
                        changes \/ op.do \in {"status", "delete", "archive"})
         /\ twice' = (twice \/ \E op \in others, new \in ToSet(ops) :
                        "user" \in DOMAIN op /\ "user" \in DOMAIN new
                        /\ op.idea = new.idea /\ op.user = new.user)
  /\ UNCHANGED <<votes, declined, deaths>>

\* put_idea, of an id of its own.
Submit(c, u, i, g) ==
  /\ ideas[i] = NoIdea /\ i \notin declined /\ g \in Scopes(u)
  /\ ideas' = [ideas EXCEPT ![i] = [NoIdea EXCEPT !.status = "Open", !.group = g]]
  /\ Start(c, <<>>, FALSE)

ToggleVote(c, u, i) ==
  /\ ideas[i].group \in Scopes(u) /\ ideas[i].status = "Open"
  /\ Start(c, << [do |-> "vote", idea |-> i, user |-> u, by |-> 0] >>, FALSE)
  /\ UNCHANGED ideas

Greenlight(c, u, i) ==
  /\ MayDecide(u, i) /\ ideas[i].status = "Open"
  /\ Start(c, << [do |-> "status", idea |-> i, to |-> "Greenlit"] >>, TRUE)
  /\ UNCHANGED ideas

Decline(c, u, i) ==
  /\ MayDecide(u, i) /\ ideas[i].status = "Open"
  /\ Start(c, << [do |-> "delete", idea |-> i] >>, TRUE)
  /\ UNCHANGED ideas

Stale(i) == ideas[i].status = "Open" /\ ideas[i].old

\* archive_stale_ideas: what the scan of the index shows, one update each.
Sweep(c) ==
  /\ \E i \in IdeaIds : Stale(i)
  /\ LET found == SetToSeq({i \in IdeaIds : Stale(i)})
     IN  Start(c, [k \in DOMAIN found |->
                     [do |-> "archive", idea |-> found[k], to |-> "Archived"]], TRUE)
  /\ UNCHANGED ideas

\* One of its updates: of the row as it is now, created when it is gone.
Archive(c) ==
  /\ Does(c, "archive")
  /\ ideas' = [ideas EXCEPT ![Head(call[c]).idea].status = "Archived"]
  /\ Continue(c, <<>>)
  /\ UNCHANGED votes

\* Thirty days without a vote.
GrowOld(i) ==
  /\ ideas[i].status \notin {"none", "partial"} /\ ~ideas[i].old
  /\ ideas' = [ideas EXCEPT ![i].old = TRUE]
  /\ UNCHANGED <<votes, call, declined, ghosts, requests, deaths>>

Crash(c) ==
  /\ ~Idle(c) /\ deaths < MaxDeaths
  /\ deaths' = deaths + 1 /\ call' = [call EXCEPT ![c] = <<>>]
  /\ UNCHANGED <<ideas, votes, declined, ghosts, requests>>

Request(c) ==
  \/ Sweep(c)
  \/ \E u \in People, i \in IdeaIds :
       \/ \E g \in Groups : Submit(c, u, i, g)
       \/ ToggleVote(c, u, i) \/ Greenlight(c, u, i) \/ Decline(c, u, i)

Step(c) ==
  \/ PutVote(c) \/ DeleteVote(c) \/ CountVote(c) \/ UpdateSortKey(c)
  \/ SetStatus(c) \/ DeleteIdea(c) \/ Archive(c)

Next ==
  \/ \E c \in Callers : Request(c) \/ Step(c) \/ Crash(c)
  \/ \E i \in IdeaIds : GrowOld(i)

Spec == Init /\ [][Next]_vars

-----------------------------------------------------------------------------
(* Properties. *)

Quiet == \A c \in Callers : Idle(c)
VotesFor(i) == Cardinality({v \in votes : v[1] = i})

TypeOK ==
  /\ ideas \in [IdeaIds -> [status : {"none", "partial", "Open", "Greenlit", "Archived"},
                            group : Groups, count : Int, key : Nat, old : BOOLEAN]]
  /\ votes \subseteq IdeaIds \X People

\* However the votes of several users interleave, an idea's count is the number of its vote
\* rows once all is quiet; a user's own double click and a decision on the idea aside.
CountIsVotes ==
  Quiet /\ ~twice /\ ~raced /\ deaths = 0 =>
    \A i \in IdeaIds : ideas[i].count = VotesFor(i)

\* The leaders' backlog is sorted by what the count is, not by what it was, when the votes did
\* not overlap: the sort key is a second update after the count.
FeedFollowsCount ==
  Quiet /\ ~overlap /\ deaths = 0 =>
    \A i \in IdeaIds : ideas[i].key = SortCount(ideas[i].count)

\* A declined idea is gone with everything that was cast on it.
DeclinedIsGone ==
  ~raced => \A i \in declined : ideas[i] = NoIdea /\ VotesFor(i) = 0

\* Nobody votes on an idea outside the groups he belongs to.
VotesAreInScope == \A v \in votes : ideas[v[1]].status # "none" => ideas[v[1]].group \in Scopes(v[2])

(* The types and the four of them together. *)
IdeasHold ==
  TypeOK /\ CountIsVotes /\ FeedFollowsCount /\ DeclinedIsGone /\ VotesAreInScope
=============================================================================
