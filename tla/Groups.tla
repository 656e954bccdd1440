------------------------------- MODULE Groups -------------------------------
(***************************************************************************)
(* User groups, their members and leaders, of the identity service.  A     *)
(* handler is the sequence of table writes and publications it still has   *)
(* to make; a step makes the first of them, and one that reads may put     *)
(* what follows from its reading in front of the rest.                     *)
(*                                                                         *)
(*   users[u]   role, led (ledGroupId), active                             *)
(*   groups[g]  GROUP#/META: status ("absent": no row), leaders, approval  *)
(*   log        <<u, g>>: the last membership event of u for g starts one  *)
(*   rows       <<u, g>>: the membership projection has a row              *)
(*   count[g]   GROUP#/MEMBERCOUNT                                         *)
(*   requests   join requests, oldest first                                *)
(*   told       <<u, g>>: the last event published of u and g is a join    *)
(*   call[c]    what c's request still has to do                           *)
(*   overlap    two requests have been under way at once                   *)
(*   misled     an Administrator or a Community Leader was made the leader *)
(*              of a group, which no check of the request prevents         *)
(***************************************************************************)
EXTENDS Integers, Sequences, FiniteSetsExt, SequencesExt

CONSTANTS Users, Groups, NoGroup,
          FirstUsers, FirstGroups,     \* the state the runs start from
          LeaderLists, GroupLists,     \* leaderIds and groupIds that requests carry
          Callers,
          Budgets     \* bounds: requests, of them begun beside another, deaths

VARIABLES users, groups, log, rows, count, requests, told, call, budget, overlap, misled

tables == <<users, groups, log, rows, count, requests, told>>
vars == <<tables, call, budget, overlap, misled>>

Roles == {"Member", "UserGroupLeader", "CommunityLeader", "Administrator"}
User == [role : Roles, led : Groups \cup {NoGroup}, active : BOOLEAN]
Group == [status : {"absent", "Active", "SoftDeleted"}, leaders : SUBSET Users,
          approval : BOOLEAN]
JoinRequest == [user : Users, group : Groups,
                status : {"Pending", "Approved", "Rejected", "Withdrawn"}]

Init ==
  /\ users = FirstUsers
  /\ groups = FirstGroups
  /\ log = {} /\ rows = {} /\ told = {}
  /\ count = [g \in Groups |-> 0]
  /\ requests = <<>>
  /\ call = [c \in Callers |-> <<>>]
  /\ budget \in Budgets
  /\ overlap = FALSE /\ misled = FALSE

-----------------------------------------------------------------------------
(* What a handler may have to do. *)

PutGroup(g, row) == [do |-> "putGroup", group |-> g, row |-> row]
PutUser(u, row) == [do |-> "putUser", user |-> u, row |-> row]
PutRequest(i, row) == [do |-> "putRequest", id |-> i, row |-> row]
Publish(u, g, joins) == [do |-> "publish", user |-> u, group |-> g, joins |-> joins]
PublishDeleted(g) == [do |-> "publishDeleted", group |-> g]
Bump(g, delta) == [do |-> "bump", group |-> g, delta |-> delta]

\* append_membership_event: the event, then the projection.
MembershipEvent(u, g, joins) ==
  << [do |-> "event", user |-> u, group |-> g, joins |-> joins],
     [do |-> "project", user |-> u, group |-> g, joins |-> joins] >>

\* The membership starts or ends, and the bus hears of it.
Announced(u, g, joins) == MembershipEvent(u, g, joins) \o << Publish(u, g, joins) >>

AnnouncedAll(u, gs, joins) ==
  FoldSeq(LAMBDA g, ops : ops \o Announced(u, g, joins), <<>>, SetToSeq(gs))

Promote(u, g) == [do |-> "promote", user |-> u, group |-> g]
PromoteAll(us, g) == [i \in 1..Cardinality(us) |-> Promote(SetToSeq(us)[i], g)]
RejectAll(g) == [do |-> "rejectAll", group |-> g]
Release(u, g) == [do |-> "release", user |-> u, group |-> g]
Unlead(u, g) == [do |-> "unlead", user |-> u, group |-> g]
Reassign(u, g) == [do |-> "reassign", user |-> u, group |-> g]
Lead(u, g, row) == [do |-> "lead", user |-> u, group |-> g, row |-> row]
LeaveAll(u) == [do |-> "leaveAll", user |-> u]
Sync(u, gs) == [do |-> "sync", user |-> u, groups |-> gs]
SetRole(u, role) == [do |-> "setRole", user |-> u, role |-> role]

-----------------------------------------------------------------------------
(* The steps. *)

Does(c, what) == call[c] # <<>> /\ Head(call[c]).do = what

\* c goes on with ops and then with what it had still to do.
Continue(c, ops) ==
  /\ call' = [call EXCEPT ![c] = ops \o Tail(@)]
  /\ UNCHANGED <<budget, overlap, misled>>

\* An exception ends the request; what it has written stays.
Fail(c) ==
  /\ call' = [call EXCEPT ![c] = <<>>]
  /\ UNCHANGED <<budget, overlap, misled>>

WriteGroup(c) ==
  /\ Does(c, "putGroup")
  /\ LET op == Head(call[c]) IN groups' = [groups EXCEPT ![op.group] = op.row]
  /\ Continue(c, <<>>)
  /\ UNCHANGED <<users, log, rows, count, requests, told>>

WriteUser(c) ==
  /\ Does(c, "putUser")
  /\ LET op == Head(call[c]) IN users' = [users EXCEPT ![op.user] = op.row]
  /\ Continue(c, <<>>)
  /\ UNCHANGED <<groups, log, rows, count, requests, told>>

\* Id 0 is a request that has no row yet.
WriteRequest(c) ==
  /\ Does(c, "putRequest")
  /\ LET op == Head(call[c])
     IN  requests' = IF op.id = 0 THEN Append(requests, op.row)
                     ELSE [requests EXCEPT ![op.id] = op.row]
  /\ Continue(c, <<>>)
  /\ UNCHANGED <<users, groups, log, rows, count, told>>

AppendEvent(c) ==
  /\ Does(c, "event")
  /\ LET op == Head(call[c])
     IN  log' = IF op.joins THEN log \cup {<<op.user, op.group>>}
                ELSE log \ {<<op.user, op.group>>}
  /\ Continue(c, <<>>)
  /\ UNCHANGED <<users, groups, rows, count, requests, told>>

\* Mutant: a repeated join moves the counter again.
PutGroupMemberAlwaysCounts(c) ==
  /\ Does(c, "project") /\ Head(call[c]).joins
  /\ rows' = rows \cup {<<Head(call[c]).user, Head(call[c]).group>>}
  /\ Continue(c, << Bump(Head(call[c]).group, 1) >>)
  /\ UNCHANGED <<users, groups, log, count, requests, told>>

\* put_group_member: only the put that creates the row moves the counter.
PutGroupMember(c) ==
  /\ Does(c, "project") /\ Head(call[c]).joins
  /\ LET op == Head(call[c])
         new == <<op.user, op.group>> \notin rows
     IN  /\ rows' = rows \cup {<<op.user, op.group>>}
         /\ Continue(c, IF new THEN << Bump(op.group, 1) >> ELSE <<>>)
  /\ UNCHANGED <<users, groups, log, count, requests, told>>

DeleteGroupMember(c) ==
  /\ Does(c, "project") /\ ~Head(call[c]).joins
  /\ LET op == Head(call[c])
         gone == <<op.user, op.group>> \in rows
     IN  /\ rows' = rows \ {<<op.user, op.group>>}
         /\ Continue(c, IF gone THEN << Bump(op.group, -1) >> ELSE <<>>)
  /\ UNCHANGED <<users, groups, log, count, requests, told>>

BumpMemberCount(c) ==
  /\ Does(c, "bump")
  /\ LET op == Head(call[c]) IN count' = [count EXCEPT ![op.group] = @ + op.delta]
  /\ Continue(c, <<>>)
  /\ UNCHANGED <<users, groups, log, rows, requests, told>>

\* MemberJoinedGroup, MemberLeftGroup or MemberRemoved.
PublishMembership(c) ==
  /\ Does(c, "publish")
  /\ LET op == Head(call[c])
     IN  told' = IF op.joins THEN told \cup {<<op.user, op.group>>}
                 ELSE told \ {<<op.user, op.group>>}
  /\ Continue(c, <<>>)
  /\ UNCHANGED <<users, groups, log, rows, count, requests>>

\* GroupSoftDeleted tells of every membership of the group.
PublishSoftDeleted(c) ==
  /\ Does(c, "publishDeleted")
  /\ told' = {p \in told : p[2] # Head(call[c]).group}
  /\ Continue(c, <<>>)
  /\ UNCHANGED <<users, groups, log, rows, count, requests>>

\* _promote_leaders, one leader: an Administrator is refused, after the group was stored.
PromoteLeader(c) ==
  /\ Does(c, "promote")
  /\ LET op == Head(call[c])
         row == users[op.user]
     IN  /\ misled' = (misled \/ row.role \in {"Administrator", "CommunityLeader"})
         /\ call' = [call EXCEPT ![c] =
              IF row.role = "Administrator" THEN <<>>
              ELSE << PutUser(op.user, [row EXCEPT !.role = "UserGroupLeader",
                                                   !.led = op.group]) >> \o Tail(@)]
  /\ UNCHANGED <<tables, budget, overlap>>

\* delete_group rejects what is pending by then.
RejectPending(c) ==
  /\ Does(c, "rejectAll")
  /\ LET pending == SelectSeq([i \in DOMAIN requests |-> i],
                              LAMBDA i : /\ requests[i].group = Head(call[c]).group
                                         /\ requests[i].status = "Pending")
     IN  Continue(c, [k \in DOMAIN pending |->
           PutRequest(pending[k], [requests[pending[k]] EXCEPT !.status = "Rejected"])])
  /\ UNCHANGED tables

\* _release_leadership reads the group, writes it, then reads the user.
ReleaseLeadership(c) ==
  /\ Does(c, "release")
  /\ LET op == Head(call[c])
         group == groups[op.group]
     IN  Continue(c, (IF op.user \in group.leaders
                      THEN << PutGroup(op.group, [group EXCEPT !.leaders = @ \ {op.user}]) >>
                      ELSE <<>>) \o << Unlead(op.user, op.group) >>)
  /\ UNCHANGED tables

ClearLed(c) ==
  /\ Does(c, "unlead")
  /\ LET op == Head(call[c])
     IN  Continue(c, IF users[op.user].led = op.group
                     THEN << PutUser(op.user, [users[op.user] EXCEPT !.led = NoGroup]) >>
                     ELSE <<>>)
  /\ UNCHANGED tables

\* _reassign_leader keeps the user as read now and writes it back at the end.
ReassignLeader(c) ==
  /\ Does(c, "reassign")
  /\ LET op == Head(call[c])
         row == users[op.user]
     IN  Continue(c, (IF row.led \notin {NoGroup, op.group}
                      THEN << Release(op.user, row.led) >> ELSE <<>>)
                     \o << Lead(op.user, op.group, row) >>)
  /\ UNCHANGED tables

AddLeader(c) ==
  /\ Does(c, "lead")
  /\ LET op == Head(call[c])
         group == groups[op.group]
     IN  IF group.status = "absent" THEN Fail(c)
         ELSE Continue(c, (IF op.user \in group.leaders THEN <<>>
                           ELSE << PutGroup(op.group, [group EXCEPT !.leaders = @ \cup {op.user}]) >>)
                          \o << PutUser(op.user, [op.row EXCEPT !.led = op.group]) >>)
  /\ UNCHANGED tables

GroupsOf(u) == {g \in Groups : <<u, g>> \in log}

\* The memberships end that the event log has now.
EndMemberships(c) ==
  /\ Does(c, "leaveAll")
  /\ LET u == Head(call[c]).user IN Continue(c, AnnouncedAll(u, GroupsOf(u), FALSE))
  /\ UNCHANGED tables

\* _sync_member_groups; an unknown group ends the request when its turn comes.
SyncMemberGroups(c) ==
  /\ Does(c, "sync")
  /\ LET op == Head(call[c])
         joins == op.groups \ GroupsOf(op.user)
         known == {g \in joins : groups[g].status # "absent"}
     IN  IF known # joins
         THEN \E before \in SUBSET known :
                /\ call' = [call EXCEPT ![c] = AnnouncedAll(op.user, before, TRUE)]
                /\ UNCHANGED <<budget, overlap, misled>>
         ELSE Continue(c, AnnouncedAll(op.user, joins, TRUE)
                          \o AnnouncedAll(op.user, GroupsOf(op.user) \ op.groups, FALSE))
  /\ UNCHANGED tables

\* edit_user reads the user again before it writes the role.
ReloadUser(c) ==
  /\ Does(c, "setRole")
  /\ LET op == Head(call[c])
     IN  Continue(c, << PutUser(op.user, [users[op.user] EXCEPT !.role = op.role]) >>)
  /\ UNCHANGED tables

-----------------------------------------------------------------------------
(* The requests. *)

Quiet == \A c \in Callers : call[c] = <<>>

\* A request passes its checks and has ops to do.
Begin(c, ops) ==
  /\ call[c] = <<>>
  /\ LET beside == IF Quiet THEN 0 ELSE 1
     IN  /\ budget.request > 0 /\ budget.beside >= beside
         /\ budget' = [budget EXCEPT !.request = @ - 1, !.beside = @ - beside]
         /\ overlap' = (overlap \/ beside = 1)
  /\ call' = [call EXCEPT ![c] = ops]
  /\ UNCHANGED <<tables, misled>>

Exists(g) == groups[g].status # "absent"
Active(g) == groups[g].status = "Active"

\* _validate_leaders_available: a person can lead only one group (BR-G7).
Available(us, g) == \A u \in us : users[u].led \in {NoGroup, g}

CreateGroup(c, g, leaders, approval) ==
  /\ ~Exists(g) /\ leaders # {} /\ Available(leaders, NoGroup)
  /\ Begin(c, << PutGroup(g, [status |-> "Active", leaders |-> leaders,
                              approval |-> approval]) >> \o PromoteAll(leaders, g))

EditGroup(c, g) ==
  /\ Active(g)
  /\ Begin(c, << PutGroup(g, [groups[g] EXCEPT !.approval = ~@]) >>)

EditLeaders(c, g, leaders) ==
  /\ Active(g) /\ leaders # {} /\ Available(leaders, g)
  /\ Begin(c, PromoteAll(leaders, g)
              \o << PutGroup(g, [groups[g] EXCEPT !.leaders = leaders]) >>)

\* A deleted group may be deleted again.  The members are those of the projection.
DeleteGroup(c, g) ==
  /\ Exists(g)
  /\ LET members == SetToSeq({u \in Users : <<u, g>> \in rows})
     IN  Begin(c, FoldSeq(LAMBDA u, ops : ops \o MembershipEvent(u, g, FALSE), <<>>, members)
                  \o << RejectAll(g), PutGroup(g, [groups[g] EXCEPT !.status = "SoftDeleted"]),
                        PublishDeleted(g) >>)

RestoreGroup(c, g) ==
  /\ groups[g].status = "SoftDeleted"
  /\ Begin(c, << PutGroup(g, [groups[g] EXCEPT !.status = "Active"]) >>)

\* find_pending_request
Pending(u, g) == {i \in DOMAIN requests : requests[i] = [user |-> u, group |-> g,
                                                         status |-> "Pending"]}

JoinGroup(c, u, g) ==
  /\ Active(g)
  /\ groups[g].approval => Pending(u, g) = {}
  /\ Begin(c, IF groups[g].approval
              THEN << PutRequest(0, [user |-> u, group |-> g, status |-> "Pending"]) >>
              ELSE Announced(u, g, TRUE))

WithdrawJoinRequest(c, u, g) ==
  /\ Pending(u, g) # {}
  /\ LET i == Min(Pending(u, g))
     IN  Begin(c, << PutRequest(i, [requests[i] EXCEPT !.status = "Withdrawn"]) >>)

LeaveGroup(c, u, g) ==
  /\ Exists(g)
  /\ groups[g].leaders # {u}
  /\ Begin(c, Announced(u, g, FALSE))

DecideJoinRequest(c, i, approve) ==
  /\ i \in DOMAIN requests /\ requests[i].status = "Pending"
  /\ LET row == requests[i]
     IN  Begin(c, IF approve
                  THEN << PutRequest(i, [row EXCEPT !.status = "Approved"]) >>
                       \o Announced(row.user, row.group, TRUE)
                  ELSE << PutRequest(i, [row EXCEPT !.status = "Rejected"]) >>)

AssignLeader(c, g, u) ==
  /\ Exists(g) /\ Available({u}, g)
  /\ Begin(c, << PutGroup(g, [groups[g] EXCEPT !.leaders = @ \cup {u}]), Promote(u, g) >>)

RemoveMember(c, g, u) ==
  /\ Exists(g)
  /\ Begin(c, Announced(u, g, FALSE))

ActiveLeaders == {u \in Users : users[u].role = "CommunityLeader" /\ users[u].active}
IsLastLeader(g, u) == groups[g].leaders \subseteq {u}

\* The safeguards of edit_user (BR-R6, BR-G12).
MayBecome(u, role, gs) ==
  LET old == users[u]
  IN  /\ role \in {"Administrator", "CommunityLeader"} => gs = {}
      /\ role = "UserGroupLeader" => Cardinality(gs) <= 1
      /\ old.role = "CommunityLeader" /\ role # old.role => Cardinality(ActiveLeaders) > 1
      /\ old.role = "UserGroupLeader" /\ role # old.role /\ old.led # NoGroup
           => ~IsLastLeader(old.led, u)

\* _apply_role_change.  given: the body has groupIds.
RoleChange(u, role, given, gs) ==
  LET led == users[u].led
      leads == users[u].role = "UserGroupLeader" /\ led # NoGroup
      target == IF gs # {} THEN gs ELSE {led} \ {NoGroup}
  IN  IF role = "Member"
      THEN (IF leads THEN << Release(u, led) >> ELSE <<>>)
           \o (IF given THEN << Sync(u, gs) >> ELSE <<>>)
      ELSE << LeaveAll(u) >>
           \o (IF role = "UserGroupLeader"
               THEN (IF target # {} THEN << Reassign(u, CHOOSE g \in target : TRUE) >> ELSE <<>>)
               ELSE (IF leads THEN << Release(u, led) >> ELSE <<>>))

SameRole(u, role, given, gs) ==
  CASE role = "Member" /\ given -> << Sync(u, gs) >>
    [] role = "UserGroupLeader" /\ gs # {} -> << Reassign(u, CHOOSE g \in gs : TRUE) >>
    [] OTHER -> <<>>

EditUser(c, u, role, given, gs) ==
  /\ gs # {} => given
  /\ MayBecome(u, role, gs)
  /\ Begin(c, (IF role # users[u].role THEN RoleChange(u, role, given, gs)
               ELSE SameRole(u, role, given, gs)) \o << SetRole(u, role) >>)

\* The row written back is the one read before the memberships were ended.
SetEnabled(c, u, active) ==
  /\ ~active /\ users[u].role = "CommunityLeader" => Cardinality(ActiveLeaders) > 1
  /\ Begin(c, (IF active THEN <<>> ELSE << LeaveAll(u) >>)
              \o << PutUser(u, [users[u] EXCEPT !.active = active]) >>)

\* The invocation ends here.
Crash(c) ==
  /\ call[c] # <<>> /\ budget.crash > 0
  /\ call' = [call EXCEPT ![c] = <<>>]
  /\ budget' = [budget EXCEPT !.crash = @ - 1, !.died = @ + 1]
  /\ UNCHANGED <<tables, overlap, misled>>

-----------------------------------------------------------------------------
GroupRequest(c) ==
  \E g \in Groups :
    \/ \E us \in LeaderLists :
         \/ \E approval \in BOOLEAN : CreateGroup(c, g, us, approval)
         \/ EditLeaders(c, g, us)
    \/ EditGroup(c, g)
    \/ DeleteGroup(c, g)
    \/ RestoreGroup(c, g)

MembershipRequest(c) ==
  \E u \in Users, g \in Groups :
    \/ JoinGroup(c, u, g)
    \/ WithdrawJoinRequest(c, u, g)
    \/ LeaveGroup(c, u, g)
    \/ AssignLeader(c, g, u)
    \/ RemoveMember(c, g, u)

UserRequest(c) ==
  \E u \in Users :
    \/ \E role \in Roles, gs \in GroupLists, given \in BOOLEAN : EditUser(c, u, role, given, gs)
    \/ \E active \in BOOLEAN : SetEnabled(c, u, active)

Request(c) ==
  \/ GroupRequest(c)
  \/ MembershipRequest(c)
  \/ \E i \in DOMAIN requests, approve \in BOOLEAN : DecideJoinRequest(c, i, approve)
  \/ UserRequest(c)

Step(c) ==
  \/ WriteGroup(c) \/ WriteUser(c) \/ WriteRequest(c)
  \/ AppendEvent(c) \/ PutGroupMember(c) \/ DeleteGroupMember(c) \/ BumpMemberCount(c)
  \/ PublishMembership(c) \/ PublishSoftDeleted(c)
  \/ PromoteLeader(c) \/ RejectPending(c)
  \/ ReleaseLeadership(c) \/ ClearLed(c) \/ ReassignLeader(c) \/ AddLeader(c)
  \/ EndMemberships(c) \/ SyncMemberGroups(c) \/ ReloadUser(c)

Next == \E c \in Callers : Request(c) \/ Step(c) \/ Crash(c)

Spec == Init /\ [][Next]_vars

-----------------------------------------------------------------------------
(* Properties. *)

\* No request has died and none has run beside another.
Orderly == ~overlap /\ budget.died = 0

\* Every table holds what its readers expect.
TypeOK ==
  /\ users \in [Users -> User]
  /\ groups \in [Groups -> Group]
  /\ log \subseteq Users \X Groups /\ rows \subseteq Users \X Groups
  /\ told \subseteq Users \X Groups
  /\ count \in [Groups -> Int]
  /\ requests \in Seq(JoinRequest)
  /\ overlap \in BOOLEAN

PendingBump(g) ==
  MapThenSumSet(LAMBDA c : IF Does(c, "bump") /\ Head(call[c]).group = g
                           THEN Head(call[c]).delta ELSE 0, Callers)

\* The conditional writes make the counter exact under every interleaving of requests:
\* with the increments still to be made it is the number of rows, and a request that dies
\* puts it wrong by one at most (put_group_member, delete_group_member).
CounterIsExact ==
  \A g \in Groups :
    LET drift == count[g] + PendingBump(g) - Cardinality({p \in rows : p[2] = g})
    IN  drift \in -budget.died..budget.died

\* Requests that run one after another leave the projection equal to the event log,
\* but for one membership per request that has died (append_membership_event).
ProjectionFollowsLog ==
  Quiet /\ ~overlap => Cardinality((rows \ log) \cup (log \ rows)) <= budget.died

\* Whatever request starts or ends a membership, a change of role, a deactivation and a
\* deletion of the group among them, the other services have been told.
EveryChangeIsAnnounced == Quiet /\ Orderly => told = log

\* A member has one request at most waiting in a group, however requests, decisions,
\* withdrawals and the group's deletion follow one another.
OneRequestWaits ==
  ~overlap => \A u \in Users, g \in Groups : Cardinality(Pending(u, g)) <= 1

\* A person leads one group (BR-G7): whoever is on the list of a group has it as led group.
LeadsOneGroup ==
  Quiet /\ Orderly /\ ~misled =>
    \A g \in Groups : \A u \in groups[g].leaders : users[u].led = g

\* Of changes of role and deactivations, none takes the last active Community Leader.
LastLeaderStays == ~overlap /\ ~misled => ActiveLeaders # {}

\* A join request is decided once: approved, rejected or withdrawn, it stays so.
DecisionStands ==
  [][~overlap' => \A i \in DOMAIN requests :
        requests[i].status # "Pending" => requests'[i] = requests[i]]_vars
=============================================================================
