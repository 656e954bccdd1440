------------------------------- MODULE Access -------------------------------
(***************************************************************************)
(* Whose data a caller is served.  The identity row of one portal user     *)
(* changes (role, led group, memberships) while the claims minted at the   *)
(* last sign-in stay in the token; every service decides from the token,   *)
(* two of them after asking the identity service for the memberships of    *)
(* the moment.  The rules are written anew in each service, and the        *)
(* listing, the single read and the statistics must agree on them.  A      *)
(* request names at most one group; what it is answered is the set of      *)
(* scopes whose rows it reads, or Refused.                                 *)
(***************************************************************************)
EXTENDS Integers, FiniteSets, FiniteSetsExt

CONSTANTS Groups,      \* group ids, naturals: the code sorts them
          Community,   \* models.COMMUNITY
          NoGroup,     \* no groupId named, no group led
          Refused,     \* the answer 401, 403 or 404
          Events,      \* event ids
          Budgets      \* bounds: [changes |-> n, signins |-> n]

VARIABLES row,         \* the identity row: [role, led, groups]
          token,       \* the claims of the last sign-in, NoToken before it
          event,       \* Events -> NoEvent or [group, mine]
          request,     \* the request between its lookup and its answer
          reply,       \* the last answer
          sinceMint,   \* groups held or led at some time since the mint
          sinceAsk,    \* the same, since the request came in
          budget

vars == <<row, token, event, request, reply, sinceMint, sinceAsk, budget>>

Roles == {"Member", "UserGroupLeader", "CommunityLeader", "Administrator"}
Principals == [role : Roles, led : Groups \cup {NoGroup}, groups : SUBSET Groups]
Scopes == Groups \cup {Community}
NoToken == [role |-> "none"]
NoEvent == [group |-> "none"]
Nothing == [op |-> "none"]

Held(who) == who.groups \cup ({who.led} \ {NoGroup})

-----------------------------------------------------------------------------
\* token_claims_handler: the group led goes to leaders and the memberships to
\* Members; a failed lookup makes the caller a Member of no group.
Claims(u, found) ==
    [role   |-> IF found THEN u.role ELSE "Member",
     led    |-> IF found /\ u.role = "UserGroupLeader" THEN u.led ELSE NoGroup,
     groups |-> IF found /\ u.role = "Member" THEN u.groups ELSE {}]

\* auth_service.refresh_claims, read by GET /groups/my-memberships.
RefreshClaims(u) ==
    [role   |-> u.role,
     led    |-> IF u.role = "UserGroupLeader" THEN u.led ELSE NoGroup,
     groups |-> IF u.role = "Member" THEN u.groups ELSE {}]

\* forums and contributions put the memberships of the moment in a Member's
\* claims, and keep the token's when the lookup fails (membership_client).
LiveGroups(who) ==
    IF who.role = "Member"
    THEN [who EXCEPT !.groups = RefreshClaims(row).groups]
    ELSE who

-----------------------------------------------------------------------------
\* The events service (models.py, event_service.py, event_ideas_service.py).

\* Mutant: a leader is listed the community's events and the memberships' only.
visible_scopes_of_members(who) ==
    IF who.role \in {"Administrator", "CommunityLeader"} THEN {}
    ELSE {Community} \cup who.groups

visible_scopes(who) ==
    IF who.role \in {"Administrator", "CommunityLeader"} THEN {}
    ELSE {Community} \cup Held(who)

can_view(e, who) ==
    /\ who.role # "Administrator"
    /\ \/ who.role = "CommunityLeader"
       \/ e.group = Community
       \/ e.group = who.led
       \/ e.group \in who.groups

can_manage(e, who) ==
    /\ who.role # "Administrator"
    /\ \/ e.mine
       \/ who.role = "CommunityLeader"
       \/ who.role = "UserGroupLeader" /\ who.led # NoGroup /\ e.group = who.led

\* _load_viewable, _load_manageable: not found, forbidden, or the event.
load_viewable(e, who) == e # NoEvent /\ can_view(e, who)
load_manageable(e, who) == load_viewable(e, who) /\ can_manage(e, who)

require_creator_role(who, g) ==
    \/ who.role = "CommunityLeader"
    \/ who.role = "UserGroupLeader" /\ g \in Groups /\ g = who.led

\* The listing and the calendar over it.
ListEvents(who) ==
    IF who.role = "CommunityLeader" THEN Scopes ELSE visible_scopes(who)

in_scope(g, who) == who.role = "CommunityLeader" \/ g \in visible_scopes(who)

\* The ideas feed: a named group the caller may see, or all of its scopes.
Browse(who, asked) ==
    CASE asked # NoGroup -> IF in_scope(asked, who) THEN {asked} ELSE Refused
      [] asked = NoGroup /\ who.role = "CommunityLeader" -> {Community}
      [] OTHER -> visible_scopes(who)

\* The leaders' backlog.
Backlog(who, asked) ==
    CASE who.role = "UserGroupLeader" ->
             {IF who.led # NoGroup THEN who.led
              ELSE IF asked # NoGroup THEN asked ELSE Community}
      [] who.role = "CommunityLeader" ->
             IF asked # NoGroup THEN {asked} ELSE Scopes
      [] OTHER -> Refused

StatsByType(who, asked) ==
    CASE who.role = "UserGroupLeader" ->
             IF who.led = NoGroup THEN Refused ELSE {who.led}
      [] who.role = "CommunityLeader" ->
             {IF asked = NoGroup THEN Community ELSE asked}
      [] OTHER -> Refused

StatsByGroup(who, asked) ==
    IF who.role = "CommunityLeader" THEN {Community} \cup ({asked} \ {NoGroup})
    ELSE Refused

\* dispatch refuses Administrators before any operation.
AtEvents(op, who, asked) ==
    IF who.role = "Administrator" THEN Refused ELSE
    CASE op = "listEvents" -> ListEvents(who)
      [] op = "browseIdeas" -> Browse(who, asked)
      [] op = "ideaBacklog" -> Backlog(who, asked)
      [] op = "statsByType" -> StatsByType(who, asked)
      [] op = "statsByGroup" -> StatsByGroup(who, asked)

-----------------------------------------------------------------------------
\* The contributions service (read_service.py): what a group's leader and a
\* Community Leader are told of a group; nothing when no group comes of it.
LedOrAsked(who, asked) ==
    CASE who.role = "UserGroupLeader" -> {who.led} \ {NoGroup}
      [] who.role = "CommunityLeader" -> {asked} \ {NoGroup}
      [] OTHER -> Refused

group_ledger(who, asked) == LedOrAsked(who, asked)
group_trend(who, asked) == LedOrAsked(who, asked)
summary(who, asked) == LedOrAsked(who, asked)
community_trend(who) ==
    IF who.role = "CommunityLeader" THEN {Community} ELSE Refused

export(who, asked) ==
    CASE who.role = "UserGroupLeader" -> {who.led} \ {NoGroup}
      [] who.role = "CommunityLeader" ->
             IF asked = NoGroup THEN Groups ELSE {asked}
      [] OTHER -> Refused

\* Any group's leaderboard may be asked for; unasked, it is the first of the
\* caller's own.
leaderboard(who, asked) ==
    CASE who.role = "Administrator" -> Refused
      [] who.role # "Administrator" /\ asked # NoGroup -> {asked}
      [] OTHER -> LET own == IF who.groups # {} THEN who.groups ELSE Held(who)
                  IN  IF own = {} THEN {} ELSE {Min(own)}

AtContributions(op, who, asked) ==
    CASE op = "groupLedger" -> group_ledger(who, asked)
      [] op = "groupTrend" -> group_trend(who, asked)
      [] op = "groupSummary" -> summary(who, asked)
      [] op = "communityTrend" -> community_trend(who)
      [] op = "exportPoints" -> export(who, asked)
      [] op = "leaderboard" -> leaderboard(who, asked)

-----------------------------------------------------------------------------
\* The certifications ledger: a leader whose token names no group has it
\* looked up in the identity service (_led_group).
resolve_scope(who, asked) ==
    CASE who.role = "UserGroupLeader" ->
             LET led == IF who.led # NoGroup THEN who.led ELSE RefreshClaims(row).led
             IN  IF led = NoGroup THEN Refused ELSE {led}
      [] who.role = "CommunityLeader" ->
             IF asked = NoGroup THEN Scopes ELSE {asked}
      [] OTHER -> Refused

AtCertifications(op, who, asked) ==
    IF who.role = "Administrator" THEN Refused ELSE
    CASE op = "certLedger" -> resolve_scope(who, asked)

\* The forums: browsing, and access to what lies in one group's forum.
browse_forums(who) ==
    CASE who.role = "CommunityLeader" -> Scopes
      [] who.role = "UserGroupLeader" -> {Community} \cup ({who.led} \ {NoGroup})
      [] who.role = "Member" -> {Community} \cup who.groups

require_group_access(who, g) ==
    \/ g = Community
    \/ who.role = "CommunityLeader"
    \/ who.role = "UserGroupLeader" /\ who.led = g
    \/ who.role = "Member" /\ g \in who.groups

AtForums(op, who, asked) ==
    IF who.role = "Administrator" THEN Refused ELSE
    CASE op = "browseForums" -> browse_forums(who)
      [] op = "listPosts" -> IF require_group_access(who, asked) THEN {asked}
                             ELSE Refused

\* _conventions/authz.authorize of ("approve", "join-request"): global for
\* Community Leaders, on a group of their own for User Group Leaders.
authorize(who, g) ==
    \/ who.role = "CommunityLeader"
    \/ who.role = "UserGroupLeader" /\ g \in Held(who)

AtIdentity(op, who, asked) == IF authorize(who, asked) THEN {asked} ELSE Refused

\* The member directory (member_scope, browse): a Member is listed the members
\* of its groups, or of the one it names among them.
member_scope(who) == IF who.role = "Member" THEN who.groups ELSE Groups

browse_members(who, asked) ==
    CASE member_scope(who) = {} -> {}
      [] member_scope(who) # {} /\ asked = NoGroup -> member_scope(who)
      [] OTHER -> IF asked \in member_scope(who) THEN {asked} ELSE Refused

AtProfiles(op, who, asked) == browse_members(who, asked)

\* The announcements panel, a Community Leader's own posts to groups aside.
AtAnnouncements(op, who, asked) ==
    IF who.role = "Administrator" THEN Refused ELSE {Community} \cup Held(who)

-----------------------------------------------------------------------------
EventOps == {"listEvents", "browseIdeas", "ideaBacklog", "statsByType", "statsByGroup"}
PointOps == {"groupLedger", "groupTrend", "groupSummary", "communityTrend",
             "exportPoints", "leaderboard"}
ForumOps == {"browseForums", "listPosts"}

Answer(op, who, asked) ==
    CASE op \in EventOps -> AtEvents(op, who, asked)
      [] op \in PointOps -> AtContributions(op, who, asked)
      [] op \in ForumOps -> AtForums(op, who, asked)
      [] op = "certLedger" -> AtCertifications(op, who, asked)
      [] op = "listJoinRequests" -> AtIdentity(op, who, asked)
      [] op = "browseMembers" -> AtProfiles(op, who, asked)
      [] op = "panel" -> AtAnnouncements(op, who, asked)

\* The operations that ask for the memberships of the moment first.
Refreshing == PointOps \cup ForumOps
Ops == EventOps \cup Refreshing \cup {"certLedger", "listJoinRequests",
                                    "browseMembers", "panel"}

\* What a request of each operation may name.
Names(op) ==
    CASE op \in {"listPosts", "listJoinRequests"} -> Groups
      [] op \in {"listEvents", "communityTrend", "browseForums", "panel"} -> {NoGroup}
      [] OTHER -> Groups \cup {NoGroup}

-----------------------------------------------------------------------------
Init ==
    /\ row = [role |-> "Member", led |-> NoGroup, groups |-> {}]
    /\ token = NoToken
    /\ event = [e \in Events |-> NoEvent]
    /\ request = Nothing
    /\ reply = Nothing
    /\ sinceMint = {}
    /\ sinceAsk = {}
    /\ budget \in Budgets

\* The identity row changes; what it holds now counts as held since.
Becomes(u) ==
    /\ u # row
    /\ budget.changes > 0
    /\ budget' = [budget EXCEPT !.changes = @ - 1]
    /\ row' = u
    /\ sinceMint' = sinceMint \cup Held(u)
    /\ sinceAsk' = IF request = Nothing THEN {} ELSE sinceAsk \cup Held(u)
    /\ reply' = Nothing
    /\ UNCHANGED <<token, event, request>>

\* _apply_role_change: leaving Member ends the memberships, leaving
\* UserGroupLeader releases the group; a demoted leader is in no group unless
\* the administrator names some.
ChangeRole ==
    \/ \E r \in {"CommunityLeader", "Administrator"} :
           Becomes([role |-> r, led |-> NoGroup, groups |-> {}])
    \/ \E g \in Groups \cup {NoGroup} :
           Becomes([role |-> "UserGroupLeader", led |-> g, groups |-> {}])
    \/ \E gs \in SUBSET Groups :
           row.role # "Member" /\
               Becomes([role |-> "Member", led |-> NoGroup, groups |-> gs])

JoinOrLeave(g) ==
    /\ row.role = "Member"
    /\ Becomes([row EXCEPT !.groups = IF g \in @ THEN @ \ {g} ELSE @ \cup {g}])

SignIn(found) ==
    /\ request = Nothing
    /\ budget.signins > 0
    /\ budget' = [budget EXCEPT !.signins = @ - 1]
    /\ token' = Claims(row, found)
    /\ sinceMint' = Held(row)
    /\ reply' = Nothing
    /\ UNCHANGED <<row, event, request, sinceAsk>>

\* event_service.create, by this user or by another one.
CreateEvent(e, g) ==
    /\ token # NoToken /\ token.role # "Administrator"
    /\ event[e] = NoEvent
    /\ require_creator_role(token, g)
    /\ event' = [event EXCEPT ![e] = [group |-> g, mine |-> TRUE]]
    /\ reply' = Nothing
    /\ UNCHANGED <<row, token, request, sinceMint, sinceAsk, budget>>

OthersCreate(e, g) ==
    /\ event[e] = NoEvent
    /\ event' = [event EXCEPT ![e] = [group |-> g, mine |-> FALSE]]
    /\ UNCHANGED <<row, token, request, reply, sinceMint, sinceAsk, budget>>

\* A request comes in; the token is all its handler knows of the caller.
Ask(op, asked) ==
    /\ token # NoToken
    /\ request = Nothing
    /\ request' = [op |-> op, asked |-> asked, who |-> token, live |-> FALSE]
    /\ sinceAsk' = Held(row)
    /\ reply' = Nothing
    /\ UNCHANGED <<row, token, event, sinceMint, budget>>

\* get_member_group_ids: identity answers from the row of the moment; a failed
\* lookup is a request served without this step.
Lookup ==
    /\ request # Nothing /\ ~request.live
    /\ request.op \in Refreshing
    /\ request.who.role = "Member"
    /\ request' = [request EXCEPT !.who = LiveGroups(@), !.live = TRUE]
    /\ UNCHANGED <<row, token, event, reply, sinceMint, sinceAsk, budget>>

\* The answer, from the token's groups when the lookup failed.
Serve ==
    /\ request # Nothing
    /\ reply' = [op |-> request.op, asked |-> request.asked, who |-> request.who,
                 live |-> request.live,
                 scopes |-> Answer(request.op, request.who, request.asked)]
    /\ request' = Nothing
    /\ UNCHANGED <<row, token, event, sinceMint, sinceAsk, budget>>

Next ==
    \/ ChangeRole
    \/ \E g \in Groups : JoinOrLeave(g)
    \/ \E found \in BOOLEAN : SignIn(found)
    \/ \E e \in Events, g \in Scopes : CreateEvent(e, g) \/ OthersCreate(e, g)
    \/ \E op \in Ops : \E asked \in Names(op) : Ask(op, asked)
    \/ Lookup
    \/ Serve

Spec == Init /\ [][Next]_vars

-----------------------------------------------------------------------------
TypeOK ==
    /\ row \in Principals
    /\ token \in Principals \cup {NoToken}
    /\ row.role # "Member" => row.groups = {}
    /\ row.role # "UserGroupLeader" => row.led = NoGroup
    /\ \A e \in Events : event[e] # NoEvent =>
           event[e] \in [group : Scopes, mine : BOOLEAN]
    /\ sinceMint \subseteq Groups /\ sinceAsk \subseteq Groups
    /\ reply # Nothing => reply.scopes \in (SUBSET Scopes) \cup {Refused}

Participant == token # NoToken /\ token.role # "Administrator"

\* What a caller is listed is what it can open (BR-S2, models.py
\* visible_scopes and can_view; forums _browse_forums and
\* require_group_access; the ideas feed, the member directory and their group
\* filters): the two rules of each service name the same rows for every claims the portal can mint.
ListedCanBeOpened ==
    Participant =>
        /\ \A e \in Events : event[e] # NoEvent =>
               event[e].group \in ListEvents(token) <=> load_viewable(event[e], token)
        /\ \A g \in Groups :
               /\ g \in browse_forums(token) <=> require_group_access(token, g)
               /\ token.role # "CommunityLeader" =>
                      (g \in Browse(token, NoGroup) <=> Browse(token, g) # Refused)
               /\ g \in browse_members(token, NoGroup) <=> browse_members(token, g) = {g}

\* A leader and a Community Leader who names that leader's group are shown the
\* same figures ("the two can never disagree", event_service.py:262; "so a
\* Community Leader's per-group bar and that group's own leader see the same
\* number", :318), in every statistic of every service and whatever group the
\* leader's request names.
LeaderSeesTheSame ==
    Participant /\ token.role = "UserGroupLeader" /\ token.led # NoGroup =>
        LET cl == [role |-> "CommunityLeader", led |-> NoGroup, groups |-> {}]
        IN  \A op \in {"ideaBacklog", "statsByType", "groupLedger", "groupTrend",
                       "groupSummary", "exportPoints", "certLedger"} :
                \A asked \in Names(op) :
                    Answer(op, token, asked) = Answer(op, cl, token.led)

\* The rows a Member or a leader is served unasked are of groups it held: since
\* the request came in when identity answered the lookup, since the claims were
\* minted when it did not.  A group's leaderboard is open to all who name it, and
\* the backlog of a leader without a group is what the request names; leaders
\* are listed every member.
ScopesWereHeld ==
    reply # Nothing
    /\ reply.who.role \in {"Member", "UserGroupLeader"}
    /\ ~(reply.op = "browseMembers" /\ reply.who.role # "Member")
    /\ ~(reply.op = "leaderboard" /\ reply.asked # NoGroup)
    /\ ~(reply.op = "ideaBacklog" /\ reply.who.led = NoGroup)
    /\ reply.scopes # Refused =>
          reply.scopes \ {Community}
              \subseteq IF reply.live THEN sinceAsk ELSE sinceMint

\* BR-A5 inside what the caller sees: whatever its role has become, a creator
\* manages the events it created in the scopes it is listed.
CreatorManagesInView ==
    Participant =>
        \A e \in Events :
            load_viewable(event[e], token) /\ event[e].mine =>
                load_manageable(event[e], token)

(* The types and the four of them together. *)
AccessHolds ==
    TypeOK /\ ListedCanBeOpened /\ LeaderSeesTheSame /\ ScopesWereHeld /\ CreatorManagesInView

\* BR-A5 as events/src/models.py:177 states it: "a demoted creator keep[s]
\* edit/cancel rights on events they created", here of one whose claims are those
\* of today.
CreatorKeepsRights ==
    Participant /\ token = RefreshClaims(row) =>
        \A e \in Events :
            event[e] # NoEvent /\ event[e].mine => load_manageable(event[e], token)
=============================================================================
