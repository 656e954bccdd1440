----------------------------- MODULE MCMembers -------------------------------
(* Small instances of who the members are and what they see: users, groups    *)
(* and memberships, accounts and sign-in, what a token lets its holder do,    *)
(* the directory, the settings, and the community's figures.  They share no   *)
(* row, so their steps commute, and one run checks them one beside the other: *)
(* the initial state picks the part that moves, the rest stands at one of its *)
(* initial states, and a property is that of the part that moves.             *)
EXTENDS Accounts, MemberParts, Sequences, TLC

CONSTANTS c1, c2,                        \* concurrent requests
          m1, l1, k1, a1, g1, g2,        \* people of every role, groups
          NoGroup,
          u1, u2, d1, d2, r1, r2         \* figures: users, groups, runs

VARIABLES
  users, groups, log, rows, count, requests, told, groupCall, groupBudget, groupOverlap, misled,
  user, profile, doc, sent, seen, due, task, userStream, profileStream, scan, edits,
  profileOverlap, lost, late, behind, directoryBudget,
  quarter, member, history, groupStats, counts, run, figureBudget, crossed

groupVars == <<users, groups, log, rows, count, requests, told, groupCall, groupBudget,
               groupOverlap, misled>>
directoryVars == <<user, profile, doc, sent, seen, due, task, userStream, profileStream, scan,
                   edits, profileOverlap, lost, late, behind, directoryBudget>>
figureVars == <<quarter, member, history, groupStats, counts, run, figureBudget, crossed>>
allVars == <<part, vars, groupVars, accessVars, directoryVars, settingsVars, figureVars>>

-----------------------------------------------------------------------------
Budget(n, b, x) == [request |-> n, beside |-> b, crash |-> x, died |-> 0]

(* A member, the leader of one of two groups, a Community Leader and an       *)
(* Administrator; three requests in a row, or two at once; one may die.       *)
MCPeople == {m1, l1, k1, a1}
MCPerson(role, led) == [role |-> role, led |-> led, active |-> TRUE]
MCFirstUsers ==
  [u \in MCPeople |-> CASE u = l1 -> MCPerson("UserGroupLeader", g1)
                        [] u = k1 -> MCPerson("CommunityLeader", NoGroup)
                        [] u = a1 -> MCPerson("Administrator", NoGroup)
                        [] OTHER -> MCPerson("Member", NoGroup)]
MCFirstGroups ==
  [g \in {g1, g2} |->
     IF g = g1 THEN [status |-> "Active", leaders |-> {l1}, approval |-> TRUE]
     ELSE [status |-> "absent", leaders |-> {}, approval |-> FALSE]]
G == INSTANCE Groups WITH
  Users <- MCPeople, Groups <- {g1, g2}, FirstUsers <- MCFirstUsers, FirstGroups <- MCFirstGroups,
  LeaderLists <- { {m1}, {l1, a1} }, GroupLists <- { {}, {g1}, {g1, g2} }, Callers <- {c1, c2},
  Budgets <- { Budget(3, 0, 1), Budget(2, 1, 1) },
  call <- groupCall, budget <- groupBudget, overlap <- groupOverlap

(* One address, a weekly proof shortened to two days, two guesses; six        *)
(* requests in a row, or of which two begin beside another.                   *)
MCBudgets == { Budget(6, 0, 1), Budget(6, 2, 0) }

(* Changes of a person's role and groups, and sign-ins; one event. *)
AccessBudget(c, s) == [changes |-> c, signins |-> s]
MCAccessBudgets == { AccessBudget(2, 1), AccessBudget(1, 2) }
MCLongBudgets == { AccessBudget(3, 2) }   \* creatorkeeps, where nothing else moves

(* Identity changes, own edits, redelivered events, deaths, records given up *)
(* and nights in turn.                                                       *)
DirectoryBudget(i, e, a, d, g, n) ==
  [identity |-> i, edits |-> e, again |-> a, dies |-> d, given |-> g, nights |-> n]
MCDirectoryBudgets ==
  { DirectoryBudget(2, 0, 1, 0, 0, 0), DirectoryBudget(1, 1, 1, 0, 0, 0),
    DirectoryBudget(1, 1, 0, 1, 0, 0), DirectoryBudget(1, 0, 0, 0, 1, 1),
    DirectoryBudget(0, 1, 0, 0, 1, 1), DirectoryBudget(0, 2, 0, 0, 0, 1) }
D == INSTANCE Directory WITH
  Roles <- {"Member", "UserGroupLeader"}, FirstRole <- "Member", Groups <- {g1},
  Cities <- {"Oslo"}, Tasks <- {1, 2}, Unset <- "unset", Budgets <- MCDirectoryBudgets,
  overlap <- profileOverlap, budget <- directoryBudget

(* Saves of two administrators; a client whose read fails once.  9 stands *)
(* for a field that is not stored.                                        *)
SaveBudget(s, p, f, t) == [save |-> s, points |-> p, fail |-> f, ticks |-> t]
MCDefault == [open |-> 1, days |-> 0, teams |-> 0, points |-> 0]
MCEnv == [open |-> 0, days |-> 0, teams |-> 0, points |-> 0]
MCSaveBudgets == { SaveBudget(2, 0, 0, 0), SaveBudget(1, 0, 1, 2), SaveBudget(0, 1, 1, 2) }

(* Two members, two groups; changes, and runs of the nightly job in three *)
(* quarters, of which the charts show two.                                *)
FigureBudget(c, r) == [changes |-> c, runs |-> r]
N == INSTANCE Snapshots WITH
  Users <- {u1, u2}, Groups <- {d1, d2}, Runs <- {r1, r2}, LastQuarter <- 2, Kept <- 2,
  Budgets <- { FigureBudget(2, 1), FigureBudget(1, 2) }, user <- member, budget <- figureBudget

-----------------------------------------------------------------------------
MCInit ==
  /\ part \in {"groups", "accounts", "access", "directory", "settings", "figures"}
  /\ Init /\ (part # "accounts" => budget = Budget(6, 0, 1))
  /\ G!Init /\ (part # "groups" => groupBudget = Budget(2, 1, 1))
  /\ V!Init /\ (part # "access" => accessBudget = AccessBudget(2, 1))
  /\ D!Init /\ (part # "directory" => /\ directoryBudget = DirectoryBudget(0, 2, 0, 0, 0, 1)
                                      /\ user.city = "unset")
  /\ St!Init /\ (part # "settings" => /\ saveBudget = SaveBudget(2, 0, 0, 0)
                                     /\ client = "identity"
                                     /\ stored.open = 9 /\ stored.days = 9)
  /\ N!Init /\ (part # "figures" => figureBudget = FigureBudget(2, 1))

Belong == part = "groups" /\ G!Next
          /\ UNCHANGED <<vars, accessVars, directoryVars, settingsVars, figureVars>>
SignIn == part = "accounts" /\ Next
          /\ UNCHANGED <<groupVars, accessVars, directoryVars, settingsVars, figureVars>>
Enter == part = "access" /\ V!Next
         /\ UNCHANGED <<vars, groupVars, directoryVars, settingsVars, figureVars>>
Appear == part = "directory" /\ D!Next
          /\ UNCHANGED <<vars, groupVars, accessVars, settingsVars, figureVars>>
Configure == part = "settings" /\ St!Next
             /\ UNCHANGED <<vars, groupVars, accessVars, directoryVars, figureVars>>
Summarise == part = "figures" /\ N!Next
             /\ UNCHANGED <<vars, groupVars, accessVars, directoryVars, settingsVars>>

MCNext == UNCHANGED part /\ (Belong \/ SignIn \/ Enter \/ Appear \/ Configure \/ Summarise)

MCSpec == MCInit /\ [][MCNext]_allVars

(* Concurrent requests are alike, and so are two runs of the nightly job. *)
Alike == Permutations({c1, c2})

-----------------------------------------------------------------------------
\* The member counter is the number of membership rows, the rows are what the event log
\* says, every change was published, a member has one pending join request in a group,
\* who is on a group's list of leaders leads that group (BR-G7), and the last active
\* Community Leader is never taken.
GroupsHold ==
  part = "groups" =>
    /\ G!TypeOK
    /\ G!CounterIsExact /\ G!ProjectionFollowsLog /\ G!EveryChangeIsAnnounced
    /\ G!OneRequestWaits /\ G!LeadsOneGroup /\ G!LastLeaderStays
\* A profile has the role, status and groups of its account, no identity event takes back
\* what a member wrote, and drained streams leave the directory up to date.
DirectoryHolds ==
  part = "directory" =>
    D!TypeOK /\ D!ProfileFollowsIdentity /\ D!OwnEditStands /\ D!DirectoryIsCurrent
\* The bars, the overlap and the roster add up to the members, new members never
\* outnumber the members counted, and the chart ends at the card's total, runs that
\* cross aside (snapshot).
FiguresHold ==
  part = "figures" =>
    N!TypeOK /\ N!BarsReconcile /\ N!NewIsPartOfTotal /\ N!CardIsOnChartUncrossed
=============================================================================
