---------------------------- MODULE MCCommunity -----------------------------
(* Small instances of what members say to each other and share: threads,      *)
(* accepted answers, shoutouts, announcements, group files, and the pages all *)
(* listings come in.  They share no row, so their steps commute, and one run  *)
(* checks them one beside the other: the initial state picks the part that    *)
(* moves, the rest stands at one of its initial states, and a property is     *)
(* that of the part that moves.                                               *)
EXTENDS Threads, CommunityParts, TLC

CONSTANTS c1, c2,               \* concurrent requests or invocations
          m1, m2, l1, k1,       \* members, a group leader, a Community Leader
          g1, g2, none,
          r1, r2, answerer,     \* replies, the request that accepts them
          s1, s2, key           \* group files: slots, an upload key

VARIABLES
  shoutout, copy, marks, shoutCall, told, week, gone, twice, shoutCrossed, died, shoutBudget,
  row, rowGone, bus, seen, due, task, today, optIns, blasts, fresh, rowCrossed, lost, late,
  rowBudget,
  links, pointer, folders, object, minted, notices, clock, fileCall, shared, excused, fileLate,
  fileBudget,
  listing, limit, table, phase, cursor, read, listed, touched, short, restarted

shoutVars == <<shoutout, copy, marks, shoutCall, told, week, gone, twice, shoutCrossed, died,
               shoutBudget>>
rowVars == <<row, rowGone, bus, seen, due, task, today, optIns, blasts, fresh, rowCrossed, lost,
             late, rowBudget>>
fileVars == <<links, pointer, folders, object, minted, notices, clock, fileCall, shared, excused,
              fileLate, fileBudget>>
listVars == <<listing, limit, table, phase, cursor, read, listed, touched, short, restarted>>
allVars == <<part, vars, answerVars, shoutVars, rowVars, fileVars, listVars>>

-----------------------------------------------------------------------------
(* A thread of two members and a leader; one post or reply an hour. *)
MCRole == [p \in {m1, m2, l1, k1} |->
             CASE p = k1 -> "CommunityLeader" [] p = l1 -> "UserGroupLeader" [] OTHER -> "Member"]
MCHome == [p \in {m1, m2, l1} |-> TRUE]
ThreadBudget(r, d) == [requests |-> r, deaths |-> d]
MCBudgets == {ThreadBudget(3, 1), ThreadBudget(4, 0)}

(* Members may send one shoutout a week, leaders one or any number. *)
MCGroupsOf == [u \in {k1, l1, m1, m2} |-> IF u = m1 THEN {g1} ELSE IF u = m2 THEN {g2} ELSE {}]
MCShoutLed == [u \in {l1} |-> g1]
MCQuotas == [r \in {"CommunityLeader", "UserGroupLeader", "Member"} |->
               IF r = "Member" THEN {1} ELSE {0, 1}]
ShoutBudget(r, d) == [requests |-> r, deaths |-> d]
S == INSTANCE Shoutouts WITH
  Posts <- {1, 2}, Role <- MCRole, GroupsOf <- MCGroupsOf, LedBy <- MCShoutLed,
  Quotas <- MCQuotas, Callers <- {c1, c2}, Weeks <- 2,
  Budgets <- {ShoutBudget(2, 1), ShoutBudget(3, 0)},
  post <- shoutout, call <- shoutCall, crossed <- shoutCrossed, budget <- shoutBudget

(* Edits, group changes, events, copies and deaths in turn. *)
RowBudget(c, e, d, g, v, a, x, n) ==
  [create |-> c, edit |-> e, delete |-> d, group |-> g, event |-> v, again |-> a, dies |-> x,
   days |-> n]
MCRowBudgets ==
  {RowBudget(1, 1, 1, 2, 0, 0, 0, 0), RowBudget(1, 2, 0, 0, 0, 0, 0, 0),
   RowBudget(1, 0, 0, 2, 0, 1, 0, 0), RowBudget(0, 1, 0, 0, 1, 1, 0, 0),
   RowBudget(1, 0, 0, 1, 0, 0, 1, 0), RowBudget(0, 0, 0, 1, 1, 0, 1, 2)}
MCRowLed == [u \in {k1, l1} |-> IF u = k1 THEN none ELSE g1]
N == INSTANCE Announcements WITH
  Ids <- {1, 2}, Groups <- {g1, g2}, Leaders <- {k1, l1}, LedBy <- MCRowLed, NoGroup <- none,
  Targets <- {{}, {g1}, {g1, g2}}, Tasks <- {1, 2}, Terms <- {1}, Budgets <- MCRowBudgets,
  gone <- rowGone, sent <- bus, crossed <- rowCrossed, budget <- rowBudget

(* Two slots, one upload key. *)
FileBudget(creates, changes, faults) ==
  [creates |-> creates, changes |-> changes, faults |-> faults]
F == INSTANCE FileShare WITH
  Slots <- {s1, s2}, Keys <- {key}, NoId <- none, Callers <- {c1, c2}, MaxPuts <- 4,
  Budgets <- {FileBudget(1, 2, 0), FileBudget(2, 1, 1)},
  call <- fileCall, late <- fileLate, budget <- fileBudget

(* Three rows, pages of one and two, two changes while they are walked. *)
MCKinds ==
  {"users", "groups", "claimQueue", "claimLedger", "submissionQueue", "links", "library",
   "ideas", "claimCount", "submissionCount", "allUsers", "groupEvents", "memberClaims",
   "shoutoutFeed", "shoutoutsFor", "shoutoutsSent", "creator", "directory", "history",
   "groupLedger", "replies", "posts", "reports", "filteredLedger", "requests", "roster"}
G == INSTANCE Listings WITH
  NRows <- 3, Kinds <- MCKinds, Limits <- {1, 2}, MaxRead <- 3, MaxChanges <- 2,
  kind <- listing

ASSUME Aa!ReplyAssumption /\ Aa!PointsAssumption /\ Aa!BoundAssumption

-----------------------------------------------------------------------------
MCInit ==
  /\ part \in {"threads", "answers", "shoutouts", "announcements", "files", "listings"}
  /\ Init /\ (part # "threads" => budget = ThreadBudget(4, 0))
  /\ Aa!Init
  /\ S!Init /\ (part # "shoutouts" => shoutBudget = ShoutBudget(3, 0))
  /\ N!Init /\ (part # "announcements" => rowBudget = RowBudget(1, 2, 0, 0, 0, 0, 0, 0))
  /\ F!Init /\ (part # "files" => fileBudget = FileBudget(2, 1, 1) /\ object[key] = 0)
  /\ G!Init /\ (part # "listings" => /\ listing = "users" /\ limit = 1
                                     /\ \A r \in 1..3 : table[r] = [part |-> 1, match |-> TRUE])

Discuss == part = "threads" /\ Next
           /\ UNCHANGED <<answerVars, shoutVars, rowVars, fileVars, listVars>>
Answer == part = "answers" /\ Aa!Next
          /\ UNCHANGED <<vars, shoutVars, rowVars, fileVars, listVars>>
Praise == part = "shoutouts" /\ S!Next
          /\ UNCHANGED <<vars, answerVars, rowVars, fileVars, listVars>>
Announce == part = "announcements" /\ N!Next
            /\ UNCHANGED <<vars, answerVars, shoutVars, fileVars, listVars>>
Share == part = "files" /\ F!Next
         /\ UNCHANGED <<vars, answerVars, shoutVars, rowVars, listVars>>
Walk == part = "listings" /\ G!Next
        /\ UNCHANGED <<vars, answerVars, shoutVars, rowVars, fileVars>>

MCNext == UNCHANGED part /\ (Discuss \/ Answer \/ Praise \/ Announce \/ Share \/ Walk)

MCSpec == MCInit /\ [][MCNext]_allVars

(* Concurrent requests are alike. *)
Alike == Permutations({c1, c2})

-----------------------------------------------------------------------------
\* A shoutout is in all four places or in none, each copy shows as many reactions as
\* there are, the weekly quota holds for each sender (BR-13), and every visible
\* shoutout was announced to its recipient (send_shoutout, delete_shoutout).
ShoutoutsHold ==
  part = "shoutouts" =>
    S!TypeOK /\ S!CopiesAgree /\ S!CountIsReactions /\ S!QuotaHolds /\ S!RecipientIsTold
\* A group's announcements are hidden just while it is deleted (BR-13), the audience is
\* mailed once for each time the author opted in (BR-10), and an event is posted once,
\* however often it is delivered (BR-15).
AnnouncementsHold ==
  part = "announcements" =>
    N!TypeOK /\ N!HiddenWithGroup /\ N!BlastPerOptIn /\ N!OnePostPerEvent
\* One file has one slot (put_file_key_pointer), every stored file has a slot that holds
\* its name (delete_link), and a slot shows whether its file is there (_on_created).
FilesHold ==
  part = "files" => F!TypeOK /\ F!NameIsHeld /\ F!NoFileIsOrphaned /\ F!UploadStateIsTrue
\* A walk through a listing lists every row that matched throughout, none twice, in the
\* listing's order, on full pages, except where the listing cuts first, and no cursor
\* that was handed out is rejected.
WalkIsComplete ==
  part = "listings" =>
    /\ G!TypeOK
    /\ G!NothingIsSkipped /\ G!NothingIsRepeated /\ G!PagesAreInOrder
    /\ G!PagesAreFull /\ G!CursorIsAccepted
=============================================================================
