------------------------------ MODULE Listings ------------------------------
(***************************************************************************)
(* Walking a listing page by page while its rows change.  Every service    *)
(* pages with an opaque cursor, each in a way of its own; a walk here is   *)
(* one listing, read by its own function, one table read a step.           *)
(*                                                                         *)
(*   kind      the listing that is walked, and limit its page size         *)
(*   table[r]  row r of its index: part is the partition it is in (0: in   *)
(*             none), match whether the filters of the walk accept it.     *)
(*             The number of a row is its place in its partition, in the   *)
(*             direction in which the listing reads                        *)
(*   phase     "client": between pages; "reading": a page is being put     *)
(*             together; "refused": the database rejected a start key      *)
(*   cursor    what the client holds                                       *)
(*   read      the request: the partition it reads, the exclusive start    *)
(*             key, the rows found so far                                  *)
(*   listed    the rows of all pages so far                                *)
(*   touched   ghost: the rows that changed since the walk began           *)
(*   short     ghost: a page was not full and still had a cursor           *)
(*   restarted ghost: a cursor no longer named a row of its listing        *)
(***************************************************************************)
EXTENDS Integers, Sequences, FiniteSets, SequencesExt

CONSTANTS NRows, Kinds, Limits, MaxRead, MaxChanges

VARIABLES kind, limit, table, phase, cursor, read, listed, touched, short, restarted

vars == <<kind, limit, table, phase, cursor, read, listed, touched, short, restarted>>

Rows == 1 .. NRows
RowSeq == [r \in Rows |-> r]
None == [row |-> 0, part |-> 0, index |-> 1, leaders |-> TRUE]
NoRead == [index |-> 1, start |-> None, found |-> <<>>]

(* The partitions of a listing, and whether filters apply to it.  Of a group *)
(* roster, 1 is a leader, 2 a member, 3 a leader who is also a member.       *)
Parts(k) == CASE k \in {"users", "allUsers", "scopes", "ideas", "requests"} -> {1, 2}
              [] k = "roster" -> {1, 2, 3}
              [] OTHER -> {1}
Filtered(k) == k \in {"users", "groups", "scopes", "claimQueue", "claimLedger", "submissionQueue",
                      "filteredLedger", "posts", "reports", "library", "directory", "requests",
                      "submissionCount", "claimCount", "roster"}

Init ==
  /\ kind \in Kinds /\ limit \in Limits
  /\ table \in [Rows -> [part : {0} \cup Parts(kind), match : BOOLEAN]]
  /\ \A r \in Rows : ~table[r].match => table[r].part # 0 /\ Filtered(kind)
  /\ phase = "client" /\ cursor = None /\ read = NoRead
  /\ listed = <<>> /\ touched = {} /\ short = FALSE /\ restarted = FALSE

-----------------------------------------------------------------------------
(* One read of the table: at most n rows of a partition after the start key. *)
(* A key to go on from comes back when n rows were read, more or not.  The   *)
(* database rejects a start key of another partition.                        *)
After(p, start) == SelectSeq(RowSeq, LAMBDA r : table[r].part = p /\ r > start.row)
Upto(rows, n) == SubSeq(rows, 1, IF n < Len(rows) THEN n ELSE Len(rows))
Query(p, start, n) == [rows |-> Upto(After(p, start), n), more |-> Len(After(p, start)) >= n]

Key(r, index) == [row |-> r, part |-> table[r].part, index |-> index, leaders |-> TRUE]
Keys(rows, index) == [i \in DOMAIN rows |-> Key(rows[i], index)]
Accepted(rows) == SelectSeq(rows, LAMBDA r : table[r].match)
WrongPart == read.start # None /\ read.start.part # read.index

Refuse ==
  /\ phase' = "refused" /\ read' = NoRead
  /\ UNCHANGED <<cursor, listed, short, restarted>>

Reply(page, next) ==
  /\ listed' = listed \o [i \in DOMAIN page |-> page[i].row]
  /\ cursor' = next /\ read' = NoRead
  /\ phase' = IF next = None THEN "done" ELSE "client"
  /\ short' = (short \/ (next # None /\ Len(page) # limit))
  /\ UNCHANGED restarted

ReadOn(index, start, found) ==
  /\ read' = [index |-> index, start |-> start, found |-> found]
  /\ UNCHANGED <<phase, cursor, listed, short, restarted>>

\* Mutant: a malformed cursor is ignored, and so is every other.
DecodeNothing(c) == NoRead

\* What the cursor says: where to go on, and in which partition.
Decode(c) == [index |-> c.index, start |-> c, found |-> <<>>]

\* The client asks for its next page.
Ask ==
  /\ phase = "client" /\ phase' = "reading"
  /\ read' = Decode(cursor)
  /\ UNCHANGED <<kind, limit, table, cursor, listed, touched, short, restarted>>

-----------------------------------------------------------------------------
(* Fetch until full: partitions in a fixed order, one row more than the page *)
(* proves that there is a next one.                                          *)

\* query_scope_page: the key of the page's last row, and the partition the loop is in by then.
CursorOfScope(found, index) == [found[limit] EXCEPT !.index = index]

\* All others: the same key, and the partition of that row.
CursorOfPage(found, index) == found[limit]

Walk(n, Cursor(_, _), last) ==
  IF WrongPart THEN Refuse
  ELSE LET q == Query(read.index, read.start, n)
           found == read.found \o Keys(Accepted(q.rows), read.index)
       IN  IF Len(found) > last THEN Reply(Upto(found, limit), Cursor(Upto(found, last + 1), read.index))
           ELSE IF q.more THEN ReadOn(read.index, Key(Last(q.rows), read.index), found)
           ELSE IF read.index < Cardinality(Parts(kind)) THEN ReadOn(read.index + 1, None, found)
           ELSE Reply(found, None)

\* A Query or Scan without Limit stops where 1 MB ends.
UntilFull == \E n \in 1 .. MaxRead : Walk(n, CursorOfPage, limit)
UntilEnd == \E n \in 1 .. MaxRead : Walk(n, CursorOfPage, NRows)

list_users_page == kind = "users" /\ UntilFull
list_groups_page == kind = "groups" /\ UntilFull
query_claims_pending_page == kind = "claimQueue" /\ UntilFull
query_ledger_page == kind = "claimLedger" /\ UntilFull
query_submissions_pending_page == kind = "submissionQueue" /\ UntilFull
scan_links_page == kind = "links" /\ UntilFull

query_library_page == kind = "library" /\ Walk(limit + 1, CursorOfPage, limit)

_walk_partitions == kind = "ideas" /\ Walk(limit + 1, CursorOfPage, limit)
query_scope_page == kind = "scopes" /\ Walk(limit + 1, CursorOfScope, limit)

\* Everything at once: the counts of the badges, the whole listings.
count_claims_pending == kind = "claimCount" /\ UntilEnd
count_submissions_pending == kind = "submissionCount" /\ UntilEnd
list_users == kind = "allUsers" /\ UntilEnd
group_events == kind = "groupEvents" /\ UntilEnd

-----------------------------------------------------------------------------
(* One Query of one row more than the page. *)

ReadAhead(n) ==
  LET q == Query(1, read.start, n)
      rows == Keys(q.rows, 1)
  IN  IF Len(rows) > limit THEN Reply(Upto(rows, limit), rows[limit]) ELSE Reply(rows, None)

list_member_claims_page == kind = "memberClaims" /\ ReadAhead(limit + 1)
query_shoutout_feed_page == kind = "shoutoutFeed" /\ ReadAhead(limit + 1)
query_shoutouts_for_recipient_page == kind = "shoutoutsFor" /\ ReadAhead(limit + 1)
query_shoutouts_sent_page == kind = "shoutoutsSent" /\ ReadAhead(limit + 1)

\* query_creator_page: a read that stopped early goes on from its last row.
query_creator_page ==
  /\ kind = "creator"
  /\ \E n \in 1 .. limit + 1 :
       LET q == Query(1, read.start, n)
           rows == Keys(q.rows, 1)
       IN  IF Len(rows) > limit THEN Reply(Upto(rows, limit), rows[limit])
           ELSE Reply(rows, IF q.more /\ n <= limit THEN Last(rows) ELSE None)

\* search_members: the search engine filters, sorts and cuts; search_after the last hit.
search_members ==
  /\ kind = "directory"
  /\ LET hits == Keys(Upto(Accepted(After(1, read.start)), limit + 1), 1)
     IN  IF Len(hits) > limit THEN Reply(Upto(hits, limit), hits[limit]) ELSE Reply(hits, None)

-----------------------------------------------------------------------------
(* One Query of the page's own size: the cursor is the key it ended at, and  *)
(* rows are dropped after the cut.                                           *)
ToTheLimit(Keep(_)) ==
  LET q == Query(1, read.start, limit)
  IN  Reply(Keys(Keep(q.rows), 1), IF q.more THEN Key(Last(q.rows), 1) ELSE None)

All(rows) == rows
group_events_page == kind = "history" /\ ToTheLimit(All)
query_group_ledger_page == kind = "groupLedger" /\ ToTheLimit(All)
list_replies_by_post == kind = "replies" /\ ToTheLimit(All)

list_posts_by_channel == kind = "posts" /\ ToTheLimit(Accepted)

list_reports_by_group == kind = "reports" /\ ToTheLimit(Accepted)

(* query_group_ledger_filtered_page: blocks larger than the page, cut at the *)
(* match that fills it, whether or not another follows.                      *)
query_group_ledger_filtered_page ==
  /\ kind = "filteredLedger"
  /\ LET q == Query(1, read.start, MaxRead)
         found == read.found \o Keys(Accepted(q.rows), 1)
     IN  IF Len(found) >= limit THEN Reply(Upto(found, limit), found[limit])
         ELSE IF q.more THEN ReadOn(1, Key(Last(q.rows), 1), found)
         ELSE Reply(found, None)

-----------------------------------------------------------------------------
(* Join requests: all that wait, in the order they came, and a window of it  *)
(* after the request the cursor names, from the start when it waits no more. *)

\* Oldest first, over all groups.
OldestFirst(found) == SortSeq(found, LAMBDA a, b : a.row < b.row)

Window(waiting) ==
  LET at == {i \in DOMAIN waiting : waiting[i].row = cursor.row}
  IN  IF at = {} THEN waiting ELSE SubSeq(waiting, (CHOOSE i \in at : TRUE) + 1, Len(waiting))

list_all_pending_requests_page ==
  /\ kind = "requests"
  /\ \E n \in 1 .. MaxRead :
       LET start == IF read.start.leaders /\ read.start = cursor THEN None ELSE read.start
           q == Query(read.index, start, n)
           found == read.found \o Keys(Accepted(q.rows), 1)
           waiting == OldestFirst(found)
           rest == Window(waiting)
       IN  IF q.more THEN ReadOn(read.index, [Key(Last(q.rows), 1) EXCEPT !.leaders = FALSE], found)
           ELSE IF read.index = 1 THEN ReadOn(2, None, found)
           ELSE /\ listed' = listed \o [i \in DOMAIN Upto(rest, limit) |-> rest[i].row]
                /\ cursor' = IF Len(rest) > limit THEN rest[limit] ELSE None
                /\ read' = NoRead
                /\ phase' = IF cursor' = None THEN "done" ELSE "client"
                /\ restarted' = (restarted \/ (cursor # None /\ rest = waiting))
                /\ UNCHANGED short

-----------------------------------------------------------------------------
(* The roster of a group: its leaders first, then its members in id order    *)
(* without the leaders.  The cursor says in which block the page ended.      *)
Leads(r) == table[r].part \in {1, 3}
RosterKey(r, leaders) == [row |-> r, part |-> 0, index |-> 1, leaders |-> leaders]

\* group_members_page: the members that match, n of them, and whether there are more.
group_members_page(after, n) ==
  LET members == SelectSeq(RowSeq, LAMBDA r : table[r].part \in {2, 3} /\ table[r].match /\ r > after)
  IN  [rows |-> Upto(members, n), more |-> Len(members) > n]

LeaderCursor(r) == RosterKey(r, TRUE)

list_group_members_page ==
  /\ kind = "roster"
  /\ LET leaders == SelectSeq(RowSeq, LAMBDA r : Leads(r) /\ table[r].match
                                                  /\ (read.start.leaders => r > read.start.row))
         block == IF read.start.leaders THEN leaders ELSE <<>>
         shown == [i \in DOMAIN Upto(block, limit) |-> RosterKey(block[i], TRUE)]
         room == limit - Len(shown)
         from == IF read.start.leaders THEN 0 ELSE read.start.row
         led == Cardinality({r \in Rows : Leads(r)})
         q == group_members_page(from, room + led + 1)
         plain == SelectSeq(q.rows, LAMBDA r : ~Leads(r))
         taken == Upto(plain, room)
         \* every row before the first that belongs to the next page
         upto == IF Len(plain) > room THEN SelectInSeq(q.rows, LAMBDA r : r = plain[room + 1]) - 1
                 ELSE Len(q.rows)
         ended == IF upto = 0 THEN from ELSE q.rows[upto]
     IN  IF Len(block) > limit THEN Reply(shown, LeaderCursor(block[limit]))
         ELSE Reply(shown \o [i \in DOMAIN taken |-> RosterKey(taken[i], FALSE)],
                    IF upto < Len(q.rows) \/ q.more THEN RosterKey(ended, FALSE) ELSE None)

-----------------------------------------------------------------------------
Page ==
  /\ phase = "reading"
  /\ \/ list_users_page \/ list_groups_page \/ query_claims_pending_page \/ query_ledger_page
     \/ query_submissions_pending_page \/ scan_links_page \/ query_library_page
     \/ _walk_partitions \/ query_scope_page
     \/ count_claims_pending \/ count_submissions_pending \/ list_users \/ group_events
     \/ list_member_claims_page \/ query_shoutout_feed_page
     \/ query_shoutouts_for_recipient_page \/ query_shoutouts_sent_page
     \/ query_creator_page \/ search_members
     \/ group_events_page \/ query_group_ledger_page \/ list_replies_by_post
     \/ list_posts_by_channel \/ list_reports_by_group
     \/ query_group_ledger_filtered_page
     \/ list_all_pending_requests_page \/ list_group_members_page
  /\ UNCHANGED <<kind, limit, table, touched>>

\* Somebody writes the row, once: it comes, goes, moves or no longer matches.
Write(r) ==
  /\ phase \in {"client", "reading"} /\ r \notin touched /\ Cardinality(touched) < MaxChanges
  /\ \E row \in [part : {0} \cup Parts(kind), match : BOOLEAN] :
       /\ row # table[r] /\ (~row.match => row.part # 0 /\ Filtered(kind))
       /\ table' = [table EXCEPT ![r] = row]
  /\ touched' = touched \cup {r}
  /\ UNCHANGED <<kind, limit, phase, cursor, read, listed, short, restarted>>

Next == Ask \/ Page \/ \E r \in Rows : Write(r)

\* A caller who keeps asking: export workers, bulk cancellation, a user who scrolls.
Spec == Init /\ [][Next]_vars /\ WF_vars(Ask) /\ WF_vars(Page)

-----------------------------------------------------------------------------
TypeOK ==
  /\ phase \in {"client", "reading", "done", "refused"}
  /\ table \in [Rows -> [part : 0 .. 3, match : BOOLEAN]]
  /\ listed \in Seq(Rows) /\ touched \subseteq Rows
  /\ (phase # "reading" => read = NoRead) /\ (phase = "done" => cursor = None)

Steady == Rows \ touched
Places(r) == {i \in DOMAIN listed : listed[i] = r}

(* A finished walk has listed every row that matched throughout: writes to   *)
(* other rows, also to the one the cursor names, hide none.                  *)
NothingIsSkipped ==
  phase = "done" =>
    \A r \in Steady : table[r].part # 0 /\ table[r].match => Places(r) # {}

(* No such row is listed twice, except that the queue of join requests       *)
(* starts again when the request its cursor names was decided; and no row is *)
(* listed that never matched.                                                *)
NothingIsRepeated ==
  \A r \in Steady :
    /\ ~restarted => Cardinality(Places(r)) <= 1
    /\ (table[r].part = 0 \/ ~table[r].match) => Places(r) = {}

\* The pages come in the order of the listing: partition by partition, row by row.
Rank(r) == IF kind = "requests" THEN 0
           ELSE IF kind = "roster" /\ table[r].part = 3 THEN 1 ELSE table[r].part
PagesAreInOrder ==
  ~restarted =>
    \A i, j \in DOMAIN listed :
      i < j /\ {listed[i], listed[j]} \subseteq Steady =>
        \/ Rank(listed[i]) < Rank(listed[j])
        \/ Rank(listed[i]) = Rank(listed[j]) /\ listed[i] <= listed[j]

(* A page with a next one is full, except where the listing cuts before it   *)
(* filters or stops where a read stopped.                                    *)
PagesAreFull == short => kind \in {"posts", "reports", "creator"}

\* The database never rejects a cursor a page handed out.
CursorIsAccepted == phase # "refused"
=============================================================================
