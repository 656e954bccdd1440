----------------------------- MODULE Snapshots -----------------------------
(***************************************************************************)
(* The two nightly snapshots of the identity service: the roster counts    *)
(* (user_service.py recompute_community_counts) and the members per group  *)
(* (group_service.py recompute_group_member_stats).  Each is one item, put *)
(* whole after a computation that reads the tables piece by piece, so that *)
(* memberships change, accounts are disabled and the quarter itself ends   *)
(* between two of its reads; a run started by hand (Jobs) may overlap the  *)
(* night's.  A quarter is a number; the code keeps 8 of them, Kept here.   *)
(***************************************************************************)
EXTENDS Integers, FiniteSets, Sequences, SequencesExt, FiniteSetsExt, Functions

CONSTANTS Users, Groups, Runs,
          LastQuarter,      \* bound: the clock stops in this quarter
          Kept,             \* trailing_quarters_asc(8)
          Budgets           \* bounds: [changes |-> n, runs |-> n]

VARIABLES quarter,     \* current_quarter()
          user,        \* Users -> [member, active, created]
          history,     \* Groups -> the membership events, oldest first
          groupStats,  \* COMMUNITY/GROUPSTATS: quarter -> [bars, roster]
          counts,      \* COMMUNITY/COUNTS: [total, new, totals]
          run,         \* Runs -> the locals of the run, Idle when there is none
          budget,
          crossed      \* quarters a rollover or an overlapping run has hit

vars == <<quarter, user, history, groupStats, counts, run, budget, crossed>>

Quarters == 0..LastQuarter
Trailing(q) == {p \in Quarters : p <= q /\ p > q - Kept}
NoFigures == [total |-> -1, inAny |-> -1, none |-> -1, overlap |-> -1, off |-> -1]
Idle == [step |-> "idle"]

\* Active accounts of role Member: the population of both snapshots.
Roster == {u \in Users : user[u].member /\ user[u].active}

\* Who is in group g after its last event up to the end of quarter q.
PresentIn(g, q) ==
    LET upto == SelectSeq(history[g], LAMBDA e : e.at <= q)
        last(u) == Max({i \in DOMAIN upto : upto[i].who = u})
    IN  {u \in {upto[i].who : i \in DOMAIN upto} : upto[last(u)].starts}

\* The roster figures of a run that gathered `bars`, on today's roster.
Figures(bars) ==
    LET held(u) == {g \in DOMAIN bars : u \in bars[g]}
        grouped == {u \in Users : held(u) # {}}
    IN  [total   |-> Cardinality(Roster),
         inAny   |-> Cardinality(Roster \cap grouped),
         none    |-> Cardinality(Roster \ grouped),
         overlap |-> Cardinality({u \in Roster : Cardinality(held(u)) > 1}),
         off     |-> Cardinality(grouped \ Roster)]

\* What the run has to say of quarter q: no roster figures once q is over.
RosterFigures(bars, q) == IF q = quarter THEN Figures(bars) ELSE NoFigures

\* The new members of each quarter of the window, on the roster.
NewIn(window) ==
    [q \in window |-> Cardinality({u \in Roster : user[u].created = q})]

Restricted(f, window) == [q \in DOMAIN f \cap window |-> f[q]]
With(f, q, v) == [p \in DOMAIN f \cup {q} |-> IF p = q THEN v ELSE f[p]]

-----------------------------------------------------------------------------
Init ==
    /\ quarter = 0
    /\ user = [u \in Users |-> [member |-> TRUE, active |-> TRUE, created |-> 0]]
    /\ history = [g \in Groups |-> <<>>]
    /\ groupStats = <<>>
    /\ counts = [total |-> 0, new |-> <<>>, totals |-> <<>>]
    /\ run = [r \in Runs |-> Idle]
    /\ budget \in Budgets
    /\ crossed = {}

Change == budget.changes > 0 /\ budget' = [budget EXCEPT !.changes = @ - 1]

\* One membership starts or ends: an event is appended to the group's history.
Record(u, g) ==
    /\ Change
    /\ history' = [history EXCEPT ![g] =
           Append(@, [who |-> u, starts |-> u \notin PresentIn(g, quarter),
                      at |-> quarter])]
    /\ UNCHANGED <<quarter, user, groupStats, counts, run, crossed>>

\* An administrator disables or enables an account, or changes its role; the
\* memberships stay.  A new account is one that was not on the roster before.
Alter(u) ==
    /\ Change
    /\ \/ user' = [user EXCEPT ![u].active = ~@]
       \/ user' = [user EXCEPT ![u].member = ~@]
       \/ user' = [user EXCEPT ![u] = [member |-> TRUE, active |-> TRUE,
                                       created |-> quarter]]
    /\ UNCHANGED <<quarter, history, groupStats, counts, run, crossed>>

\* The quarter ends.  Every run in flight straddles it.
Rollover ==
    /\ quarter < LastQuarter
    /\ quarter' = quarter + 1
    /\ crossed' = IF \A r \in Runs : run[r] = Idle THEN crossed
                  ELSE crossed \cup {quarter, quarter + 1}
    /\ UNCHANGED <<user, history, groupStats, counts, run, budget>>

-----------------------------------------------------------------------------
\* Another run of the same job is under way: each may undo what the other puts.
Overlapped(r, job) == \E s \in Runs \ {r} : run[s] # Idle /\ run[s].job = job

Start(r, job, locals) ==
    /\ run[r] = Idle
    /\ budget.runs > 0
    /\ budget' = [budget EXCEPT !.runs = @ - 1]
    /\ run' = [run EXCEPT ![r] = locals]
    /\ crossed' = IF Overlapped(r, job) THEN Quarters ELSE crossed
    /\ UNCHANGED <<quarter, user, history, groupStats, counts>>

Goes(r, locals) ==
    /\ run' = [run EXCEPT ![r] = locals]
    /\ UNCHANGED <<quarter, user, history, groupStats, counts, budget, crossed>>

\* recompute_group_member_stats: the quarter is read once, then the groups.
StartGroupStats(r) ==
    Start(r, "groups", [job |-> "groups", step |-> "fold", selected |-> quarter,
                        bars |-> <<>>])

\* One group's history is read and folded.
FoldGroup(r, g) ==
    /\ run[r].step = "fold"
    /\ g \notin DOMAIN run[r].bars
    /\ Goes(r, [run[r] EXCEPT !.bars = With(@, g, PresentIn(g, run[r].selected))])

\* With every group folded, the clock and the roster are read.
ReadRoster(r) ==
    /\ run[r].step = "fold"
    /\ DOMAIN run[r].bars = Groups
    /\ Goes(r, [job |-> "groups", step |-> "stored", selected |-> run[r].selected,
                row |-> [bars |-> [g \in Groups |-> Cardinality(run[r].bars[g])],
                         roster |-> RosterFigures(run[r].bars, run[r].selected)]])

\* The stored snapshot is read; this quarter's row is laid over it.
ReadGroupStats(r) ==
    /\ run[r].step = "stored"
    /\ Goes(r, [job |-> "groups", step |-> "put",
                item |-> With(groupStats, run[r].selected, run[r].row)])

\* The item is cut to the window of the moment and put whole.
PutGroupStats(r) ==
    /\ run[r].step = "put"
    /\ run[r].job = "groups"
    /\ groupStats' = Restricted(run[r].item, Trailing(quarter))
    /\ run' = [run EXCEPT ![r] = Idle]
    /\ UNCHANGED <<quarter, user, history, counts, budget, crossed>>

-----------------------------------------------------------------------------
\* recompute_community_counts: the window is fixed before the roster is read.
StartCounts(r) ==
    Start(r, "counts", [job |-> "counts", step |-> "count",
                        window |-> Trailing(quarter)])

CountRoster(r) ==
    /\ run[r].step = "count"
    /\ Goes(r, [job |-> "counts", step |-> "merge", window |-> run[r].window,
                total |-> Cardinality(Roster), new |-> NewIn(run[r].window)])

\* Mutant: a total already recorded for the quarter is kept.
MergeTotalsOnce(r) ==
    /\ run[r].step = "merge"
    /\ Goes(r, [job |-> "counts", step |-> "put",
                item |-> [total |-> run[r].total, new |-> run[r].new,
                          totals |-> Restricted(
                              IF quarter \in DOMAIN counts.totals THEN counts.totals
                              ELSE With(counts.totals, quarter, run[r].total),
                              run[r].window)]])

\* The recorded totals are read, today's total is put under today's quarter,
\* and what lies outside the window is dropped.
MergeTotals(r) ==
    /\ run[r].step = "merge"
    /\ Goes(r, [job |-> "counts", step |-> "put",
                item |-> [total |-> run[r].total, new |-> run[r].new,
                          totals |-> Restricted(
                              With(counts.totals, quarter, run[r].total),
                              run[r].window)]])

PutCounts(r) ==
    /\ run[r].step = "put"
    /\ run[r].job = "counts"
    /\ counts' = run[r].item
    /\ run' = [run EXCEPT ![r] = Idle]
    /\ UNCHANGED <<quarter, user, history, groupStats, budget, crossed>>

\* A run dies: nothing of it is kept.
Die(r) ==
    /\ run[r] # Idle
    /\ Goes(r, Idle)

Next ==
    \/ \E u \in Users, g \in Groups : Record(u, g)
    \/ \E u \in Users : Alter(u)
    \/ Rollover
    \/ \E r \in Runs : \/ StartGroupStats(r)
                       \/ \E g \in Groups : FoldGroup(r, g)
                       \/ ReadRoster(r)
                       \/ ReadGroupStats(r)
                       \/ PutGroupStats(r)
                       \/ StartCounts(r)
                       \/ CountRoster(r)
                       \/ MergeTotals(r)
                       \/ PutCounts(r)
                       \/ Die(r)

Spec == Init /\ [][Next]_vars

-----------------------------------------------------------------------------
\* members_by_group: the stored row of quarter q, nothing when it has none.
MembersByGroup(q) ==
    IF q \in DOMAIN groupStats THEN groupStats[q]
    ELSE [bars |-> [g \in Groups |-> -1], roster |-> NoFigures]

\* community_counts: the stored item, zeroes when there is none.
CommunityCounts == counts

TypeOK ==
    /\ quarter \in Quarters
    /\ user \in [Users -> [member : BOOLEAN, active : BOOLEAN, created : Quarters]]
    /\ \A g \in Groups : \A i \in DOMAIN history[g] :
           history[g][i] \in [who : Users, starts : BOOLEAN, at : Quarters]
    /\ DOMAIN groupStats \subseteq Quarters
    /\ Cardinality(DOMAIN groupStats) <= Kept
    /\ DOMAIN counts.totals \subseteq DOMAIN counts.new
    /\ DOMAIN counts.new \subseteq Quarters
    /\ Cardinality(DOMAIN counts.new) <= Kept

\* The chart reconciles with the card (the docstring "WHY THE BARS
\* RECONCILE"): whatever moved while the groups were read one by one, the
\* roster is split into those in a group and those in none, and the bars add up
\* to the grouped members plus what `overlap` and `offRoster` account for.
BarsReconcile ==
    \A q \in Quarters :
        LET row == MembersByGroup(q)
            f == row.roster
            sum == FoldFunction(LAMBDA a, b : a + b, 0, row.bars)
        IN  f # NoFigures =>
              /\ f.total = f.inAny + f.none
              /\ f.overlap <= f.inAny
              /\ sum >= f.inAny + f.off + f.overlap
              /\ f.off = 0 /\ Cardinality(Groups) = 2 =>
                     sum = f.inAny + f.overlap

\* "New is a subset of total, so the two reconcile": the new members of the
\* window's quarters never outnumber the members counted.
NewIsPartOfTotal ==
    FoldFunction(LAMBDA a, b : a + b, 0, CommunityCounts.new)
        <= CommunityCounts.total

\* "The chart line and the Total Members card can never disagree"
\* (user_service.py:558): the newest quarter of the chart shows the card's
\* figure.
CardIsOnChart ==
    DOMAIN CommunityCounts.totals # {} =>
        CommunityCounts.totals[Max(DOMAIN CommunityCounts.totals)]
            = CommunityCounts.total

\* The same, of a count the end of a quarter or a second run did not cross.
CardIsOnChartUncrossed == crossed = {} => CardIsOnChart

=============================================================================
