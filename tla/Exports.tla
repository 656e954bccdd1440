------------------------------ MODULE Exports ------------------------------
(***************************************************************************)
(* Asynchronous CSV exports.  A request takes the actor's lock, writes a   *)
(* job record and invokes a worker that does not answer; the worker walks  *)
(* the rows page by page, stores the file and settles the job; the browser *)
(* polls the record.  The identity service (users and group rosters), the  *)
(* contributions service (point ledger) and the profiles service           *)
(* (directory) each have a copy of it, on tables of their own.             *)
(*                                                                         *)
(*   job[j]     the record: actor, kind, status ("none": no row), group,   *)
(*              processed, total (Unknown), and whether the file is stored *)
(*   lock[a]    the job that holds a's lock, and whether it is out of date *)
(*   sent       invocations accepted and not yet delivered                 *)
(*   start[j]   where the request that starts j is                         *)
(*   work[d]    where the worker run d is, and the rows it has written     *)
(*   led[a]     the group a leads now                                      *)
(*   handed     the last download: its job's kind, group and actor, who    *)
(*              got it and what he led                                     *)
(*   again, late   an invocation was delivered twice or refused in error,  *)
(*              a lock went out of date under a run that was still to end  *)
(***************************************************************************)
EXTENDS Integers, FiniteSets

CONSTANTS Actors, Jobs, Runs, Groups, NoGroup, NoJob, Role, FirstLed,
          Services, MaxRows, Budgets

VARIABLES service, job, lock, sent, start, work, led, handed, again, late, budget

records == <<job, lock, sent>>
vars == <<service, records, start, work, led, handed, again, late, budget>>

Unknown == -1
Kinds == {"users", "roster", "ledger", "directory"}
NoLock == [job |-> NoJob, stale |-> FALSE]
NoRecord(a) == [actor |-> a, kind |-> "users", status |-> "none", group |-> NoGroup,
                processed |-> 0, total |-> Unknown, file |-> FALSE]
NoRun == [pc |-> "idle", job |-> NoJob, rows |-> 0]
Leader == {"CommunityLeader", "UserGroupLeader"}

\* Somebody may ask, ids are told from their absence, and whoever leads, leads a group.
NamesAssumption ==
  /\ Actors # {} /\ NoJob \notin Jobs
  /\ FirstLed \in [Actors -> Groups \cup {NoGroup}]
ASSUME NamesAssumption

NumbersAssumption ==
  /\ MaxRows \in Nat
  /\ Budgets \subseteq [starts : Nat, faults : Nat, deaths : Nat, died : Nat]
ASSUME NumbersAssumption

Init ==
  /\ service \in Services
  /\ job = [j \in Jobs |-> NoRecord(CHOOSE a \in Actors : TRUE)]
  /\ lock = [a \in Actors |-> NoLock]
  /\ sent = {} /\ start = [j \in Jobs |-> "idle"] /\ work = [d \in Runs |-> NoRun]
  /\ led = FirstLed
  /\ handed = {}
  /\ again = FALSE /\ late = FALSE /\ budget \in Budgets

-----------------------------------------------------------------------------
(* Starting an export. *)

\* Mutant: only a release frees the lock.
FreeOnceReleased(a) == lock[a] = NoLock

\* The condition of acquire_export_lock: no lock, or one past its expiresAt.
Free(a) == lock[a] = NoLock \/ lock[a].stale

\* Mutant: the lock is put without its condition.
AcquireAnyway(a, j) == lock' = [lock EXCEPT ![a] = [job |-> j, stale |-> FALSE]]

AcquireExportLock(a, j) ==
  /\ Free(a)
  /\ lock' = [lock EXCEPT ![a] = [job |-> j, stale |-> FALSE]]

ReleaseExportLock(a) == lock' = [lock EXCEPT ![a] = NoLock]

\* _start: a new id, and the lock first.  A refused request leaves no trace.
Start(a, j, kind, g) ==
  /\ budget.starts > 0
  /\ start[j] = "idle" /\ j = CHOOSE i \in Jobs : start[i] = "idle"
  /\ AcquireExportLock(a, j)
  /\ start' = [start EXCEPT ![j] = "put"]
  /\ job' = [job EXCEPT ![j] = [NoRecord(a) EXCEPT !.kind = kind, !.group = g]]
  /\ budget' = [budget EXCEPT !.starts = @ - 1]
  /\ UNCHANGED <<service, sent, work, led, handed, again, late>>

StartUsersExport(a, j) == service = "identity" /\ Start(a, j, "users", NoGroup)

StartRosterExport(a, j) ==
  service = "identity" /\ \E g \in Groups : Start(a, j, "roster", g)

\* A group leader exports the group he leads, a Community Leader the one he names.
StartLedgerExport(a, j) ==
  /\ service = "contributions"
  /\ Role[a] \in Leader
  /\ \E g \in IF Role[a] = "UserGroupLeader" THEN {led[a]} ELSE Groups :
       g # NoGroup /\ Start(a, j, "ledger", g)

\* The names of the groups are fetched now, or left to the worker to do without.
StartDirectoryExport(a, j) ==
  service = "profiles" /\ Role[a] \in Leader /\ Start(a, j, "directory", NoGroup)

PutExportJob(j) ==
  /\ start[j] = "put"
  /\ job' = [job EXCEPT ![j].status = "queued"]
  /\ start' = [start EXCEPT ![j] = "invoke"]
  /\ UNCHANGED <<service, lock, sent, work, led, handed, again, late, budget>>

InvokeWorker(j) ==
  /\ start[j] = "invoke"
  /\ sent' = sent \cup {j}
  /\ start' = [start EXCEPT ![j] = "done"]
  /\ UNCHANGED <<service, job, lock, work, led, handed, again, late, budget>>

\* The call raises: the invocation was refused, or accepted and the answer lost.
InvokeRaises(j, accepted) ==
  /\ start[j] = "invoke" /\ budget.faults > 0
  /\ budget' = [budget EXCEPT !.faults = @ - 1]
  /\ sent' = IF accepted THEN sent \cup {j} ELSE sent
  /\ again' = (again \/ accepted)
  /\ start' = [start EXCEPT ![j] = "fail"]
  /\ UNCHANGED <<service, job, lock, work, led, handed, late>>

FailStart(j) ==
  /\ start[j] = "fail"
  /\ job' = [job EXCEPT ![j].status = "failed"]
  /\ start' = [start EXCEPT ![j] = "release"]
  /\ UNCHANGED <<service, lock, sent, work, led, handed, again, late, budget>>

ReleaseStart(j) ==
  /\ start[j] = "release"
  /\ ReleaseExportLock(job[j].actor)
  /\ start' = [start EXCEPT ![j] = "done"]
  /\ UNCHANGED <<service, job, sent, work, led, handed, again, late, budget>>

-----------------------------------------------------------------------------
(* The worker. *)

Step(d, from, to) == work[d].pc = from /\ work' = [work EXCEPT ![d].pc = to]

\* Invoked: a job that is gone or ready is left alone, any other is run whatever it says.
Receive(d, j, kinds) ==
  /\ work[d].pc = "idle" /\ d = CHOOSE e \in Runs : work[e].pc = "idle"
  /\ j \in sent
  /\ \/ sent' = sent \ {j} /\ UNCHANGED <<again, budget>>
     \/ /\ budget.faults > 0 /\ budget' = [budget EXCEPT !.faults = @ - 1]
        /\ again' = TRUE /\ UNCHANGED sent
  /\ work' = IF job[j].status \in {"ready", "gone"} \/ job[j].kind \notin kinds THEN work
             ELSE [work EXCEPT ![d] = [pc |-> "run", job |-> j, rows |-> 0]]
  /\ UNCHANGED <<service, job, lock, start, led, handed, late>>

\* The job runs, with the number of rows counted or unknown.
SetRunning(d, totals) ==
  /\ Step(d, "run", "walk")
  /\ \E total \in totals :
       job' = [job EXCEPT ![work[d].job].status = "running",
                          ![work[d].job].processed = 0, ![work[d].job].total = total]
  /\ UNCHANGED <<service, lock, sent, start, led, handed, again, late, budget>>

\* One page, its rows counted on the record; a page without a cursor is the last.
WalkPage(d) ==
  /\ work[d].pc = "walk"
  /\ \E n \in 0 .. MaxRows - work[d].rows, last \in BOOLEAN :
       /\ n = 0 => last
       /\ work' = [work EXCEPT ![d].rows = @ + n, ![d].pc = IF last THEN "file" ELSE @]
       /\ job' = [job EXCEPT ![work[d].job].processed = work[d].rows + n]
  /\ UNCHANGED <<service, lock, sent, start, led, handed, again, late, budget>>

PutCsv(d) ==
  /\ Step(d, "file", "ready")
  /\ job' = [job EXCEPT ![work[d].job].file = TRUE]
  /\ UNCHANGED <<service, lock, sent, start, led, handed, again, late, budget>>

\* The denominator becomes what was written.
MarkReady(d) ==
  /\ Step(d, "ready", "release")
  /\ job' = [job EXCEPT ![work[d].job].status = "ready",
                        ![work[d].job].processed = work[d].rows,
                        ![work[d].job].total = work[d].rows]
  /\ UNCHANGED <<service, lock, sent, start, led, handed, again, late, budget>>

Raise(d) ==
  /\ work[d].pc \in {"run", "walk", "file", "ready"} /\ budget.faults > 0
  /\ budget' = [budget EXCEPT !.faults = @ - 1]
  /\ work' = [work EXCEPT ![d].pc = "fail"]
  /\ UNCHANGED <<service, records, start, led, handed, again, late>>

MarkFailed(d) ==
  /\ Step(d, "fail", "release")
  /\ job' = [job EXCEPT ![work[d].job].status = "failed"]
  /\ UNCHANGED <<service, lock, sent, start, led, handed, again, late, budget>>

\* The lock of the actor is deleted, whichever job holds it.
ReleaseWorker(d) ==
  /\ work[d].pc = "release"
  /\ ReleaseExportLock(job[work[d].job].actor)
  /\ work' = [work EXCEPT ![d] = NoRun]
  /\ UNCHANGED <<service, job, sent, start, led, handed, again, late, budget>>

\* The end of each walk: the file, then the record.
WriteFile(d) == PutCsv(d) \/ MarkReady(d)

Counted == 0..MaxRows
OfKind(d, kinds) == work[d].pc # "idle" /\ job[work[d].job].kind \in kinds

\* The rows of OpenSearch, counted by the same query; without an index nothing is counted.
RunUsersExport(d) ==
  /\ OfKind(d, {"users"})
  /\ SetRunning(d, Counted \cup {Unknown}) \/ WalkPage(d) \/ WriteFile(d)

\* The roster of the group, not counted when a keyword narrows it.
RunRosterExport(d) ==
  /\ OfKind(d, {"roster"})
  /\ SetRunning(d, Counted \cup {Unknown}) \/ WalkPage(d) \/ WriteFile(d)

\* The ledger of the group and quarter of the job, whatever the actor leads now.
RunLedgerExport(d) ==
  /\ OfKind(d, {"ledger"})
  /\ SetRunning(d, {Unknown}) \/ WalkPage(d) \/ WriteFile(d)

RunDirectoryExport(d) ==
  /\ OfKind(d, {"directory"})
  /\ SetRunning(d, Counted \cup {Unknown}) \/ WalkPage(d) \/ WriteFile(d)

Settle(d, kinds) == OfKind(d, kinds) /\ (MarkFailed(d) \/ ReleaseWorker(d))

IdentityWorker(d) ==
  \/ \E j \in Jobs : service = "identity" /\ Receive(d, j, {"users", "roster"})
  \/ RunUsersExport(d) \/ RunRosterExport(d) \/ Settle(d, {"users", "roster"})

ContributionsWorker(d) ==
  \/ \E j \in Jobs : service = "contributions" /\ Receive(d, j, {"ledger"})
  \/ RunLedgerExport(d) \/ Settle(d, {"ledger"})

ProfilesWorker(d) ==
  \/ \E j \in Jobs : service = "profiles" /\ Receive(d, j, {"directory"})
  \/ RunDirectoryExport(d) \/ Settle(d, {"directory"})

-----------------------------------------------------------------------------
(* Polling. *)

\* _public: nothing is made up when the total is unknown or zero.
Percent(r) ==
  IF r.total > 0 THEN LET p == (r.processed * 100) \div r.total IN IF p < 100 THEN p ELSE 100
  ELSE IF r.status = "ready" THEN 100 ELSE Unknown

\* The file is handed out of a ready job, to the actor that started it.
Collect(a, j, kind) ==
  /\ job[j].actor = a /\ job[j].kind = kind /\ job[j].status = "ready"
  /\ handed' = {[kind |-> kind, group |-> job[j].group, of |-> job[j].actor,
                 actor |-> a, led |-> led[a]]}
  /\ UNCHANGED <<service, records, start, work, led, again, late, budget>>

CollectUsersExport(a, j) == Collect(a, j, "users")

CollectRosterExport(a, j, g) == job[j].group = g /\ Collect(a, j, "roster")

CollectLedgerExport(a, j) ==
  /\ Role[a] \in Leader
  /\ Role[a] = "UserGroupLeader" => job[j].group = led[a]
  /\ Collect(a, j, "ledger")

CollectDirectoryExport(a, j) == Role[a] \in Leader /\ Collect(a, j, "directory")

-----------------------------------------------------------------------------
(* The surroundings. *)

\* Something of j is still to happen.
Alive(j) ==
  \/ start[j] \in {"put", "invoke", "fail", "release"}
  \/ j \in sent
  \/ \E d \in Runs : work[d].job = j

\* The lock passes its expiresAt: 1800 s, when the worker may take 900.  Only an invocation
\* that waits long to be delivered is still alive by then.
Age(a) ==
  /\ ~Free(a)
  /\ IF Alive(lock[a].job)
     THEN late' = TRUE /\ budget.faults > 0 /\ budget' = [budget EXCEPT !.faults = @ - 1]
     ELSE UNCHANGED <<late, budget>>
  /\ lock' = [lock EXCEPT ![a].stale = TRUE]
  /\ UNCHANGED <<service, job, sent, start, work, led, handed, again>>

\* A day later the record is past its expiresAt, and the file with it.
Expire(j) ==
  /\ job[j].status \in {"queued", "running", "ready", "failed"}
  /\ \A i \in Jobs : ~Alive(i)
  /\ job' = [job EXCEPT ![j].status = "gone"]
  /\ UNCHANGED <<service, lock, sent, start, work, led, handed, again, late, budget>>

DieStart(j) ==
  /\ start[j] \in {"put", "invoke", "fail", "release"} /\ budget.deaths > 0
  /\ start' = [start EXCEPT ![j] = "done"]
  /\ budget' = [budget EXCEPT !.deaths = @ - 1, !.died = @ + 1]
  /\ UNCHANGED <<service, records, work, led, handed, again, late>>

DieWorker(d) ==
  /\ work[d].pc # "idle" /\ budget.deaths > 0
  /\ work' = [work EXCEPT ![d] = NoRun]
  /\ budget' = [budget EXCEPT !.deaths = @ - 1, !.died = @ + 1]
  /\ UNCHANGED <<service, records, start, led, handed, again, late>>

\* The identity service makes a the leader of another group.
MoveLeader(a, g) ==
  /\ service = "contributions" /\ Role[a] = "UserGroupLeader" /\ led[a] = FirstLed[a]
  /\ led' = [led EXCEPT ![a] = g]
  /\ UNCHANGED <<service, records, start, work, handed, again, late, budget>>

Request(a, j) ==
  \/ StartUsersExport(a, j) \/ StartRosterExport(a, j)
  \/ StartLedgerExport(a, j) \/ StartDirectoryExport(a, j)
  \/ CollectUsersExport(a, j) \/ \E g \in Groups : CollectRosterExport(a, j, g)
  \/ CollectLedgerExport(a, j) \/ CollectDirectoryExport(a, j)

Serve(j) == PutExportJob(j) \/ InvokeWorker(j) \/ FailStart(j) \/ ReleaseStart(j)
Worker(d) == IdentityWorker(d) \/ ContributionsWorker(d) \/ ProfilesWorker(d)

Next ==
  \/ \E a \in Actors, j \in Jobs : Request(a, j)
  \/ \E j \in Jobs : Serve(j) \/ Expire(j) \/ DieStart(j)
                     \/ \E accepted \in BOOLEAN : InvokeRaises(j, accepted)
  \/ \E d \in Runs : Worker(d) \/ Raise(d) \/ DieWorker(d)
  \/ \E a \in Actors : Age(a) \/ \E g \in Groups : MoveLeader(a, g)

\* Lambda runs what it accepted and time passes; nobody is bound to ask for anything.
Fairness ==
  /\ \A j \in Jobs : WF_vars(Serve(j))
  /\ \A d \in Runs : WF_vars(Worker(d))
  /\ \A a \in Actors : WF_vars(Age(a))

Spec == Init /\ [][Next]_vars /\ Fairness

-----------------------------------------------------------------------------
(* Properties. *)

TypeOK ==
  /\ job \in [Jobs -> [actor : Actors, kind : Kinds,
                       status : {"none", "queued", "running", "ready", "failed", "gone"},
                       group : Groups \cup {NoGroup}, processed : Counted,
                       total : Counted \cup {Unknown}, file : BOOLEAN]]
  /\ lock \in [Actors -> [job : Jobs \cup {NoJob}, stale : BOOLEAN]]
  /\ sent \subseteq Jobs
  /\ \A d \in Runs : (work[d].job = NoJob <=> work[d].pc = "idle") /\ work[d].rows \in Counted

\* One export at a time for each person: while a request or a run of one job is on its way
\* no other of the same actor is, unless an invocation came twice or outlived the lock.
OneAtATime ==
  ~again /\ ~late =>
    \A i, j \in Jobs : i # j /\ Alive(i) /\ Alive(j) => job[i].actor # job[j].actor

\* What is shown as ready can be downloaded and, with a single run of the job, reads 100 %,
\* an empty export too, though rows come and go while they are walked.
ReadyIsComplete ==
  \A j \in Jobs : job[j].status = "ready" =>
    /\ job[j].file
    /\ again \/ Percent(job[j]) = 100

\* A group leader is handed the ledger of the group he leads when he collects it, even if
\* he was moved while it was built.
LedgerStaysInGroup ==
  \A h \in handed : h.kind = "ledger" /\ Role[h.actor] = "UserGroupLeader" => h.group = h.led

\* All of it.
ExportsHold == OneAtATime /\ ReadyIsComplete /\ LedgerStaysInGroup

\* Whatever dies, nobody is locked out for good.
AlwaysFreedAgain == \A a \in Actors : []<>Free(a)

\* A job that is put is settled, unless its request or its worker died: again and again
\* there is none that waits.
JobSettles ==
  []<>(budget.died > 0 \/ \A j \in Jobs : job[j].status \notin {"queued", "running"})

\* Neither a lock nor a job waits for good.
ExportsSettle == AlwaysFreedAgain /\ JobSettles
=============================================================================
