--------------------------- MODULE ServicesProofs ---------------------------
(***************************************************************************)
(* Proofs about the components that owe their users progress.              *)
(*                                                                         *)
(* Asynchronous exports, for any people, jobs, worker runs, groups and     *)
(* bounds: one export at a time for each person, a ready job is complete,  *)
(* and a leader is handed his own group's ledger.  The lock alone does not *)
(* say why two exports never overlap: it is freed by whoever ends,         *)
(* whichever job holds it.  The induction needs that a job is in one place *)
(* at a time (Single), so that who ends is the last of his job, and that   *)
(* whatever is alive holds its actor's lock (Locked).                      *)
(*                                                                         *)
(* Badges, through the instance ServiceParts has, for any images, callers  *)
(* and deliveries.                                                         *)
(*                                                                         *)
(* Batches of jobs, through its instance too, for any batches, requests,   *)
(* jobs and numbers of steps.  What a request has still to write is the    *)
(* rest of one list (Begins), what the runner has still to write says how  *)
(* far its job is (AtWork), and one batch is under way at a time (InTurn)  *)
(* while no start and no finalisation overlapped.                          *)
(***************************************************************************)
EXTENDS Exports, ServiceParts, Integers, Sequences, FiniteSets, FiniteSetTheorems, SequenceTheorems,
        TLAPS

Pending == {"put", "invoke", "fail", "release"}
Statuses == {"none", "queued", "running", "ready", "failed", "gone"}
Record == [actor : Actors, kind : Kinds, status : Statuses, group : Groups \cup {NoGroup},
           processed : Counted, total : Counted \cup {Unknown}, file : BOOLEAN]
Lock == [job : Jobs \cup {NoJob}, stale : BOOLEAN]
Run == [pc : {"idle", "run", "walk", "file", "ready", "fail", "release"},
        job : Jobs \cup {NoJob}, rows : Counted]
Budget == [starts : Nat, faults : Nat, deaths : Nat, died : Nat]

\* What every variable is made of.
Types ==
  /\ job \in [Jobs -> Record]
  /\ lock \in [Actors -> Lock]
  /\ sent \in SUBSET Jobs
  /\ start \in [Jobs -> Pending \cup {"idle", "done"}]
  /\ work \in [Runs -> Run]
  /\ \A d \in Runs : work[d].job = NoJob <=> work[d].pc = "idle"
  /\ led \in [Actors -> Groups \cup {NoGroup}]
  /\ again \in BOOLEAN /\ late \in BOOLEAN
  /\ budget \in Budget

\* A job that was not requested is nowhere.
Fresh == \A j \in Jobs : start[j] = "idle" => ~Alive(j)

\* A job is with its request, with Lambda or with one run.
Single ==
  ~again => \A j \in Jobs :
    /\ start[j] \in Pending => j \notin sent
    /\ start[j] \in Pending \/ j \in sent => \A d \in Runs : work[d].job # j
    /\ \A d, e \in Runs : work[d].job = j /\ work[e].job = j => d = e

\* Whatever is alive holds its actor's lock.
Locked ==
  ~again /\ ~late =>
    \A j \in Jobs : Alive(j) => lock[job[j].actor].job = j /\ ~lock[job[j].actor].stale

\* The file is stored before the record says so.
Filed ==
  /\ \A j \in Jobs : job[j].status = "ready" => job[j].file
  /\ \A d \in Runs : work[d].pc = "ready" => job[work[d].job].file

\* A ready job counted what it wrote, and no run of it goes on.
Rested ==
  ~again => \A j \in Jobs : job[j].status = "ready" =>
    /\ job[j].processed = job[j].total
    /\ \A d \in Runs : work[d].job = j => work[d].pc = "release"

IInv == Types /\ Fresh /\ Single /\ Locked /\ Filed /\ Rested /\ LedgerStaysInGroup

-----------------------------------------------------------------------------
(* The steps, without who asks for them. *)

Starting(a, j) == \E kind \in Kinds, g \in Groups \cup {NoGroup} : Start(a, j, kind, g)

Collecting(a, j) ==
  \E kind \in Kinds :
    /\ kind = "ledger" /\ Role[a] = "UserGroupLeader" => job[j].group = led[a]
    /\ Collect(a, j, kind)

Walking(d) ==
  /\ work[d].pc # "idle"
  /\ \/ \E totals \in SUBSET (Counted \cup {Unknown}) : SetRunning(d, totals)
     \/ WalkPage(d) \/ PutCsv(d) \/ MarkReady(d) \/ MarkFailed(d) \/ ReleaseWorker(d)

Simple ==
  \/ \E a \in Actors, j \in Jobs : Starting(a, j) \/ Collecting(a, j)
  \/ \E j \in Jobs : PutExportJob(j) \/ InvokeWorker(j) \/ FailStart(j) \/ ReleaseStart(j)
  \/ \E j \in Jobs : Expire(j) \/ DieStart(j)
  \/ \E j \in Jobs, accepted \in BOOLEAN : InvokeRaises(j, accepted)
  \/ \E d \in Runs, j \in Jobs, kinds \in SUBSET Kinds : Receive(d, j, kinds)
  \/ \E d \in Runs : Walking(d) \/ Raise(d) \/ DieWorker(d)
  \/ \E a \in Actors : Age(a)
  \/ \E a \in Actors, g \in Groups : MoveLeader(a, g)

\* Every step of the specification is one of them.
LEMMA EveryStepIsSimple == ASSUME Types, Next PROVE Simple
<1>1. CASE \E a \in Actors, j \in Jobs : Request(a, j)
  <2>1. PICK a \in Actors, j \in Jobs : Request(a, j)  BY <1>1
  <2>2. led[a] \in Groups \cup {NoGroup}  BY DEF Types
  <2>3. CASE StartUsersExport(a, j) \/ StartRosterExport(a, j) \/ StartDirectoryExport(a, j)
    BY <2>3 DEF StartUsersExport, StartRosterExport, StartDirectoryExport, Starting, Simple, Kinds
  <2>4. CASE StartLedgerExport(a, j)
    BY <2>2, <2>4 DEF StartLedgerExport, Starting, Simple, Kinds
  <2>5. CASE CollectUsersExport(a, j) \/ CollectDirectoryExport(a, j) \/ CollectLedgerExport(a, j)
             \/ \E g \in Groups : CollectRosterExport(a, j, g)
    BY <2>5 DEF CollectUsersExport, CollectDirectoryExport, CollectLedgerExport,
                CollectRosterExport, Collecting, Simple, Kinds
  <2>6. QED BY <2>1, <2>3, <2>4, <2>5 DEF Request
<1>2. CASE \E d \in Runs : Worker(d)
  <2>1. PICK d \in Runs : Worker(d)  BY <1>2
  <2>2. \/ \E j \in Jobs, kinds \in SUBSET Kinds : Receive(d, j, kinds)
        \/ Walking(d)
    <3>1. {"users", "roster"} \in SUBSET Kinds /\ {"ledger"} \in SUBSET Kinds
          /\ {"directory"} \in SUBSET Kinds
      BY DEF Kinds
    <3>2. Counted \cup {Unknown} \in SUBSET (Counted \cup {Unknown})
          /\ {Unknown} \in SUBSET (Counted \cup {Unknown})
      OBVIOUS
    <3>3. CASE IdentityWorker(d)
      BY <3>1, <3>2, <3>3 DEF IdentityWorker, RunUsersExport, RunRosterExport, Settle, OfKind,
         WriteFile, Walking
    <3>4. CASE ContributionsWorker(d)
      BY <3>1, <3>2, <3>4 DEF ContributionsWorker, RunLedgerExport, Settle, OfKind,
         WriteFile, Walking
    <3>5. CASE ProfilesWorker(d)
      BY <3>1, <3>2, <3>5 DEF ProfilesWorker, RunDirectoryExport, Settle, OfKind,
         WriteFile, Walking
    <3>6. QED BY <2>1, <3>3, <3>4, <3>5 DEF Worker
  <2>3. QED BY <2>2 DEF Simple
<1>3. QED BY <1>1, <1>2 DEF Next, Serve, Simple

-----------------------------------------------------------------------------
(* Types. *)

LEMMA NewRecord ==
  ASSUME NEW a \in Actors, NEW kind \in Kinds, NEW g \in Groups \cup {NoGroup}
  PROVE  [NoRecord(a) EXCEPT !.kind = kind, !.group = g] \in Record
<1>1. 0 \in Counted /\ "users" \in Kinds /\ "none" \in Statuses
  BY NumbersAssumption DEF NumbersAssumption, Counted, Kinds, Statuses
<1>2. NoRecord(a) \in Record  BY <1>1 DEF NoRecord, Record
<1>3. QED BY <1>2 DEF Record

LEMMA InitTypes == Init => Types
<1> SUFFICES ASSUME Init PROVE Types  OBVIOUS
<1>1. (CHOOSE a \in Actors : TRUE) \in Actors  BY NamesAssumption DEF NamesAssumption
<1>2. NoRecord(CHOOSE a \in Actors : TRUE) \in Record
  BY <1>1, NumbersAssumption DEF NumbersAssumption, NoRecord, Record, Kinds, Statuses, Counted, Unknown
<1>3. NoLock \in Lock /\ NoRun \in Run
  BY NumbersAssumption DEF NumbersAssumption, NoLock, Lock, NoRun, Run, Counted
<1>4. job \in [Jobs -> Record]  BY <1>2 DEF Init
<1>5. lock \in [Actors -> Lock] /\ work \in [Runs -> Run]  BY <1>3 DEF Init
<1>6. start \in [Jobs -> Pending \cup {"idle", "done"}] /\ sent \in SUBSET Jobs  BY DEF Init
<1>7. led \in [Actors -> Groups \cup {NoGroup}] /\ budget \in Budget
  BY NamesAssumption, NumbersAssumption DEF NamesAssumption, NumbersAssumption, Init, Budget
<1>8. \A d \in Runs : work[d].job = NoJob <=> work[d].pc = "idle"  BY DEF Init, NoRun
<1>9. QED BY <1>4, <1>5, <1>6, <1>7, <1>8 DEF Init, Types

\* The parts of a step's effect that types depend on.
LEMMA StepTypes == ASSUME Types, Simple PROVE Types'
<1> USE DEF Types
<1>1. ASSUME NEW a \in Actors, NEW j \in Jobs, Starting(a, j) PROVE Types'
  <2>1. PICK kind \in Kinds, g \in Groups \cup {NoGroup} : Start(a, j, kind, g)
    BY <1>1 DEF Starting
  <2>2. job' \in [Jobs -> Record]  BY <2>1, NewRecord DEF Start
  <2>3. lock' \in [Actors -> Lock]  BY <2>1 DEF Start, AcquireExportLock, Lock
  <2>4. start' \in [Jobs -> Pending \cup {"idle", "done"}]  BY <2>1 DEF Start, Pending
  <2>5. budget' \in Budget
    <3>1. budget.starts - 1 \in Nat  BY <2>1 DEF Start, Budget
    <3>2. QED BY <2>1, <3>1 DEF Start, Budget
  <2>6. QED BY <2>1, <2>2, <2>3, <2>4, <2>5 DEF Start
<1>2. ASSUME NEW a \in Actors, NEW j \in Jobs, Collecting(a, j) PROVE Types'
  BY <1>2 DEF Collecting, Collect, records
<1>3. ASSUME NEW j \in Jobs, PutExportJob(j) \/ FailStart(j) PROVE Types'
  <2>1. job' \in [Jobs -> Record]
    <3>1. "queued" \in Statuses /\ "failed" \in Statuses  BY DEF Statuses
    <3>2. \A s \in Statuses : [job EXCEPT ![j].status = s] \in [Jobs -> Record]  BY DEF Record
    <3>3. QED BY <1>3, <3>1, <3>2 DEF PutExportJob, FailStart
  <2>2. start' \in [Jobs -> Pending \cup {"idle", "done"}]
    BY <1>3 DEF PutExportJob, FailStart, Pending
  <2>3. QED BY <1>3, <2>1, <2>2 DEF PutExportJob, FailStart
<1>4. ASSUME NEW j \in Jobs, InvokeWorker(j) \/ DieStart(j) \/ (\E accepted \in BOOLEAN : InvokeRaises(j, accepted))
      PROVE Types'
  <2>1. start' \in [Jobs -> Pending \cup {"idle", "done"}]
    BY <1>4 DEF InvokeWorker, DieStart, InvokeRaises, Pending
  <2>2. budget' \in Budget
    <3>1. InvokeWorker(j) => budget' = budget  BY DEF InvokeWorker
    <3>2. ASSUME DieStart(j) PROVE budget' \in Budget
      <4>1. budget.deaths - 1 \in Nat /\ budget.died + 1 \in Nat  BY <3>2 DEF DieStart, Budget
      <4>2. QED BY <3>2, <4>1 DEF DieStart, Budget
    <3>3. ASSUME NEW accepted \in BOOLEAN, InvokeRaises(j, accepted) PROVE budget' \in Budget
      <4>1. budget.faults - 1 \in Nat  BY <3>3 DEF InvokeRaises, Budget
      <4>2. QED BY <3>3, <4>1 DEF InvokeRaises, Budget
    <3>4. QED BY <1>4, <3>1, <3>2, <3>3
  <2>3. QED BY <1>4, <2>1, <2>2 DEF InvokeWorker, DieStart, InvokeRaises, records
<1>5. ASSUME NEW j \in Jobs, ReleaseStart(j) PROVE Types'
  <2>1. lock' \in [Actors -> Lock]  BY <1>5 DEF ReleaseStart, ReleaseExportLock, NoLock, Lock
  <2>2. start' \in [Jobs -> Pending \cup {"idle", "done"}]  BY <1>5 DEF ReleaseStart
  <2>3. QED BY <1>5, <2>1, <2>2 DEF ReleaseStart
<1>6. ASSUME NEW j \in Jobs, Expire(j) PROVE Types'
  <2>1. job' \in [Jobs -> Record]  BY <1>6 DEF Expire, Record, Statuses
  <2>2. QED BY <1>6, <2>1 DEF Expire
<1>7. ASSUME NEW d \in Runs, NEW j \in Jobs, NEW kinds \in SUBSET Kinds, Receive(d, j, kinds) PROVE Types'
  <2>1. [pc |-> "run", job |-> j, rows |-> 0] \in Run  BY NumbersAssumption DEF NumbersAssumption, Run, Counted
  <2>2. work' \in [Runs -> Run]  BY <1>7, <2>1 DEF Receive
  <2>3. \A e \in Runs : work'[e].job = NoJob <=> work'[e].pc = "idle"
    <3>1. j # NoJob  BY NamesAssumption DEF NamesAssumption
    <3>2. QED BY <1>7, <3>1 DEF Receive
  <2>4. budget' \in Budget
    <3>1. CASE UNCHANGED budget  BY <3>1
    <3>2. CASE budget.faults > 0 /\ budget' = [budget EXCEPT !.faults = @ - 1]
      <4>1. budget.faults - 1 \in Nat  BY <3>2 DEF Budget
      <4>2. QED BY <3>2, <4>1 DEF Budget
    <3>3. QED BY <1>7, <3>1, <3>2 DEF Receive
  <2>5. QED BY <1>7, <2>2, <2>3, <2>4 DEF Receive
<1>8. ASSUME NEW d \in Runs, Walking(d) PROVE Types'
  <2> DEFINE j == work[d].job
  <2>1. j \in Jobs /\ job[j] \in Record /\ work[d] \in Run  BY <1>8 DEF Walking, Run
  <2>2. ASSUME NEW totals \in SUBSET (Counted \cup {Unknown}), SetRunning(d, totals) PROVE Types'
    <3>1. PICK total \in totals :
            job' = [job EXCEPT ![j].status = "running", ![j].processed = 0, ![j].total = total]
      BY <2>2 DEF SetRunning
    <3>2. job' \in [Jobs -> Record]
      BY <2>1, <3>1, NumbersAssumption DEF NumbersAssumption, Record, Statuses, Counted
    <3>3. work' \in [Runs -> Run]  BY <2>1, <2>2 DEF SetRunning, Step, Run
    <3>4. \A e \in Runs : work'[e].job = NoJob <=> work'[e].pc = "idle"
      BY <2>1, <2>2 DEF SetRunning, Step, Run
    <3>5. QED BY <2>2, <3>2, <3>3, <3>4 DEF SetRunning
  <2>3. ASSUME WalkPage(d) PROVE Types'
    <3>1. PICK n \in 0 .. MaxRows - work[d].rows, final \in BOOLEAN :
            /\ work' = [work EXCEPT ![d].rows = @ + n, ![d].pc = IF final THEN "file" ELSE @]
            /\ job' = [job EXCEPT ![j].processed = work[d].rows + n]
      BY <2>3 DEF WalkPage
    <3>2. work[d].rows + n \in Counted  BY <2>1, NumbersAssumption DEF NumbersAssumption, Run, Counted
    <3>3. job' \in [Jobs -> Record]  BY <2>1, <3>1, <3>2 DEF Record
    <3>4. work' \in [Runs -> Run]  BY <2>1, <3>1, <3>2 DEF Run
    <3>5. \A e \in Runs : work'[e].job = NoJob <=> work'[e].pc = "idle"
      BY <2>1, <2>3, <3>1 DEF WalkPage, Run
    <3>6. QED BY <2>3, <3>3, <3>4, <3>5 DEF WalkPage
  <2>4. ASSUME PutCsv(d) \/ MarkReady(d) \/ MarkFailed(d) PROVE Types'
    <3>1. job' \in [Jobs -> Record]
      <4>1. work[d].rows \in Counted \cup {Unknown}  BY <2>1 DEF Run
      <4>2. "ready" \in Statuses /\ "failed" \in Statuses  BY DEF Statuses
      <4>3. CASE PutCsv(d)  BY <2>1, <4>3 DEF PutCsv, Record
      <4>4. CASE MarkReady(d)  BY <2>1, <4>1, <4>2, <4>4 DEF MarkReady, Record, Run
      <4>5. CASE MarkFailed(d)  BY <2>1, <4>2, <4>5 DEF MarkFailed, Record
      <4>6. QED BY <2>4, <4>3, <4>4, <4>5
    <3>2. work' \in [Runs -> Run]  BY <2>1, <2>4 DEF PutCsv, MarkReady, MarkFailed, Step, Run
    <3>3. \A e \in Runs : work'[e].job = NoJob <=> work'[e].pc = "idle"
      BY <2>1, <2>4 DEF PutCsv, MarkReady, MarkFailed, Step, Run
    <3>4. QED BY <2>4, <3>1, <3>2, <3>3 DEF PutCsv, MarkReady, MarkFailed
  <2>5. ASSUME ReleaseWorker(d) PROVE Types'
    <3>1. NoRun \in Run /\ NoLock \in Lock
      BY NumbersAssumption DEF NumbersAssumption, NoRun, Run, NoLock, Lock, Counted
    <3>2. lock' \in [Actors -> Lock]  BY <2>5, <3>1 DEF ReleaseWorker, ReleaseExportLock
    <3>3. work' \in [Runs -> Run]  BY <2>5, <3>1 DEF ReleaseWorker
    <3>4. \A e \in Runs : work'[e].job = NoJob <=> work'[e].pc = "idle"
      BY <2>5 DEF ReleaseWorker, NoRun
    <3>5. QED BY <2>5, <3>2, <3>3, <3>4 DEF ReleaseWorker
  <2>6. QED BY <1>8, <2>2, <2>3, <2>4, <2>5 DEF Walking
<1>9. ASSUME NEW d \in Runs, Raise(d) \/ DieWorker(d) PROVE Types'
  <2>1. NoRun \in Run  BY NumbersAssumption DEF NumbersAssumption, NoRun, Run, Counted
  <2>2. work' \in [Runs -> Run]  BY <1>9, <2>1 DEF Raise, DieWorker, Run
  <2>3. \A e \in Runs : work'[e].job = NoJob <=> work'[e].pc = "idle"
    BY <1>9 DEF Raise, DieWorker, NoRun, Run
  <2>4. budget' \in Budget
    <3>1. ASSUME Raise(d) PROVE budget' \in Budget
      <4>1. budget.faults - 1 \in Nat  BY <3>1 DEF Raise, Budget
      <4>2. QED BY <3>1, <4>1 DEF Raise, Budget
    <3>2. ASSUME DieWorker(d) PROVE budget' \in Budget
      <4>1. budget.deaths - 1 \in Nat /\ budget.died + 1 \in Nat  BY <3>2 DEF DieWorker, Budget
      <4>2. QED BY <3>2, <4>1 DEF DieWorker, Budget
    <3>3. QED BY <1>9, <3>1, <3>2
  <2>5. QED BY <1>9, <2>2, <2>3, <2>4 DEF Raise, DieWorker, records
<1>10. ASSUME NEW a \in Actors, Age(a) PROVE Types'
  <2>1. lock' \in [Actors -> Lock]  BY <1>10 DEF Age, Lock
  <2>2. budget' \in Budget /\ late' \in BOOLEAN
    <3>1. CASE UNCHANGED <<late, budget>>  BY <3>1
    <3>2. CASE late' = TRUE /\ budget.faults > 0 /\ budget' = [budget EXCEPT !.faults = @ - 1]
      <4>1. budget.faults - 1 \in Nat  BY <3>2 DEF Budget
      <4>2. QED BY <3>2, <4>1 DEF Budget
    <3>3. QED BY <1>10, <3>1, <3>2 DEF Age
  <2>3. QED BY <1>10, <2>1, <2>2 DEF Age
<1>11. ASSUME NEW a \in Actors, NEW g \in Groups, MoveLeader(a, g) PROVE Types'
  BY <1>11 DEF MoveLeader, records
<1> HIDE DEF Types
<1>12. QED
  BY <1>1, <1>2, <1>3, <1>4, <1>5, <1>6, <1>7, <1>8, <1>9, <1>10, <1>11 DEF Simple

-----------------------------------------------------------------------------
(* One export at a time. *)

LEMMA InitWhere == Init => Fresh /\ Single /\ Locked
<1> SUFFICES ASSUME Init PROVE Fresh /\ Single /\ Locked  OBVIOUS
<1>1. \A j \in Jobs : ~Alive(j)  BY NamesAssumption DEF NamesAssumption, Init, Alive, NoRun
<1>2. QED BY <1>1, NamesAssumption DEF NamesAssumption, Init, Fresh, Single, Locked, NoRun, Pending

\* Where the jobs are, and who holds the locks, after each step.
LEMMA StepWhere == ASSUME IInv, Types', Simple PROVE Fresh' /\ Single' /\ Locked'
<1> DEFINE Where == Fresh /\ Single /\ Locked
<1> USE DEF IInv
\* Nobody is anywhere else, and no new job holds the lock.
<1>0. ASSUME UNCHANGED <<lock, sent, start>>, again => again', late => late',
             \A j \in Jobs : job'[j].actor = job[j].actor,
             \A d \in Runs : work'[d].job = work[d].job \/ work'[d] = NoRun
      PROVE  Where'
  <2>1. \A j \in Jobs : Alive(j)' => Alive(j)
    BY <1>0, NamesAssumption DEF NamesAssumption, Alive, NoRun
  <2>2. Fresh'  BY <1>0, <2>1 DEF Fresh
  <2>3. Single'  BY <1>0, NamesAssumption DEF NamesAssumption, Single, NoRun
  <2>4. Locked'  BY <1>0, <2>1 DEF Locked
  <2>5. QED BY <2>2, <2>3, <2>4
<1>1. ASSUME NEW a \in Actors, NEW j \in Jobs, Starting(a, j) PROVE Where'
  <2>1. PICK kind \in Kinds, g \in Groups \cup {NoGroup} : Start(a, j, kind, g)
    BY <1>1 DEF Starting
  <2>2. start[j] = "idle" /\ ~Alive(j) /\ UNCHANGED <<sent, work, again, late>>
        /\ start' = [start EXCEPT ![j] = "put"]
    BY <2>1 DEF Start, Fresh
  <2>3. \A i \in Jobs : i # j => (Alive(i)' <=> Alive(i))
    BY <2>2 DEF Alive, Types
  <2>4. \A i \in Jobs : i # j => job'[i] = job[i]  BY <2>1 DEF Start, Types
  <2>5. job'[j].actor = a
    BY <2>1 DEF Start, Types, NoRecord
  <2>6. lock' = [lock EXCEPT ![a] = [job |-> j, stale |-> FALSE]] /\ Free(a)
    BY <2>1 DEF Start, AcquireExportLock
  <2>7. Fresh'  BY <2>2, <2>3 DEF Fresh, Types
  <2>8. Single'
    <3>1. j \notin sent /\ \A d \in Runs : work[d].job # j  BY <2>2 DEF Alive
    <3>2. QED BY <2>2, <3>1 DEF Single, Types
  <2>9. Locked'
    <3>1. ASSUME ~again, ~late, NEW i \in Jobs, i # j, Alive(i) PROVE job[i].actor # a
      <4>1. lock[job[i].actor].job = i /\ ~lock[job[i].actor].stale  BY <3>1 DEF Locked
      <4>2. i # NoJob  BY NamesAssumption DEF NamesAssumption
      <4>3. QED BY <2>6, <4>1, <4>2 DEF Free, NoLock
    <3>2. \A i \in Jobs : job[i].actor \in Actors  BY DEF Types, Record
    <3>3. QED BY <2>2, <2>3, <2>4, <2>5, <2>6, <3>1, <3>2 DEF Locked, Types
  <2>10. QED BY <2>7, <2>8, <2>9
<1>2. ASSUME NEW a \in Actors, NEW j \in Jobs, Collecting(a, j) PROVE Where'
  BY <1>0, <1>2 DEF Collecting, Collect, records
<1>3. ASSUME NEW j \in Jobs,
             PutExportJob(j) \/ FailStart(j) \/ InvokeWorker(j) \/ DieStart(j) \/ ReleaseStart(j)
             \/ (\E accepted \in BOOLEAN : InvokeRaises(j, accepted))
      PROVE  Where'
  <2>1. /\ start[j] \in Pending
        /\ start' = [start EXCEPT ![j] = start'[j]]
        /\ start'[j] \in Pending \cup {"done"}
        /\ UNCHANGED <<work, late>> /\ (again => again')
        /\ \A i \in Jobs : job'[i].actor = job[i].actor
    <3>1. CASE PutExportJob(j)  BY <3>1 DEF PutExportJob, Pending, Types, Record
    <3>2. CASE FailStart(j)  BY <3>2 DEF FailStart, Pending, Types, Record
    <3>3. CASE InvokeWorker(j)  BY <3>3 DEF InvokeWorker, Pending, Types
    <3>4. CASE DieStart(j)  BY <3>4 DEF DieStart, Pending, Types, records
    <3>5. CASE ReleaseStart(j)  BY <3>5 DEF ReleaseStart, Pending, Types
    <3>6. CASE \E accepted \in BOOLEAN : InvokeRaises(j, accepted)
      BY <3>6 DEF InvokeRaises, Pending, Types
    <3>7. QED BY <1>3, <3>1, <3>2, <3>3, <3>4, <3>5, <3>6
  <2>2. /\ sent' = sent \/ sent' = sent \cup {j}
        /\ ~again' /\ j \in sent' /\ j \notin sent => start'[j] = "done"
    BY <1>3 DEF PutExportJob, FailStart, InvokeWorker, DieStart, ReleaseStart, InvokeRaises,
                records, Types
  <2>3. Alive(j) /\ \A i \in Jobs : i # j => (Alive(i)' <=> Alive(i))
    BY <2>1, <2>2 DEF Alive, Pending, Types
  <2>4. Fresh'
    BY <2>1, <2>3 DEF Fresh, Types, Pending
  <2>5. Single'
    BY <2>1, <2>2 DEF Single, Types, Pending
  <2>6. Locked'
    <3>1. CASE UNCHANGED lock  BY <2>1, <2>3, <3>1 DEF Locked
    <3>2. CASE ReleaseStart(j)
      <4>1. /\ lock' = [lock EXCEPT ![job[j].actor] = NoLock]
            /\ start[j] = "release" /\ start'[j] = "done" /\ UNCHANGED <<sent, job, again>>
        BY <3>2 DEF ReleaseStart, ReleaseExportLock, Types
      <4>2. ~again => ~Alive(j)'
        BY <2>1, <4>1, NamesAssumption DEF NamesAssumption, Single, Alive, Pending
      <4>3. ASSUME ~again, ~late, NEW i \in Jobs, i # j, Alive(i)
            PROVE  job[i].actor # job[j].actor
        BY <2>3, <4>3 DEF Locked
      <4>4. QED BY <2>1, <2>3, <4>1, <4>2, <4>3 DEF Locked, Types
    <3>3. UNCHANGED lock \/ ReleaseStart(j)
      BY <1>3 DEF PutExportJob, FailStart, InvokeWorker, DieStart, InvokeRaises, records
    <3>4. QED BY <3>1, <3>2, <3>3
  <2>7. QED BY <2>4, <2>5, <2>6
<1>4. ASSUME NEW j \in Jobs, Expire(j) PROVE Where'
  BY <1>0, <1>4 DEF Expire, Types, Record
<1>5. ASSUME NEW d \in Runs, NEW j \in Jobs, NEW kinds \in SUBSET Kinds, Receive(d, j, kinds)
      PROVE  Where'
  <2>1. /\ work[d].pc = "idle" /\ work[d].job = NoJob /\ j \in sent
        /\ UNCHANGED <<job, lock, start, late>> /\ (again => again')
        /\ sent' \in SUBSET sent /\ (~again' => sent' = sent \ {j})
        /\ \A e \in Runs : work'[e].job = work[e].job \/ (e = d /\ work'[e].job = j)
    BY <1>5 DEF Receive, Types
  <2>2. \A i \in Jobs : Alive(i)' => Alive(i)
    BY <2>1 DEF Alive
  <2>3. Fresh'  BY <2>1, <2>2 DEF Fresh
  <2>4. Single'  BY <2>1 DEF Single
  <2>5. Locked'  BY <2>1, <2>2 DEF Locked
  <2>6. QED BY <2>3, <2>4, <2>5
<1>6. ASSUME NEW d \in Runs, Walking(d) PROVE Where'
  <2>1. work[d].job \in Jobs  BY <1>6 DEF Walking, Types, Run
  <2>2. ASSUME NEW totals \in SUBSET (Counted \cup {Unknown}), SetRunning(d, totals) PROVE Where'
    BY <1>0, <2>1, <2>2 DEF SetRunning, Step, Types, Record, Run
  <2>3. ASSUME WalkPage(d) PROVE Where'
    BY <1>0, <2>1, <2>3 DEF WalkPage, Types, Record, Run
  <2>4. ASSUME PutCsv(d) \/ MarkReady(d) \/ MarkFailed(d) PROVE Where'
    <3>1. /\ UNCHANGED <<lock, sent, start, again, late>>
          /\ \A i \in Jobs : job'[i].actor = job[i].actor
      <4>1. CASE PutCsv(d)  BY <2>1, <4>1 DEF PutCsv, Types, Record
      <4>2. CASE MarkReady(d)  BY <2>1, <4>2 DEF MarkReady, Types, Record
      <4>3. CASE MarkFailed(d)  BY <2>1, <4>3 DEF MarkFailed, Types, Record
      <4>4. QED BY <2>4, <4>1, <4>2, <4>3
    <3>2. \A e \in Runs : work'[e].job = work[e].job
      BY <2>4 DEF PutCsv, MarkReady, MarkFailed, Step, Types, Run
    <3>3. QED BY <1>0, <3>1, <3>2
  <2>5. ASSUME ReleaseWorker(d) PROVE Where'
    <3>0. PICK j \in Jobs : j = work[d].job  BY <2>1
    <3>1. /\ UNCHANGED <<job, sent, start, again, late>>
          /\ work' = [work EXCEPT ![d] = NoRun]
          /\ lock' = [lock EXCEPT ![job[j].actor] = NoLock]
      BY <2>5, <3>0 DEF ReleaseWorker, ReleaseExportLock
    <3>2. \A i \in Jobs : Alive(i)' => Alive(i)
      BY <3>1, NamesAssumption DEF NamesAssumption, Alive, NoRun, Types
    <3>3. Alive(j)  BY <3>0 DEF Alive
    <3>4. ~again => ~Alive(j)'
      <4>1. ASSUME ~again PROVE start[j] \notin Pending /\ j \notin sent
                                /\ \A e \in Runs : e # d => work[e].job # j
        BY <3>0, <4>1 DEF Single
      <4>2. work'[d].job = NoJob /\ j # NoJob
        BY <2>1, <3>1, NamesAssumption DEF NamesAssumption, NoRun, Types
      <4>3. \A e \in Runs : e # d => work'[e] = work[e]  BY <3>1 DEF Types
      <4>4. QED BY <3>1, <4>1, <4>2, <4>3 DEF Alive, Pending
    <3>5. Fresh'  BY <3>1, <3>2 DEF Fresh
    <3>6. Single'
      BY <3>1, NamesAssumption DEF NamesAssumption, Single, NoRun, Types
    <3>7. Locked'
      <4>1. ASSUME ~again, ~late, NEW i \in Jobs, i # j, Alive(i)
            PROVE  job[i].actor # job[j].actor
        BY <3>3, <4>1 DEF Locked
      <4>2. QED BY <3>1, <3>2, <3>4, <4>1 DEF Locked, Types
    <3>8. QED BY <3>5, <3>6, <3>7
  <2>6. QED BY <1>6, <2>2, <2>3, <2>4, <2>5 DEF Walking
<1>7. ASSUME NEW d \in Runs, Raise(d) \/ DieWorker(d) PROVE Where'
  <2>1. UNCHANGED <<job, lock, sent, start, again, late>>
    BY <1>7 DEF Raise, DieWorker, records
  <2>2. \A e \in Runs : work'[e].job = work[e].job \/ work'[e] = NoRun
    BY <1>7 DEF Raise, DieWorker, Types, Run
  <2>3. QED BY <1>0, <2>1, <2>2
<1>8. ASSUME NEW a \in Actors, Age(a) PROVE Where'
  <2>1. /\ UNCHANGED <<job, sent, start, work, again>> /\ (late => late')
        /\ lock' = [lock EXCEPT ![a].stale = TRUE] /\ ~Free(a)
        /\ (Alive(lock[a].job) => late')
    BY <1>8 DEF Age
  <2>2. \A j \in Jobs : Alive(j)' <=> Alive(j)  BY <2>1 DEF Alive
  <2>3. ASSUME ~again, ~late', NEW j \in Jobs, Alive(j) PROVE job[j].actor # a
    <3>1. ~late /\ lock[job[j].actor].job = j  BY <2>1, <2>3 DEF Locked
    <3>2. QED BY <2>1, <2>3, <3>1
  <2>4. Fresh' /\ Single'  BY <2>1, <2>2 DEF Fresh, Single
  <2>5. Locked'  BY <2>1, <2>2, <2>3 DEF Locked, Types
  <2>6. QED BY <2>4, <2>5
<1>9. ASSUME NEW a \in Actors, NEW g \in Groups, MoveLeader(a, g) PROVE Where'
  BY <1>0, <1>9 DEF MoveLeader, records
<1> HIDE DEF Where
<1>10. Where'
  BY <1>1, <1>2, <1>3, <1>4, <1>5, <1>6, <1>7, <1>8, <1>9 DEF Simple
<1>11. QED BY <1>10 DEF Where

-----------------------------------------------------------------------------
(* What is ready is complete. *)

LEMMA InitDone == Init => Filed /\ Rested
BY DEF Init, Filed, Rested, NoRecord, NoRun

LEMMA StepDone == ASSUME IInv, Types', Simple PROVE Filed' /\ Rested'
<1> DEFINE Done == Filed /\ Rested
<1> USE DEF IInv
\* Nothing is written to a ready job and nothing becomes ready.
<1>0. ASSUME again => again',
             \A j \in Jobs : \/ job'[j].status # "ready"
                             \/ job'[j] = job[j],
             \A j \in Jobs : job[j].file => job'[j].file \/ \A d \in Runs : work'[d].job # j,
             \A d \in Runs : \/ work'[d].job = work[d].job /\ work'[d].pc = work[d].pc
                             \/ work'[d].pc # "ready" /\ (job'[work'[d].job].status # "ready")
                             \/ work'[d] = NoRun
      PROVE  Done'
  <2>1. \A d \in Runs : work'[d].pc = "ready" => work'[d].job \in Jobs
    BY DEF Types, Run
  <2>2. Filed'
    BY <1>0, <2>1 DEF Filed, NoRun
  <2>3. Rested'
    BY <1>0, NamesAssumption DEF NamesAssumption, Rested, NoRun
  <2>4. QED BY <2>2, <2>3
<1>1. ASSUME NEW a \in Actors, NEW j \in Jobs, Starting(a, j) PROVE Done'
  <2>1. PICK kind \in Kinds, g \in Groups \cup {NoGroup} : Start(a, j, kind, g)
    BY <1>1 DEF Starting
  <2>2. ~Alive(j) /\ UNCHANGED <<work, again>>  BY <2>1 DEF Start, Fresh
  <2>3. job'[j].status = "none"  BY <2>1 DEF Start, Types, NoRecord
  <2>4. \A i \in Jobs : i # j => job'[i] = job[i]  BY <2>1 DEF Start, Types
  <2>5. \A d \in Runs : work[d].job # j  BY <2>2 DEF Alive
  <2>6. QED BY <1>0, <2>2, <2>3, <2>4, <2>5
<1>2. ASSUME NEW a \in Actors, NEW j \in Jobs, Collecting(a, j) PROVE Done'
  BY <1>0, <1>2 DEF Collecting, Collect, records
<1>3. ASSUME NEW j \in Jobs,
             InvokeWorker(j) \/ DieStart(j) \/ ReleaseStart(j)
             \/ (\E accepted \in BOOLEAN : InvokeRaises(j, accepted))
      PROVE  Done'
  BY <1>0, <1>3 DEF InvokeWorker, DieStart, ReleaseStart, InvokeRaises, records
<1>4. ASSUME NEW j \in Jobs, PutExportJob(j) \/ FailStart(j) \/ Expire(j) PROVE Done'
  <2>1. /\ UNCHANGED <<work, again>>
        /\ job'[j].status # "ready" /\ job'[j].file = job[j].file
        /\ \A i \in Jobs : i # j => job'[i] = job[i]
    BY <1>4 DEF PutExportJob, FailStart, Expire, Types, Record
  <2>2. QED BY <1>0, <2>1
<1>5. ASSUME NEW d \in Runs, NEW j \in Jobs, NEW kinds \in SUBSET Kinds, Receive(d, j, kinds)
      PROVE  Done'
  <2>1. UNCHANGED job /\ (again => again')
        /\ (work' = work \/ (/\ job[j].status # "ready"
                             /\ work' = [work EXCEPT ![d] = [pc |-> "run", job |-> j, rows |-> 0]]))
    BY <1>5 DEF Receive
  <2>2. QED BY <1>0, <2>1 DEF Types
<1>6. ASSUME NEW d \in Runs, Walking(d) PROVE Done'
  <2> DEFINE j == work[d].job
  <2>1. j \in Jobs /\ \A e \in Runs : work[e].pc # "idle" => work[e].job \in Jobs
    BY <1>6 DEF Walking, Types, Run
  <2>2. ASSUME NEW totals \in SUBSET (Counted \cup {Unknown}), SetRunning(d, totals) PROVE Done'
    <3>1. /\ UNCHANGED again
          /\ work' = [work EXCEPT ![d].pc = "walk"] /\ job'[j].status = "running"
          /\ job'[j].file = job[j].file /\ \A i \in Jobs : i # j => job'[i] = job[i]
      BY <2>1, <2>2 DEF SetRunning, Step, Types, Record
    <3>2. QED BY <1>0, <2>1, <3>1 DEF Types, Run
  <2>3. ASSUME WalkPage(d) PROVE Done'
    <3>1. /\ UNCHANGED again /\ work[d].pc = "walk" /\ work'[d].pc \in {"walk", "file"}
          /\ work'[d].job = j /\ \A e \in Runs : e # d => work'[e] = work[e]
          /\ job'[j].status = job[j].status /\ job'[j].file = job[j].file
          /\ \A i \in Jobs : i # j => job'[i] = job[i]
      BY <2>1, <2>3 DEF WalkPage, Types, Record, Run
    <3>2. ~again => job[j].status # "ready"  BY <2>1, <3>1 DEF Rested
    <3>3. Filed'
      <4>1. \A i \in Jobs : job'[i].status = job[i].status /\ job'[i].file = job[i].file
        BY <3>1
      <4>2. \A e \in Runs : work'[e].pc = "ready" => work[e].pc = "ready" /\ work'[e].job = work[e].job
                            /\ work[e].job \in Jobs
        BY <2>1, <3>1
      <4>3. QED BY <4>1, <4>2 DEF Filed
    <3>4. Rested'  BY <3>1, <3>2 DEF Rested
    <3>5. QED BY <3>3, <3>4
  <2>4. ASSUME PutCsv(d) PROVE Done'
    <3>1. /\ UNCHANGED again /\ work[d].pc = "file" /\ work' = [work EXCEPT ![d].pc = "ready"]
          /\ job'[j].status = job[j].status /\ job'[j].file = TRUE
          /\ job'[j].processed = job[j].processed /\ job'[j].total = job[j].total
          /\ \A i \in Jobs : i # j => job'[i] = job[i]
      BY <2>1, <2>4 DEF PutCsv, Step, Types, Record
    <3>2. /\ \A e \in Runs : work'[e].job = work[e].job
          /\ \A e \in Runs : e # d => work'[e].pc = work[e].pc
      BY <3>1 DEF Types, Run
    <3>3. Filed'
      <4>1. \A i \in Jobs : job'[i].status = job[i].status /\ (job[i].file => job'[i].file)
        BY <3>1
      <4>2. QED BY <2>1, <3>1, <3>2, <4>1 DEF Filed
    <3>4. ~again => job[j].status # "ready"  BY <2>1, <3>1 DEF Rested
    <3>5. Rested'  BY <3>1, <3>2, <3>4 DEF Rested
    <3>6. QED BY <3>3, <3>5
  <2>5. ASSUME MarkReady(d) PROVE Done'
    <3>1. /\ UNCHANGED again /\ work[d].pc = "ready" /\ work' = [work EXCEPT ![d].pc = "release"]
          /\ job'[j].file = job[j].file /\ job'[j].processed = job'[j].total
          /\ \A i \in Jobs : i # j => job'[i] = job[i]
      BY <2>1, <2>5 DEF MarkReady, Step, Types, Record
    <3>2. /\ \A e \in Runs : work'[e].job = work[e].job
          /\ \A e \in Runs : e # d => work'[e].pc = work[e].pc
          /\ work'[d].pc = "release"
      BY <3>1 DEF Types, Run
    <3>3. job[j].file  BY <3>1 DEF Filed
    <3>4. Filed'
      <4>1. \A i \in Jobs : i # j => job'[i] = job[i]  BY <3>1
      <4>2. \A i \in Jobs : job[i].file => job'[i].file  BY <3>1
      <4>3. \A e \in Runs : work'[e].pc = "ready" => work[e].pc = "ready" /\ work[e].job \in Jobs
        BY <2>1, <3>2
      <4>4. job'[j].file  BY <3>1, <3>3
      <4>5. QED BY <3>2, <4>1, <4>2, <4>3, <4>4 DEF Filed
    <3>5. ~again => \A e \in Runs : work[e].job = j => e = d  BY <2>1 DEF Single
    <3>6. Rested'
      <4>1. ASSUME ~again, NEW i \in Jobs, job'[i].status = "ready"
            PROVE  job'[i].processed = job'[i].total
                   /\ \A e \in Runs : work'[e].job = i => work'[e].pc = "release"
        <5>1. CASE i = j  BY <3>1, <3>2, <3>5, <4>1, <5>1
        <5>2. CASE i # j  BY <3>1, <3>2, <4>1, <5>2 DEF Rested
        <5>3. QED BY <5>1, <5>2
      <4>2. QED BY <3>1, <4>1 DEF Rested
    <3>7. QED BY <3>4, <3>6
  <2>6. ASSUME MarkFailed(d) PROVE Done'
    <3>1. /\ UNCHANGED again /\ work' = [work EXCEPT ![d].pc = "release"]
          /\ job'[j].status = "failed" /\ job'[j].file = job[j].file
          /\ \A i \in Jobs : i # j => job'[i] = job[i]
      BY <2>1, <2>6 DEF MarkFailed, Step, Types, Record
    <3>2. QED BY <1>0, <2>1, <3>1 DEF Types, Run
  <2>7. ASSUME ReleaseWorker(d) PROVE Done'
    BY <1>0, <2>7 DEF ReleaseWorker, Types
  <2>8. QED BY <1>6, <2>2, <2>3, <2>4, <2>5, <2>6, <2>7 DEF Walking
<1>7. ASSUME NEW d \in Runs, DieWorker(d) PROVE Done'
  BY <1>0, <1>7 DEF DieWorker, records, Types
<1>8. ASSUME NEW d \in Runs, Raise(d) PROVE Done'
  <2>1. /\ UNCHANGED <<job, again>> /\ work[d].pc \in {"run", "walk", "file", "ready"}
        /\ work' = [work EXCEPT ![d].pc = "fail"]
    BY <1>8 DEF Raise, records
  <2>2. /\ \A e \in Runs : work'[e].job = work[e].job
        /\ \A e \in Runs : e # d => work'[e].pc = work[e].pc
        /\ work'[d].pc = "fail"
    BY <2>1 DEF Types, Run
  <2>3. Filed'  BY <2>1, <2>2 DEF Filed
  <2>4. Rested'  BY <2>1, <2>2 DEF Rested
  <2>5. QED BY <2>3, <2>4
<1>9. ASSUME NEW a \in Actors, Age(a) PROVE Done'
  BY <1>0, <1>9 DEF Age
<1>10. ASSUME NEW a \in Actors, NEW g \in Groups, MoveLeader(a, g) PROVE Done'
  BY <1>0, <1>10 DEF MoveLeader, records
<1> HIDE DEF Done
<1>11. Done'
  BY <1>1, <1>2, <1>3, <1>4, <1>5, <1>6, <1>7, <1>8, <1>9, <1>10 DEF Simple
<1>12. QED BY <1>11 DEF Done

-----------------------------------------------------------------------------
(* Whose ledger is handed out. *)

LEMMA StepHanded == ASSUME LedgerStaysInGroup, Simple PROVE LedgerStaysInGroup'
<1>1. ASSUME NEW a \in Actors, NEW j \in Jobs, Collecting(a, j) PROVE LedgerStaysInGroup'
  BY <1>1 DEF Collecting, Collect, LedgerStaysInGroup
<1>2. ASSUME UNCHANGED handed PROVE LedgerStaysInGroup'
  BY <1>2 DEF LedgerStaysInGroup
<1>3. UNCHANGED handed \/ \E a \in Actors, j \in Jobs : Collecting(a, j)
  BY DEF Simple, Starting, Start, PutExportJob, InvokeWorker, FailStart, ReleaseStart, Expire,
     DieStart, InvokeRaises, Receive, Walking, SetRunning, WalkPage, PutCsv, MarkReady,
     MarkFailed, ReleaseWorker, Raise, DieWorker, Age, MoveLeader
<1>4. QED BY <1>1, <1>2, <1>3

-----------------------------------------------------------------------------
(* The theorems. *)

LEMMA Initially == Init => IInv
BY InitTypes, InitWhere, InitDone DEF IInv, Init, LedgerStaysInGroup

LEMMA Preserved == ASSUME IInv, [Next]_vars PROVE IInv'
<1>1. CASE Next
  <2>1. Simple  BY <1>1, EveryStepIsSimple DEF IInv
  <2>2. Types'  BY <2>1, StepTypes DEF IInv
  <2>3. QED BY <2>1, <2>2, StepWhere, StepDone, StepHanded DEF IInv
<1>2. CASE UNCHANGED vars
  BY <1>2 DEF vars, records, IInv, Types, Fresh, Single, Locked, Filed, Rested,
     LedgerStaysInGroup, Alive
<1>3. QED BY <1>1, <1>2

\* A job is in one place at a time and holds its actor's lock while it is alive; the rest
\* of the invariant is what a run has done when it says so.
THEOREM Inductive == Spec => []IInv
BY Initially, Preserved, PTL DEF Spec

LEMMA WholeIsAll == ASSUME NEW n \in Nat, n > 0 PROVE (n * 100) \div n = 100
OBVIOUS

LEMMA InvariantSuffices == IInv => TypeOK /\ ExportsHold
<1> SUFFICES ASSUME IInv PROVE TypeOK /\ ExportsHold  OBVIOUS
<1>1. TypeOK  BY DEF IInv, Types, TypeOK, Record, Statuses, Lock, Run
<1>2. OneAtATime
  <2>1. SUFFICES ASSUME ~again, ~late, NEW i \in Jobs, NEW j \in Jobs, i # j, Alive(i), Alive(j)
                 PROVE  job[i].actor # job[j].actor
    BY DEF OneAtATime
  <2>2. QED BY <2>1 DEF IInv, Locked
<1>3. ReadyIsComplete
  <2>1. SUFFICES ASSUME NEW j \in Jobs, job[j].status = "ready"
                 PROVE  job[j].file /\ (again \/ Percent(job[j]) = 100)
    BY DEF ReadyIsComplete
  <2>2. job[j].file  BY <2>1 DEF IInv, Filed
  <2>3. ASSUME ~again PROVE Percent(job[j]) = 100
    <3>1. job[j].processed = job[j].total /\ job[j].processed \in Nat
      BY <2>1, <2>3 DEF IInv, Rested, Types, Record, Counted
    <3>2. job[j].total > 0 => (job[j].processed * 100) \div job[j].total = 100
      BY <3>1, WholeIsAll
    <3>3. QED BY <2>1, <3>1, <3>2 DEF Percent
  <2>4. QED BY <2>2, <2>3
<1>4. QED BY <1>1, <1>2, <1>3 DEF IInv, ExportsHold

\* Records, locks and runs keep their shape, whatever is lost, repeated or killed.
THEOREM TypeCorrect == Spec => []TypeOK
BY Inductive, InvariantSuffices, PTL

\* Nobody has two exports under way at once, unless an invocation came twice or outlived
\* its lock; what is shown as ready can be fetched and reads 100 %; and a group leader is
\* handed the ledger of the group he leads (acquire_export_lock, _run_export, _public).
THEOREM ExportsAlwaysHold == Spec => []ExportsHold
BY Inductive, InvariantSuffices, PTL

-----------------------------------------------------------------------------
(* The badges.                                                               *)
(*                                                                           *)
(* Nothing is assumed of the files, the callers, the deliveries or the       *)
(* budgets.  What a process is about to do rests on something that no step   *)
(* takes back: a verdict once given, a copy once made, a purge once tried.   *)

BadgeRow ==
  [exists : BOOLEAN, key : BadgeFiles \cup {NoBadge}, promoted : BOOLEAN,
   status : {"None", "PendingScan", "Clean", "Quarantined"}, url : BadgeFiles \cup {NoBadge}]

BadgeSteps ==
  {"own", "put", "read", "verdict", "owner", "judge", "copy", "purge", "finalize"}
BadgeOp ==
  {op \in [do : BadgeSteps, file : BadgeFiles \cup {NoBadge}, row : BadgeRow,
           status : {"None", "Clean", "Quarantined"}] :
     op.do \notin {"put", "read"} => op.file \in BadgeFiles}

\* What a process has still to do: the rest of a request, of a delivery, of a reconciliation.
Alone(s) == \E op \in BadgeOp :
  s = <<op>> /\ op.do \in {"put", "read", "judge", "verdict", "owner", "finalize"}
Before(s) == \E a, b \in BadgeOp :
  /\ s = <<a, b>>
  /\ \/ a.do = "put" /\ b.do = "read"
     \/ a.do = "copy" /\ b.do = "finalize" /\ b.file = a.file /\ b.status = "Clean"
     \/ a.do = "purge" /\ b.do = "finalize" /\ b.file = a.file /\ b.status = "Quarantined"
     \/ a.do = "purge" /\ b.do = "owner"
Attaches(s) == \E a, b, c \in BadgeOp :
  s = <<a, b, c>> /\ a.do = "own" /\ b.do = "put" /\ c.do = "read"
Program(s) == s = <<>> \/ Alone(s) \/ Before(s) \/ Attaches(s)

BadgeTables ==
  /\ definition \in BadgeRow
  /\ pointer \in [BadgeFiles -> [granted : BOOLEAN, owned : BOOLEAN,
                                 verdict : {"PendingScan", "Clean", "Quarantined"}]]
  /\ object \in [BadgeFiles -> Bd!Kinds \cup {"none"}]
  /\ public \subseteq BadgeFiles /\ notices \subseteq BadgeFiles /\ lingering \subseteq BadgeFiles
  /\ crossed \in BOOLEAN

Gone(f) == object[f] # "infected" \/ f \in lingering
Clean(f) == pointer[f].verdict = "Clean"
Infected(f) == pointer[f].verdict = "Quarantined"

\* A verdict agrees with what is stored, or was before it was purged.
VerdictsStand ==
  \A f \in BadgeFiles : /\ Clean(f) => object[f] = "clean"
                        /\ Infected(f) => object[f] # "clean"

\* What a definition's row shows, stored or held by a request, is so.
RowIsTrue(row) ==
  /\ row.status = "Clean" => row.url \in public
  /\ ~crossed /\ row.status = "Clean" => row.url = row.key
  /\ ~crossed /\ row.status = "Quarantined" =>
       row.key \in BadgeFiles /\ Infected(row.key) /\ Gone(row.key)

\* A process about to copy, purge or finalise has seen the verdict, and the copy or the purge;
\* until an image is changed in between, it does so for the image attached.
Reconciles(s) ==
  /\ s # <<>>
  /\ \/ Head(s).do \in {"judge", "copy", "finalize"}
     \/ Head(s).do = "purge" /\ s[2].do = "finalize"
HeadIsTrue(s) ==
  /\ Head(s).do = "copy" => Clean(Head(s).file)
  /\ Head(s).do = "purge" => Infected(Head(s).file)
  /\ Head(s).do = "finalize" =>
       \/ Head(s).status = "Clean" /\ Head(s).file \in public
       \/ Head(s).status = "Quarantined" /\ Infected(Head(s).file) /\ Gone(Head(s).file)
OfTheImage(s) == ~crossed /\ Reconciles(s) => Head(s).file = definition.key

Knows(s) ==
  /\ Program(s)
  /\ \A k \in DOMAIN s : s[k].do = "put" => RowIsTrue(s[k].row)
  /\ s # <<>> => HeadIsTrue(s)
  /\ OfTheImage(s)

BadgeCalls ==
  /\ badgeCall \in [Bd!Procs -> [ops : Seq(BadgeOp), note : BadgeFiles \cup {NoBadge}]]
  /\ \A p \in Bd!Procs : Knows(badgeCall[p].ops)

TablesAgree ==
  BadgeTables /\ VerdictsStand /\ RowIsTrue(definition) /\ \A f \in public : Clean(f)

BadgesInv == TablesAgree /\ BadgeCalls

LEMMA BdInit == Bd!Init => BadgesInv
<1> SUFFICES ASSUME Bd!Init PROVE BadgesInv
  OBVIOUS
<1> USE DEF Bd!Init
<1>1. Bd!NoDefinition \in BadgeRow /\ Bd!NoDefinition.status = "None"
  BY DEF Bd!NoDefinition, BadgeRow
<1>2. BadgeTables
  BY <1>1 DEF BadgeTables
<1>3. Bd!Idle = [ops |-> <<>>, note |-> NoBadge] /\ <<>> \in Seq(BadgeOp)
  BY DEF Bd!Idle, Bd!Frame
<1>4. Knows(<<>>)
  BY DEF Knows, Program, OfTheImage, Reconciles
<1>5. BadgeCalls
  BY <1>3, <1>4 DEF BadgeCalls
<1>6. RowIsTrue(definition)
  BY <1>1 DEF RowIsTrue
<1>7. VerdictsStand
  BY DEF VerdictsStand, Clean, Infected
<1> QED BY <1>2, <1>5, <1>6, <1>7 DEF BadgesInv, TablesAgree

-----------------------------------------------------------------------------
\* Nothing that a process relies on is taken back.
Grows ==
  /\ public \subseteq public' /\ lingering \subseteq lingering' /\ (crossed => crossed')
  /\ \A f \in BadgeFiles : pointer[f].verdict # "PendingScan" =>
                             pointer'[f].verdict = pointer[f].verdict
  /\ \A f \in BadgeFiles : Infected(f) /\ Gone(f) => Gone(f)'

\* The image of the definition changes only where that is seen.
KeyStays == definition'.key = definition.key \/ crossed' \/ ~Bd!Reconciling

LEMMA BdRows == ASSUME Grows, NEW row, RowIsTrue(row) PROVE RowIsTrue(row)'
BY DEF Grows, RowIsTrue, Infected

LEMMA BdReconciling ==
  ASSUME BadgesInv, NEW p \in Bd!Procs, Reconciles(badgeCall[p].ops) PROVE Bd!Reconciling
<1> DEFINE s == badgeCall[p].ops
<1>1. Program(s) /\ s # <<>>
  BY DEF BadgesInv, BadgeCalls, Knows, Reconciles
<1>2. 1 \in DOMAIN s /\ Head(s) = s[1]
  BY <1>1 DEF Program, Alone, Before, Attaches
<1>3. s[1] \in Bd!ToSet(s)
  BY <1>2 DEF Bd!ToSet
<1>4. s[1].do \in {"judge", "copy", "purge", "finalize"}
  BY <1>2 DEF Reconciles
<1> QED BY <1>3, <1>4 DEF Bd!Reconciling

LEMMA BdKnows ==
  ASSUME Grows, NEW s, Knows(s), definition'.key = definition.key \/ crossed' \/ ~Reconciles(s)
  PROVE  Knows(s)'
<1>1. Knows(s) /\ Program(s)
  BY DEF Knows
<1>2. Program(s)'
  BY <1>1 DEF Program, Alone, Before, Attaches
<1>3. \A k \in DOMAIN s : s[k].do = "put" => RowIsTrue(s[k].row)'
  BY <1>1, BdRows DEF Knows
<1>4. s # <<>> => (Head(s).do \in {"copy", "purge", "finalize"} => Head(s).file \in BadgeFiles)
  BY <1>1 DEF Program, Alone, Before, Attaches, BadgeOp
<1>5. s # <<>> => HeadIsTrue(s)'
  BY <1>1, <1>4 DEF Knows, HeadIsTrue, Grows, Clean, Infected
<1>6. OfTheImage(s)'
  BY <1>1 DEF Knows, OfTheImage, Reconciles, Grows
<1> QED BY <1>2, <1>3, <1>5, <1>6 DEF Knows

LEMMA BdOthers ==
  ASSUME BadgesInv, Grows, KeyStays, NEW q \in Bd!Procs, badgeCall'[q] = badgeCall[q]
  PROVE  Knows(badgeCall[q].ops)'
<1>1. PICK s : s = badgeCall[q].ops
  OBVIOUS
<1>2. Knows(s)
  BY <1>1 DEF BadgesInv, BadgeCalls
<1>3. Knows(s)'
  BY <1>1, <1>2, BdKnows, BdReconciling DEF KeyStays
<1> QED BY <1>1, <1>3

\* One process moves.
LEMMA BdMoves ==
  ASSUME BadgesInv, Grows, KeyStays, TablesAgree',
         NEW p \in Bd!Procs, NEW t \in Seq(BadgeOp), NEW n \in BadgeFiles \cup {NoBadge},
         badgeCall' = [badgeCall EXCEPT ![p] = [ops |-> t, note |-> n]], Knows(t)'
  PROVE  BadgesInv'
<1>1. /\ badgeCall'[p].ops = t
      /\ badgeCall' \in [Bd!Procs -> [ops : Seq(BadgeOp), note : BadgeFiles \cup {NoBadge}]]
      /\ \A q \in Bd!Procs : q # p => badgeCall'[q] = badgeCall[q]
  BY DEF BadgesInv, BadgeCalls
<1>2. \A q \in Bd!Procs : Knows(badgeCall[q].ops)'
  BY <1>1, BdOthers
<1> QED BY <1>1, <1>2 DEF BadgesInv, BadgeCalls

\* None moves.
LEMMA BdRests ==
  ASSUME BadgesInv, Grows, KeyStays, TablesAgree', UNCHANGED badgeCall
  PROVE  BadgesInv'
<1>1. \A q \in Bd!Procs : Knows(badgeCall[q].ops)'
  BY BdOthers
<1> QED BY <1>1 DEF BadgesInv, BadgeCalls

\* What a process does next tells what it does after.
LEMMA BdHeads ==
  ASSUME BadgesInv, NEW p \in Bd!Procs, NEW s, s = badgeCall[p].ops, s # <<>>,
         NEW op, op = Head(s)
  PROVE  /\ op \in BadgeOp /\ Bd!Now(p) = op
         /\ op.do \in {"read", "judge", "verdict", "owner", "finalize"} => Tail(s) = <<>>
         /\ op.do = "own" => \E b, c \in BadgeOp :
              Tail(s) = <<b, c>> /\ b.do = "put" /\ c.do = "read" /\ RowIsTrue(b.row)
         /\ op.do = "put" => /\ RowIsTrue(op.row)
                             /\ \/ Tail(s) = <<>>
                               \/ \E c \in BadgeOp : c.do = "read" /\ Tail(s) = <<c>>
         /\ op.do = "copy" => \E b \in BadgeOp :
              Tail(s) = <<b>> /\ b.do = "finalize" /\ b.file = op.file /\ b.status = "Clean"
         /\ op.do = "purge" => \E b \in BadgeOp :
              /\ Tail(s) = <<b>>
              /\ \/ b.do = "owner"
                 \/ /\ b.do = "finalize" /\ b.file = op.file /\ b.status = "Quarantined"
                    /\ Reconciles(s)
         /\ op.do \in {"judge", "copy", "finalize"} => Reconciles(s)
         /\ HeadIsTrue(s) /\ OfTheImage(s)
<1>1. Knows(s) /\ Program(s)
  BY DEF BadgesInv, BadgeCalls, Knows
<1>2. CASE Alone(s)
  <2>1. s = <<op>> /\ op \in BadgeOp /\ Tail(s) = <<>>
    BY <1>2 DEF Alone
  <2>2. /\ op.do \in {"put", "read", "judge", "verdict", "owner", "finalize"}
        /\ s[1] = op /\ 1 \in DOMAIN s
    BY <1>2, <2>1 DEF Alone
  <2> QED BY <1>1, <2>1, <2>2 DEF Knows, Bd!Now, Reconciles
<1>3. CASE Before(s)
  <2>1. PICK a, b \in BadgeOp :
          /\ s = <<a, b>>
          /\ \/ a.do = "put" /\ b.do = "read"
             \/ a.do = "copy" /\ b.do = "finalize" /\ b.file = a.file /\ b.status = "Clean"
             \/ a.do = "purge" /\ b.do = "finalize" /\ b.file = a.file /\ b.status = "Quarantined"
             \/ a.do = "purge" /\ b.do = "owner"
    BY <1>3 DEF Before
  <2>2. op = a /\ Tail(s) = <<b>> /\ s[1] = op /\ s[2] = b /\ 1 \in DOMAIN s
    BY <2>1
  <2> QED BY <1>1, <2>1, <2>2 DEF Knows, Bd!Now, Reconciles
<1>4. CASE Attaches(s)
  <2>1. PICK a, b, c \in BadgeOp : s = <<a, b, c>> /\ a.do = "own" /\ b.do = "put" /\ c.do = "read"
    BY <1>4 DEF Attaches
  <2>2. op = a /\ Tail(s) = <<b, c>> /\ s[2] = b /\ 2 \in DOMAIN s
    BY <2>1
  <2> QED BY <1>1, <2>1, <2>2 DEF Knows, Bd!Now
<1> QED BY <1>1, <1>2, <1>3, <1>4 DEF Program

-----------------------------------------------------------------------------
(* The steps. *)

LEMMA BdConcat ==
  /\ \A s \in Seq(BadgeOp) : <<>> \o s = s
  /\ \A a, b \in BadgeOp : <<a>> \o <<b>> = <<a, b>>
  /\ \A a, b \in BadgeOp : <<a, b>> \o <<>> = <<a, b>> /\ <<a>> \o <<>> = <<a>>
<1>1. \A s \in Seq(BadgeOp) : <<>> \o s = s
  OBVIOUS
<1>2. ASSUME NEW a \in BadgeOp, NEW b \in BadgeOp PROVE <<a>> \o <<b>> = <<a, b>>
  <2>1. <<a>> \in Seq(BadgeOp) /\ <<b>> \in Seq(BadgeOp) /\ <<a, b>> \in Seq(BadgeOp)
    OBVIOUS
  <2>2. Len(<<a>> \o <<b>>) = 2 /\ Len(<<a, b>>) = 2 /\ <<a>> \o <<b>> \in Seq(BadgeOp)
    BY <2>1
  <2>3. (<<a>> \o <<b>>)[1] = a /\ (<<a>> \o <<b>>)[2] = b
    BY <2>1
  <2>4. \A k \in 1..2 : (<<a>> \o <<b>>)[k] = <<a, b>>[k]
    BY <2>3
  <2> QED BY <2>1, <2>2, <2>4, SeqEqual
<1>3. \A a, b \in BadgeOp : <<a, b>> \o <<>> = <<a, b>>
  OBVIOUS
<1>4. \A a \in BadgeOp : <<a>> \o <<>> = <<a>>
  OBVIOUS
<1> QED BY <1>1, <1>2, <1>3, <1>4

\* What Then leaves of a process.
LEMMA BdThen ==
  ASSUME BadgesInv, NEW p \in Bd!Procs, NEW new \in Seq(BadgeOp), Bd!Then(p, new),
         NEW t, t = new \o Tail(badgeCall[p].ops), t \in Seq(BadgeOp)
  PROVE  \E n \in BadgeFiles \cup {NoBadge} :
           badgeCall' = [badgeCall EXCEPT ![p] = [ops |-> t, note |-> n]]
<1>1. PICK fr \in [ops : Seq(BadgeOp), note : BadgeFiles \cup {NoBadge}] : fr = badgeCall[p]
  BY DEF BadgesInv, BadgeCalls
<1>2. badgeCall' = [badgeCall EXCEPT ![p] = IF t = <<>> THEN Bd!Idle ELSE Bd!Frame(t, fr.note)]
  BY <1>1 DEF Bd!Then
<1> QED BY <1>1, <1>2 DEF Bd!Idle, Bd!Frame

\* What is made of an operation.
LEMMA BdOps ==
  /\ \A f \in BadgeFiles : \A do \in BadgeSteps :
       Bd!Op(do, f) \in BadgeOp /\ Bd!Op(do, f).do = do /\ Bd!Op(do, f).file = f
  /\ Bd!Op("read", NoBadge) \in BadgeOp /\ Bd!Op("read", NoBadge).do = "read"
  /\ \A row \in BadgeRow : Bd!Put(row) \in BadgeOp /\ Bd!Put(row).do = "put"
                          /\ Bd!Put(row).row = row
  /\ \A f \in BadgeFiles : \A st \in {"Clean", "Quarantined"} :
       /\ Bd!Final(f, st) \in BadgeOp
       /\ Bd!Final(f, st).do = "finalize" /\ Bd!Final(f, st).file = f /\ Bd!Final(f, st).status = st
<1>1. Bd!NoDefinition \in BadgeRow
  BY DEF Bd!NoDefinition, BadgeRow
<1> QED BY <1>1 DEF BadgeOp, BadgeSteps, Bd!Op, Bd!Put, Bd!Final

\* Programs of one and two steps.
LEMMA BdLone ==
  ASSUME NEW op \in BadgeOp, op.do \in {"put", "read", "judge", "verdict", "owner", "finalize"},
         op.do = "put" => RowIsTrue(op.row), HeadIsTrue(<<op>>), OfTheImage(<<op>>)
  PROVE  Knows(<<op>>) /\ <<op>> \in Seq(BadgeOp)
BY DEF Knows, Program, Alone

LEMMA BdPair ==
  ASSUME NEW a \in BadgeOp, NEW b \in BadgeOp, Program(<<a, b>>), b.do # "put",
         a.do = "put" => RowIsTrue(a.row), HeadIsTrue(<<a, b>>), OfTheImage(<<a, b>>)
  PROVE  Knows(<<a, b>>) /\ <<a, b>> \in Seq(BadgeOp)
<1>1. DOMAIN <<a, b>> = {1, 2} /\ <<a, b>>[1] = a /\ <<a, b>>[2] = b
  OBVIOUS
<1>2. \A k \in DOMAIN <<a, b>> : <<a, b>>[k].do = "put" => RowIsTrue(<<a, b>>[k].row)
  BY <1>1
<1> QED BY <1>2 DEF Knows

LEMMA BdPlain ==
  ASSUME NEW op \in BadgeOp, op.do \in {"read", "verdict", "owner"}
  PROVE  Knows(<<op>>) /\ <<op>> \in Seq(BadgeOp)
<1>1. Head(<<op>>) = op /\ HeadIsTrue(<<op>>) /\ OfTheImage(<<op>>)
  BY DEF HeadIsTrue, OfTheImage, Reconciles
<1> QED BY <1>1, BdLone

LEMMA BdIdle == Knows(<<>>) /\ <<>> \in Seq(BadgeOp)
BY DEF Knows, Program, OfTheImage, Reconciles

\* Only the calls change, or the notices.
LEMMA BdStill ==
  ASSUME BadgesInv, UNCHANGED <<definition, pointer, object, public, crossed, lingering>>,
         notices' \subseteq BadgeFiles
  PROVE  Grows /\ KeyStays /\ TablesAgree'
BY DEF BadgesInv, TablesAgree, BadgeTables, VerdictsStand, RowIsTrue, Clean, Infected, Gone,
       Grows, KeyStays

\* A process starts, or goes on, with a program whose facts hold already.
LEMMA BdBegins ==
  ASSUME BadgesInv, NEW p \in Bd!Procs, NEW t \in Seq(BadgeOp), Knows(t),
         NEW n \in BadgeFiles \cup {NoBadge}, Bd!Start(p, t, n),
         UNCHANGED <<definition, pointer, object, public, crossed, lingering>>,
         notices' \subseteq BadgeFiles
  PROVE  BadgesInv'
<1>1. Grows /\ KeyStays /\ TablesAgree'
  BY BdStill
<1>2. Knows(t)'
  BY <1>1, BdKnows
<1> QED BY <1>1, <1>2, BdMoves DEF Bd!Start, Bd!Frame

LEMMA BdGoesOn ==
  ASSUME BadgesInv, NEW p \in Bd!Procs, NEW new \in Seq(BadgeOp), Bd!Then(p, new),
         NEW t \in Seq(BadgeOp), t = new \o Tail(badgeCall[p].ops), Knows(t)',
         Grows, KeyStays, TablesAgree'
  PROVE  BadgesInv'
BY BdThen, BdMoves

-----------------------------------------------------------------------------
(* The actions. *)

LEMMA BdUploads ==
  ASSUME BadgesInv, NEW f \in BadgeFiles,
         Bd!Grant(f) \/ \E kind \in Bd!Kinds : Bd!Upload(f, kind)
  PROVE  BadgesInv'
<1> USE DEF BadgesInv, TablesAgree, BadgeTables
<1>1. CASE Bd!Grant(f)
  <2> USE <1>1 DEF Bd!Grant, Bd!store
  <2>1. \A g \in BadgeFiles : pointer'[g].verdict = pointer[g].verdict
    OBVIOUS
  <2>2. Grows /\ KeyStays
    BY <2>1 DEF Grows, KeyStays, Gone, Infected
  <2>3. BadgeTables'
    OBVIOUS
  <2>4. VerdictsStand' /\ (\A g \in public' : Clean(g)')
    BY <2>1 DEF VerdictsStand, Clean, Infected
  <2>5. RowIsTrue(definition)'
    BY <2>1 DEF RowIsTrue, Infected, Gone
  <2> QED BY <2>2, <2>3, <2>4, <2>5, BdRests
<1>2. ASSUME NEW kind \in Bd!Kinds, Bd!Upload(f, kind) PROVE BadgesInv'
  <2> USE <1>2 DEF Bd!Upload, Bd!rows
  <2>1. \A g \in BadgeFiles : pointer[g].verdict # "PendingScan" => object'[g] = object[g]
    OBVIOUS
  <2>2. Grows /\ KeyStays
    BY <2>1 DEF Grows, KeyStays, Gone, Infected
  <2>3. BadgeTables'
    OBVIOUS
  <2>4. VerdictsStand' /\ (\A g \in public' : Clean(g)')
    BY <2>1 DEF VerdictsStand, Clean, Infected
  <2>5. RowIsTrue(definition)'
    BY <2>1 DEF RowIsTrue, Infected, Gone
  <2> QED BY <2>2, <2>3, <2>4, <2>5, BdRests
<1> QED BY <1>1, <1>2

\* The program of a request that attaches an image to a row.
LEMMA BdAttach ==
  ASSUME NEW row \in BadgeRow, NEW f \in BadgeFiles
  PROVE  Knows(Bd!Attach(row, f)) /\ Bd!Attach(row, f) \in Seq(BadgeOp)
<1>1. /\ Bd!Attached(row, f) \in BadgeRow /\ Bd!Attached(row, f).status = "PendingScan"
  BY DEF Bd!Attached, BadgeRow
<1>2. PICK a, b, c \in BadgeOp :
        /\ a = Bd!Op("own", f) /\ b = Bd!Put(Bd!Attached(row, f)) /\ c = Bd!Op("read", NoBadge)
        /\ a.do = "own" /\ b.do = "put" /\ c.do = "read" /\ b.row = Bd!Attached(row, f)
  BY <1>1, BdOps DEF BadgeSteps
<1>3. Bd!Attach(row, f) = <<a, b, c>>
  BY <1>2 DEF Bd!Attach
<1>4. RowIsTrue(b.row)
  BY <1>1, <1>2 DEF RowIsTrue
<1>5. Program(<<a, b, c>>)
  BY <1>2 DEF Program, Attaches
<1>6. HeadIsTrue(<<a, b, c>>) /\ OfTheImage(<<a, b, c>>)
  BY <1>2 DEF HeadIsTrue, OfTheImage, Reconciles
<1> QED BY <1>2, <1>3, <1>4, <1>5, <1>6 DEF Knows

LEMMA BdPutRow ==
  ASSUME NEW row \in BadgeRow, RowIsTrue(row)
  PROVE  Knows(<<Bd!Put(row)>>) /\ <<Bd!Put(row)>> \in Seq(BadgeOp)
<1>1. PICK op \in BadgeOp : op = Bd!Put(row) /\ op.do = "put" /\ op.row = row
  BY BdOps
<1>2. HeadIsTrue(<<op>>) /\ OfTheImage(<<op>>)
  BY <1>1 DEF HeadIsTrue, OfTheImage, Reconciles
<1> QED BY <1>1, <1>2, BdLone

LEMMA BdRequests ==
  ASSUME BadgesInv, NEW p \in BadgeCallers, NEW f \in BadgeFiles \cup {NoBadge},
         Bd!CreateDefinition(p, f) \/ Bd!EditDefinition(p, f)
  PROVE  BadgesInv'
<1>1. p \in Bd!Procs
  BY DEF Bd!Procs
<1>2. PICK row \in BadgeRow, plain \in BadgeRow :
        /\ RowIsTrue(plain)
        /\ Bd!Start(p, IF f = NoBadge THEN <<Bd!Put(plain)>> ELSE Bd!Attach(row, f), NoBadge)
  <2>1. Bd!NoDefinition \in BadgeRow /\ [Bd!NoDefinition EXCEPT !.exists = TRUE] \in BadgeRow
        /\ [Bd!NoDefinition EXCEPT !.exists = TRUE].status = "None"
    BY DEF Bd!NoDefinition, BadgeRow
  <2>2. RowIsTrue([Bd!NoDefinition EXCEPT !.exists = TRUE])
    BY <2>1 DEF RowIsTrue
  <2>3. CASE Bd!CreateDefinition(p, f)
    BY <2>1, <2>2, <2>3 DEF Bd!CreateDefinition
  <2>4. CASE Bd!EditDefinition(p, f)
    BY <2>4 DEF Bd!EditDefinition, BadgesInv, TablesAgree, BadgeTables
  <2> QED BY <2>3, <2>4
<1>3. PICK t \in Seq(BadgeOp) : Knows(t) /\ Bd!Start(p, t, NoBadge)
  BY <1>2, BdAttach, BdPutRow
<1>4. /\ UNCHANGED <<definition, pointer, object, public, crossed, lingering>>
      /\ notices' \subseteq BadgeFiles
  BY DEF Bd!CreateDefinition, Bd!EditDefinition, Bd!rows, Bd!store, BadgesInv, TablesAgree,
         BadgeTables
<1> QED BY <1>1, <1>3, <1>4, BdBegins

LEMMA BdDelivers ==
  ASSUME BadgesInv, NEW p \in BadgeConsumers, NEW f \in notices, Bd!Deliver(p, f)
  PROVE  BadgesInv'
<1>1. p \in Bd!Procs /\ f \in BadgeFiles
  BY DEF Bd!Procs, BadgesInv, TablesAgree, BadgeTables
<1>2. PICK op \in BadgeOp : op = Bd!Op("verdict", f) /\ op.do = "verdict"
  BY <1>1, BdOps DEF BadgeSteps
<1>3. /\ UNCHANGED <<definition, pointer, object, public, crossed, lingering>>
      /\ notices' \subseteq BadgeFiles
  BY DEF Bd!Deliver, Bd!rows, BadgesInv, TablesAgree, BadgeTables
<1> QED BY <1>1, <1>2, <1>3, BdPlain, BdBegins DEF Bd!Deliver

LEMMA BdWatches ==
  ASSUME BadgesInv, Bd!Watch PROVE BadgesInv'
<1>1. BadgeWatchdog \in Bd!Procs
  BY DEF Bd!Procs
<1>2. PICK op \in BadgeOp : op = Bd!Op("read", NoBadge) /\ op.do = "read"
  BY BdOps
<1>3. /\ UNCHANGED <<definition, pointer, object, public, crossed, lingering>>
      /\ notices' \subseteq BadgeFiles
  BY DEF Bd!Watch, Bd!rows, Bd!store, BadgesInv, TablesAgree, BadgeTables
<1> QED BY <1>1, <1>2, <1>3, BdPlain, BdBegins DEF Bd!Watch

\* Steps that only read.
LEMMA BdReads ==
  ASSUME BadgesInv, NEW p \in Bd!Procs,
         Bd!ReadOwner(p) \/ Bd!ReadDefinition(p) \/ Bd!Judge(p)
  PROVE  BadgesInv'
<1>1. PICK s \in Seq(BadgeOp) : s = badgeCall[p].ops /\ s # <<>>
  BY DEF Bd!ReadOwner, Bd!ReadDefinition, Bd!Judge, Bd!Does, BadgesInv, BadgeCalls
<1>2. PICK op \in BadgeOp :
        /\ op = Head(s) /\ Bd!Now(p) = op /\ op.do \in {"owner", "read", "judge"}
        /\ Tail(s) = <<>> /\ (op.do = "judge" /\ ~crossed => op.file = definition.key)
  <2>1. Head(s).do \in {"owner", "read", "judge"}
    BY <1>1 DEF Bd!ReadOwner, Bd!ReadDefinition, Bd!Judge, Bd!Does
  <2> QED BY <1>1, <2>1, BdHeads DEF OfTheImage
<1>3. Grows /\ KeyStays /\ TablesAgree'
  <2>1. /\ UNCHANGED <<definition, pointer, object, public, crossed, lingering>>
        /\ notices' \subseteq BadgeFiles
    BY DEF Bd!ReadOwner, Bd!ReadDefinition, Bd!Judge, Bd!rows, Bd!store, BadgesInv, TablesAgree,
           BadgeTables
  <2> QED BY <2>1, BdStill
<1>4. \E t \in Seq(BadgeOp) : Knows(t) /\ Bd!Then(p, t)
  <2>1. CASE Bd!ReadOwner(p)
    <3>1. PICK next \in BadgeOp : next = Bd!Op("read", NoBadge) /\ next.do = "read"
      BY BdOps
    <3> QED BY <2>1, <3>1, BdPlain, BdIdle DEF Bd!ReadOwner
  <2>2. CASE Bd!ReadDefinition(p)
    <3>1. CASE definition.key = NoBadge \/ definition.promoted
      BY <2>2, <3>1, BdIdle DEF Bd!ReadDefinition
    <3>2. CASE ~(definition.key = NoBadge \/ definition.promoted)
      <4>1. definition.key \in BadgeFiles
        BY <3>2 DEF BadgesInv, TablesAgree, BadgeTables, BadgeRow
      <4>2. PICK next \in BadgeOp :
              /\ next = Bd!Op("judge", definition.key)
              /\ next.do = "judge" /\ next.file = definition.key
        BY <4>1, BdOps DEF BadgeSteps
      <4>3. HeadIsTrue(<<next>>) /\ OfTheImage(<<next>>)
        BY <4>2 DEF HeadIsTrue, OfTheImage
      <4> QED BY <2>2, <3>2, <4>2, <4>3, BdLone DEF Bd!ReadDefinition
    <3> QED BY <3>1, <3>2
  <2>3. CASE Bd!Judge(p)
    <3> DEFINE f == op.file
    <3>1. f \in BadgeFiles /\ op.do = "judge"
      BY <1>1, <1>2, <2>3 DEF BadgeOp, Bd!Judge, Bd!Does
    <3>2. CASE Infected(f)
      <4>1. PICK a, b \in BadgeOp :
              /\ a = Bd!Op("purge", f) /\ b = Bd!Final(f, "Quarantined")
              /\ a.do = "purge" /\ a.file = f
              /\ b.do = "finalize" /\ b.file = f /\ b.status = "Quarantined"
        BY <3>1, BdOps DEF BadgeSteps
      <4>2. Bd!Then(p, <<a, b>>)
        BY <1>2, <2>3, <3>2, <4>1 DEF Bd!Judge, Bd!Rejection, Infected
      <4>3. Program(<<a, b>>)
        BY <4>1 DEF Program, Before
      <4>4. HeadIsTrue(<<a, b>>) /\ OfTheImage(<<a, b>>)
        BY <1>2, <3>1, <3>2, <4>1 DEF HeadIsTrue, OfTheImage
      <4> QED BY <4>1, <4>2, <4>3, <4>4, BdPair
    <3>3. CASE Clean(f)
      <4>1. PICK a, b \in BadgeOp :
              /\ a = Bd!Op("copy", f) /\ b = Bd!Final(f, "Clean")
              /\ a.do = "copy" /\ a.file = f
              /\ b.do = "finalize" /\ b.file = f /\ b.status = "Clean"
        BY <3>1, BdOps DEF BadgeSteps
      <4>2. Bd!Then(p, <<a, b>>)
        BY <1>2, <2>3, <3>3, <4>1 DEF Bd!Judge, Bd!Promotion, Bd!Promotes, Clean
      <4>3. Program(<<a, b>>)
        BY <4>1 DEF Program, Before
      <4>4. HeadIsTrue(<<a, b>>) /\ OfTheImage(<<a, b>>)
        BY <1>2, <3>1, <3>3, <4>1 DEF HeadIsTrue, OfTheImage
      <4> QED BY <4>1, <4>2, <4>3, <4>4, BdPair
    <3>4. CASE ~Infected(f) /\ ~Clean(f)
      <4>1. Bd!Then(p, <<>>)
        BY <1>2, <2>3, <3>4 DEF Bd!Judge, Bd!Promotes, Clean, Infected
      <4> QED BY <4>1, BdIdle
    <3> QED BY <3>2, <3>3, <3>4
  <2> QED BY <2>1, <2>2, <2>3
<1>5. PICK t \in Seq(BadgeOp) : Knows(t) /\ Bd!Then(p, t)
  BY <1>4
<1>6. t = t \o Tail(badgeCall[p].ops)
  BY <1>1, <1>2, ConcatEmptySeq
<1>7. Knows(t)'
  BY <1>3, <1>5, BdKnows DEF Bd!ReadOwner, Bd!ReadDefinition, Bd!Judge, Bd!rows
<1> QED BY <1>3, <1>5, <1>6, <1>7, BdGoesOn

\* The rest of a program, where a step has been made.
LEMMA BdRest ==
  ASSUME BadgesInv, NEW p \in Bd!Procs, NEW s, s = badgeCall[p].ops, s # <<>>
  PROVE  Tail(s) \in Seq(BadgeOp) /\ Tail(s) = <<>> \o Tail(s)
<1>1. s \in Seq(BadgeOp)
  BY DEF BadgesInv, BadgeCalls
<1> QED BY <1>1, ConcatEmptySeq

LEMMA BdOwns == ASSUME BadgesInv, NEW p \in Bd!Procs, Bd!RecordOwner(p) PROVE BadgesInv'
<1>1. PICK s \in Seq(BadgeOp) : s = badgeCall[p].ops /\ s # <<>> /\ Head(s).do = "own"
  BY DEF Bd!RecordOwner, Bd!Does, BadgesInv, BadgeCalls
<1>2. PICK op \in BadgeOp : op = Head(s) /\ Bd!Now(p) = op /\ op.file \in BadgeFiles
  BY <1>1, BdHeads DEF BadgeOp
<1>3. PICK b, c \in BadgeOp :
        Tail(s) = <<b, c>> /\ b.do = "put" /\ c.do = "read" /\ RowIsTrue(b.row)
  BY <1>1, BdHeads
<1>4. Knows(Tail(s))
  <2>1. HeadIsTrue(<<b, c>>) /\ OfTheImage(<<b, c>>) /\ Program(<<b, c>>)
    BY <1>3 DEF HeadIsTrue, OfTheImage, Reconciles, Program, Before
  <2> QED BY <1>3, <2>1, BdPair
<1>5. \A g \in BadgeFiles : pointer'[g].verdict = pointer[g].verdict
  BY <1>2 DEF Bd!RecordOwner, BadgesInv, TablesAgree, BadgeTables
<1>6. UNCHANGED <<definition, object, public, notices, crossed, lingering>>
  BY DEF Bd!RecordOwner, Bd!store
<1>7. Grows /\ KeyStays
  BY <1>5, <1>6 DEF Grows, KeyStays, Gone, Infected
<1>8. TablesAgree'
  <2>1. BadgeTables'
    BY <1>2, <1>6 DEF Bd!RecordOwner, BadgesInv, TablesAgree, BadgeTables
  <2>2. VerdictsStand' /\ (\A g \in public' : Clean(g)')
    BY <1>5, <1>6 DEF VerdictsStand, Clean, Infected, BadgesInv, TablesAgree, BadgeTables
  <2>3. RowIsTrue(definition)'
    BY <1>5, <1>6 DEF RowIsTrue, Infected, Gone, BadgesInv, TablesAgree
  <2> QED BY <2>1, <2>2, <2>3 DEF TablesAgree
<1>9. Knows(Tail(s))'
  BY <1>4, <1>6, <1>7, BdKnows
<1> QED BY <1>1, <1>7, <1>8, <1>9, BdRest, BdIdle, BdGoesOn DEF Bd!RecordOwner

LEMMA BdPuts == ASSUME BadgesInv, NEW p \in Bd!Procs, Bd!PutDefinition(p) PROVE BadgesInv'
<1>1. PICK s \in Seq(BadgeOp) : s = badgeCall[p].ops /\ s # <<>> /\ Head(s).do = "put"
  BY DEF Bd!PutDefinition, Bd!Does, BadgesInv, BadgeCalls
<1>2. PICK op \in BadgeOp :
        op = Head(s) /\ Bd!Now(p) = op /\ RowIsTrue(op.row) /\ op.row \in BadgeRow
  BY <1>1, BdHeads DEF BadgeOp
<1>3. /\ definition' = op.row /\ UNCHANGED <<pointer, object, public, notices, lingering>>
      /\ crossed' = (crossed \/ (Bd!Reconciling /\ definition.key # op.row.key))
  BY <1>2 DEF Bd!PutDefinition, Bd!store
<1>4. Knows(Tail(s)) /\ ~Reconciles(Tail(s))
  <2>1. Tail(s) = <<>> \/ \E c \in BadgeOp : c.do = "read" /\ Tail(s) = <<c>>
    BY <1>1, BdHeads
  <2>2. ASSUME NEW c \in BadgeOp, c.do = "read" PROVE Knows(<<c>>) /\ ~Reconciles(<<c>>)
    BY <2>2, BdPlain DEF Reconciles
  <2> QED BY <2>1, <2>2, BdIdle DEF Reconciles
<1>5. Grows /\ KeyStays
  BY <1>3 DEF Grows, KeyStays, Gone, Infected
<1>6. TablesAgree'
  <2>1. BadgeTables'
    BY <1>2, <1>3 DEF BadgesInv, TablesAgree, BadgeTables
  <2>2. VerdictsStand' /\ (\A g \in public' : Clean(g)')
    BY <1>3 DEF VerdictsStand, Clean, Infected, BadgesInv, TablesAgree
  <2>3. RowIsTrue(definition)'
    BY <1>2, <1>3, <1>5, BdRows
  <2> QED BY <2>1, <2>2, <2>3 DEF TablesAgree
<1>7. Knows(Tail(s))'
  BY <1>4, <1>5, BdKnows
<1> QED BY <1>1, <1>5, <1>6, <1>7, BdRest, BdIdle, BdGoesOn DEF Bd!PutDefinition

LEMMA BdRecords == ASSUME BadgesInv, NEW p \in Bd!Procs, Bd!RecordVerdict(p) PROVE BadgesInv'
<1>1. PICK s \in Seq(BadgeOp) : s = badgeCall[p].ops /\ s # <<>> /\ Head(s).do = "verdict"
  BY DEF Bd!RecordVerdict, Bd!Does, BadgesInv, BadgeCalls
<1>2. PICK op \in BadgeOp :
        op = Head(s) /\ Bd!Now(p) = op /\ op.file \in BadgeFiles /\ Tail(s) = <<>>
  BY <1>1, BdHeads DEF BadgeOp
<1> DEFINE f == op.file
           v == Bd!VerdictOn(object[f])
<1>3. /\ pointer' = [pointer EXCEPT ![f].verdict = v]
      /\ Bd!Then(p, (IF v = "Quarantined" THEN <<Bd!Op("purge", f)>> ELSE <<>>)
                      \o <<Bd!Op("owner", f)>>)
      /\ UNCHANGED <<definition, object, public, notices, crossed, lingering>>
  BY <1>2 DEF Bd!RecordVerdict, Bd!store
<1>4. v \in {"Clean", "Quarantined"} /\ (v = "Clean" <=> object[f] = "clean")
  BY DEF Bd!VerdictOn
<1>5. /\ \A g \in BadgeFiles : g # f => pointer'[g] = pointer[g]
      /\ pointer'[f].verdict = v
  BY <1>2, <1>3 DEF BadgesInv, TablesAgree, BadgeTables
<1>6. pointer[f].verdict # "PendingScan" => v = pointer[f].verdict
  BY <1>2, <1>4 DEF BadgesInv, TablesAgree, BadgeTables, VerdictsStand, Clean, Infected
<1> HIDE DEF v
<1>7. Grows /\ KeyStays
  BY <1>2, <1>3, <1>5, <1>6 DEF Grows, KeyStays, Gone, Infected
<1>8. TablesAgree'
  <2>1. BadgeTables'
    BY <1>2, <1>3, <1>4 DEF BadgesInv, TablesAgree, BadgeTables
  <2>2. VerdictsStand'
    BY <1>2, <1>3, <1>4, <1>5 DEF VerdictsStand, Clean, Infected, BadgesInv, TablesAgree
  <2>3. \A g \in public' : Clean(g)'
    BY <1>3, <1>5, <1>6 DEF Clean, BadgesInv, TablesAgree, BadgeTables
  <2>4. RowIsTrue(definition)'
    BY <1>3, <1>7, BdRows DEF BadgesInv, TablesAgree
  <2> QED BY <2>1, <2>2, <2>3, <2>4 DEF TablesAgree
<1>9. PICK a, b \in BadgeOp :
        /\ a = Bd!Op("purge", f) /\ a.do = "purge" /\ a.file = f
        /\ b = Bd!Op("owner", f) /\ b.do = "owner"
  BY <1>2, BdOps DEF BadgeSteps
<1>10. CASE v = "Quarantined"
  <2>1. <<a>> \o <<b>> = <<a, b>> /\ Bd!Then(p, <<a, b>>)
    BY <1>3, <1>9, <1>10, BdConcat
  <2>2. Program(<<a, b>>)
    BY <1>9 DEF Program, Before
  <2>3. HeadIsTrue(<<a, b>>)' /\ OfTheImage(<<a, b>>)'
    BY <1>5, <1>9, <1>10 DEF HeadIsTrue, OfTheImage, Reconciles, Infected
  <2>4. Knows(<<a, b>>)' /\ <<a, b>> \in Seq(BadgeOp)
    <3>1. DOMAIN <<a, b>> = {1, 2} /\ <<a, b>>[1] = a /\ <<a, b>>[2] = b
      OBVIOUS
    <3>2. \A k \in DOMAIN <<a, b>> : <<a, b>>[k].do # "put"
      BY <3>1, <1>9
    <3> QED BY <2>2, <2>3, <3>2 DEF Knows, Program, Alone, Before, Attaches
  <2>5. <<a, b>> = <<a, b>> \o Tail(s)
    BY <1>2, <2>4, ConcatEmptySeq
  <2> QED BY <1>1, <1>7, <1>8, <2>1, <2>4, <2>5, BdGoesOn
<1>11. CASE v # "Quarantined"
  <2>1. <<>> \o <<b>> = <<b>> /\ Bd!Then(p, <<b>>)
    BY <1>3, <1>9, <1>11, BdConcat
  <2>2. Knows(<<b>>) /\ ~Reconciles(<<b>>) /\ <<b>> \in Seq(BadgeOp)
    BY <1>9, BdPlain DEF Reconciles
  <2>3. Knows(<<b>>)'
    BY <1>7, <2>2, BdKnows
  <2>4. <<b>> = <<b>> \o Tail(s)
    BY <1>2, <2>2, ConcatEmptySeq
  <2> QED BY <1>1, <1>7, <1>8, <2>1, <2>2, <2>3, <2>4, BdGoesOn
<1> QED BY <1>10, <1>11

\* A reconciliation comes to its last step.
LEMMA BdComes ==
  ASSUME BadgesInv, NEW p \in Bd!Procs, NEW s, s = badgeCall[p].ops, s # <<>>, Reconciles(s),
         NEW op \in BadgeOp, op = Head(s), UNCHANGED <<definition, crossed>>,
         NEW b \in BadgeOp, Tail(s) = <<b>>, b.do = "finalize", b.file = op.file,
         \/ b.status = "Clean" /\ b.file \in public'
         \/ b.status = "Quarantined" /\ Infected(b.file)' /\ Gone(b.file)'
  PROVE  Knows(Tail(s))'
<1>1. OfTheImage(s)
  BY BdHeads
<1>2. HeadIsTrue(<<b>>)' /\ OfTheImage(<<b>>)'
  BY <1>1 DEF HeadIsTrue, OfTheImage, Infected
<1>3. Program(<<b>>)' /\ \A k \in DOMAIN <<b>> : <<b>>[k].do # "put"
  BY DEF Program, Alone
<1> QED BY <1>2, <1>3 DEF Knows

LEMMA BdCopies == ASSUME BadgesInv, NEW p \in Bd!Procs, Bd!CopyImage(p) PROVE BadgesInv'
<1>1. PICK s \in Seq(BadgeOp) : s = badgeCall[p].ops /\ s # <<>> /\ Head(s).do = "copy"
  BY DEF Bd!CopyImage, Bd!Does, BadgesInv, BadgeCalls
<1>2. PICK op \in BadgeOp : /\ op = Head(s) /\ Bd!Now(p) = op /\ op.file \in BadgeFiles
                            /\ Clean(op.file) /\ Reconciles(s)
  BY <1>1, BdHeads DEF BadgeOp, HeadIsTrue
<1>3. PICK b \in BadgeOp :
        Tail(s) = <<b>> /\ b.do = "finalize" /\ b.file = op.file /\ b.status = "Clean"
  BY <1>1, <1>2, BdHeads
<1>4. /\ public' = public \cup {op.file}
      /\ UNCHANGED <<definition, pointer, object, notices, crossed, lingering>>
  BY <1>2 DEF Bd!CopyImage, Bd!rows
<1>5. Grows /\ KeyStays
  BY <1>4 DEF Grows, KeyStays, Gone, Infected
<1>6. TablesAgree'
  <2>1. BadgeTables' /\ VerdictsStand' /\ (\A g \in public' : Clean(g)')
    BY <1>2, <1>4 DEF BadgesInv, TablesAgree, BadgeTables, VerdictsStand, Clean, Infected
  <2>2. RowIsTrue(definition)'
    BY <1>4, <1>5, BdRows DEF BadgesInv, TablesAgree
  <2> QED BY <2>1, <2>2 DEF TablesAgree
<1>7. Knows(Tail(s))'
  BY <1>1, <1>2, <1>3, <1>4, BdComes
<1> QED BY <1>1, <1>5, <1>6, <1>7, BdRest, BdIdle, BdGoesOn DEF Bd!CopyImage

LEMMA BdPurges ==
  ASSUME BadgesInv, NEW p \in Bd!Procs, Bd!PurgeObject(p) \/ Bd!PurgeFails(p) PROVE BadgesInv'
<1>1. PICK s \in Seq(BadgeOp) : s = badgeCall[p].ops /\ s # <<>> /\ Head(s).do = "purge"
  BY DEF Bd!PurgeObject, Bd!PurgeFails, Bd!Does, BadgesInv, BadgeCalls
<1>2. PICK op \in BadgeOp : /\ op = Head(s) /\ Bd!Now(p) = op /\ op.file \in BadgeFiles
                            /\ Infected(op.file)
  BY <1>1, BdHeads DEF BadgeOp, HeadIsTrue
<1>3. PICK b \in BadgeOp :
        /\ Tail(s) = <<b>>
        /\ \/ b.do = "owner"
           \/ b.do = "finalize" /\ b.file = op.file /\ b.status = "Quarantined" /\ Reconciles(s)
  BY <1>1, <1>2, BdHeads
<1>4. /\ UNCHANGED <<definition, pointer, public, notices, crossed>> /\ Bd!Then(p, <<>>)
      /\ \/ object' = [object EXCEPT ![op.file] = "none"] /\ UNCHANGED lingering
         \/ lingering' = lingering \cup {op.file} /\ UNCHANGED object
  BY <1>2 DEF Bd!PurgeObject, Bd!PurgeFails, Bd!rows, Bd!store
<1>5. Gone(op.file)' /\ \A g \in BadgeFiles : /\ g # op.file => object'[g] = object[g]
                                              /\ Gone(g) => Gone(g)'
                                              /\ object'[g] \in {object[g], "none"}
  BY <1>2, <1>4 DEF Gone, BadgesInv, TablesAgree, BadgeTables
<1>6. Grows /\ KeyStays
  BY <1>4, <1>5 DEF Grows, KeyStays, Infected
<1>7. TablesAgree'
  <2>1. BadgeTables' /\ (\A g \in public' : Clean(g)')
    BY <1>2, <1>4 DEF BadgesInv, TablesAgree, BadgeTables, Clean
  <2>2. VerdictsStand'
    BY <1>2, <1>4, <1>5 DEF BadgesInv, TablesAgree, BadgeTables, VerdictsStand, Clean, Infected
  <2>3. RowIsTrue(definition)'
    BY <1>4, <1>6, BdRows DEF BadgesInv, TablesAgree
  <2> QED BY <2>1, <2>2, <2>3 DEF TablesAgree
<1>8. Knows(Tail(s))'
  <2>1. CASE b.do = "owner"
    <3>1. Knows(<<b>>) /\ ~Reconciles(<<b>>)
      <4>1. Head(<<b>>) = b
        OBVIOUS
      <4> QED BY <2>1, <4>1, BdPlain DEF Reconciles
    <3>2. Knows(<<b>>)'
      BY <1>6, <3>1, BdKnows
    <3> QED BY <1>3, <3>2
  <2>2. CASE b.do # "owner"
    <3>1. Infected(b.file)' /\ Gone(b.file)'
      BY <1>2, <1>3, <1>4, <1>5, <2>2 DEF Infected
    <3> QED BY <1>1, <1>2, <1>3, <1>4, <2>2, <3>1, BdComes
  <2> QED BY <2>1, <2>2
<1> QED BY <1>1, <1>4, <1>6, <1>7, <1>8, BdRest, BdIdle, BdGoesOn

LEMMA BdFinalizes == ASSUME BadgesInv, NEW p \in Bd!Procs, Bd!FinalizeBadge(p) PROVE BadgesInv'
<1>1. PICK s \in Seq(BadgeOp) : s = badgeCall[p].ops /\ s # <<>> /\ Head(s).do = "finalize"
  BY DEF Bd!FinalizeBadge, Bd!Does, BadgesInv, BadgeCalls
<1>2. PICK op \in BadgeOp :
        /\ op = Head(s) /\ Bd!Now(p) = op /\ op.file \in BadgeFiles /\ Tail(s) = <<>>
        /\ \/ op.status = "Clean" /\ op.file \in public
           \/ op.status = "Quarantined" /\ Infected(op.file) /\ Gone(op.file)
        /\ ~crossed => op.file = definition.key
  BY <1>1, BdHeads DEF BadgeOp, HeadIsTrue, OfTheImage
<1>3. PICK row \in BadgeRow : row = definition /\ RowIsTrue(row)
  BY DEF BadgesInv, TablesAgree, BadgeTables
<1>4. /\ definition' = Bd!Finalized(op)
      /\ UNCHANGED <<pointer, object, public, notices, crossed, lingering>> /\ Bd!Then(p, <<>>)
  BY <1>2 DEF Bd!FinalizeBadge, Bd!store
<1>5. PICK new \in BadgeRow :
        /\ new = Bd!Finalized(op) /\ new.key = row.key
        /\ \/ new = row
           \/ new.status = op.status /\ (op.status = "Clean" => new.url = op.file)
  <2>1. CASE definition.exists /\ ~definition.promoted
    <3> DEFINE show == IF op.status = "Clean" THEN op.file ELSE row.url
               new == [row EXCEPT !.status = op.status, !.promoted = TRUE, !.url = show]
    <3>1. new \in BadgeRow
      BY <1>2, <1>3 DEF BadgeRow
    <3>2. Bd!Finalized(op) = new
      BY <1>3, <2>1 DEF Bd!Finalized
    <3>3. new.key = row.key /\ new.status = op.status /\ (op.status = "Clean" => new.url = op.file)
      BY <1>3 DEF BadgeRow
    <3> QED BY <3>1, <3>2, <3>3
  <2>2. CASE ~(definition.exists /\ ~definition.promoted)
    BY <1>3, <2>2 DEF Bd!Finalized
  <2> QED BY <2>1, <2>2
<1>6. Grows /\ KeyStays
  BY <1>3, <1>4, <1>5 DEF Grows, KeyStays, Gone, Infected
<1>7. RowIsTrue(new)
  BY <1>2, <1>3, <1>5 DEF RowIsTrue
<1>8. TablesAgree'
  <2>1. BadgeTables' /\ VerdictsStand' /\ (\A g \in public' : Clean(g)')
    BY <1>4, <1>5 DEF BadgesInv, TablesAgree, BadgeTables, VerdictsStand, Clean, Infected
  <2>2. RowIsTrue(definition)'
    BY <1>4, <1>5, <1>6, <1>7, BdRows
  <2> QED BY <2>1, <2>2 DEF TablesAgree
<1>9. Knows(<<>>)'
  BY DEF Knows, Program, OfTheImage, Reconciles
<1>10. <<>> = <<>> \o Tail(s) /\ <<>> \in Seq(BadgeOp)
  BY <1>2
<1> QED BY <1>1, <1>4, <1>6, <1>8, <1>9, <1>10, BdGoesOn

LEMMA BdStops ==
  ASSUME BadgesInv, NEW p \in Bd!Procs, Bd!CopyFails(p) \/ Bd!Dies(p) PROVE BadgesInv'
<1>1. /\ UNCHANGED <<definition, pointer, object, public, crossed, lingering>>
      /\ notices' \subseteq BadgeFiles /\ badgeCall' = [badgeCall EXCEPT ![p] = Bd!Idle]
  BY DEF Bd!CopyFails, Bd!Dies, Bd!rows, Bd!store, BadgesInv, TablesAgree, BadgeTables, BadgeCalls
<1>2. Grows /\ KeyStays /\ TablesAgree'
  BY <1>1, BdStill
<1>3. Knows(<<>>)' /\ <<>> \in Seq(BadgeOp)
  BY DEF Knows, Program, OfTheImage, Reconciles
<1> QED BY <1>1, <1>2, <1>3, BdMoves DEF Bd!Idle, Bd!Frame

LEMMA BdPreserved == BadgesInv /\ [Bd!Next]_(Bd!vars) => BadgesInv'
<1> SUFFICES ASSUME BadgesInv, [Bd!Next]_(Bd!vars) PROVE BadgesInv'
  OBVIOUS
<1>1. CASE UNCHANGED Bd!vars
  <2>1. /\ UNCHANGED <<definition, pointer, object, public, notices, crossed, lingering>>
        /\ UNCHANGED badgeCall /\ notices' \subseteq BadgeFiles
    BY <1>1 DEF Bd!vars, Bd!rows, Bd!store, BadgesInv, TablesAgree, BadgeTables
  <2> QED BY <2>1, BdStill, BdRests
<1>2. CASE \E f \in BadgeFiles : Bd!Grant(f) \/ \E kind \in Bd!Kinds : Bd!Upload(f, kind)
  BY <1>2, BdUploads
<1>3. CASE \E p \in BadgeCallers, f \in BadgeFiles \cup {NoBadge} :
             Bd!CreateDefinition(p, f) \/ Bd!EditDefinition(p, f)
  BY <1>3, BdRequests
<1>4. CASE \E p \in BadgeConsumers, f \in notices : Bd!Deliver(p, f)
  BY <1>4, BdDelivers
<1>5. CASE Bd!Watch
  BY <1>5, BdWatches
<1>6. ASSUME NEW p \in Bd!Procs, Bd!Step(p) PROVE BadgesInv'
  BY <1>6, BdReads, BdOwns, BdPuts, BdRecords, BdCopies, BdPurges, BdFinalizes DEF Bd!Step
<1>7. ASSUME NEW p \in Bd!Procs, Bd!CopyFails(p) \/ Bd!PurgeFails(p) \/ Bd!Dies(p)
      PROVE  BadgesInv'
  BY <1>7, BdPurges, BdStops
<1> QED BY <1>1, <1>2, <1>3, <1>4, <1>5, <1>6, <1>7 DEF Bd!Next

LEMMA BdImplied == BadgesInv => Bd!BadgesHold
<1> SUFFICES ASSUME BadgesInv PROVE Bd!BadgesHold
  OBVIOUS
<1> USE DEF BadgesInv, TablesAgree
<1>1. Bd!TypeOK
  BY DEF BadgeTables, BadgeRow, Bd!TypeOK
<1>2. Bd!OnlyCleanIsPublic
  BY DEF Bd!OnlyCleanIsPublic, BadgeTables, VerdictsStand, Clean
<1>3. Bd!ShownCanBeFetched /\ Bd!BadgeIsItsImageUncrossed /\ Bd!InfectedIsGone
  BY DEF Bd!ShownCanBeFetched, Bd!BadgeIsItsImageUncrossed, Bd!Decided, Bd!InfectedIsGone,
         RowIsTrue, Infected, Gone
<1> QED BY <1>1, <1>2, <1>3 DEF Bd!BadgesHold

\* In whatever order grants, verdicts, edits, reconciliations and the watchdog come, and whoever
\* dies: only clean images are public, a badge that is shown was copied and is the image attached
\* last unless the image changed during a reconciliation, and an infected one is gone unless its
\* purge failed (promote_badge, reconcile_badge).
THEOREM BadgesAlwaysHold == Bd!Spec => [](Bd!BadgesHold /\ BadgesHold)
<1>1. Bd!Init => BadgesInv
  BY BdInit
<1>2. BadgesInv /\ [Bd!Next]_(Bd!vars) => BadgesInv'
  BY BdPreserved
<1>3. BadgesInv => Bd!BadgesHold /\ BadgesHold
  BY BdImplied DEF BadgesHold
<1> QED BY <1>1, <1>2, <1>3, PTL DEF Bd!Spec

-----------------------------------------------------------------------------
(* The batch of jobs.                                                        *)
(*                                                                           *)
(* Batches are numbered in the order they are begun, the order of the jobs   *)
(* is one of different jobs, and a job has a step at least: JOB_ORDER and    *)
(* JOB_REGISTRY.                                                             *)

JobsAssumption ==
  /\ JobBatches \subseteq Nat /\ NoJobBatch \notin JobBatches
  /\ JobOrder \in Seq(Jb!JobNames) /\ JobOrder # <<>>
  /\ \A i, k \in DOMAIN JobOrder : JobOrder[i] = JobOrder[k] => i = k
  /\ JobSteps \in [Jb!JobNames -> Nat \ {0}]

JobCount == Len(JobOrder)
LastOp == 2 * JobCount + 3

\* The writes of a runner that has an outcome, and what is left of them.
Outcome ==
  {<<>>, <<"run", "last", "record">>, <<"last", "record">>, <<"record">>, <<"return">>}
JobWork ==
  [state : {"none", "running", "finalising", "ended"}, todo : Seq(Jb!JobNames), step : Nat,
   done : SUBSET Nat, writes : Outcome, status : {"none", "completed", "failed"}, tries : Nat]
JobBatch ==
  [status : {"none", "running", "completed", "failed"}, jobs : [Jb!JobNames -> Jb!Statuses],
   index : 0..JobCount]

JobTables ==
  /\ run \in [JobBatches -> [Jb!JobNames -> Jb!Statuses]]
  /\ last \in [Jb!JobNames -> [batch : JobBatches \cup {NoJobBatch}, status : Jb!Statuses]]
  /\ batch \in [JobBatches -> JobBatch]
  /\ active \in JobBatches \cup {NoJobBatch} /\ stranded \subseteq JobBatches
  /\ exec \in [JobBatches -> JobWork]
  /\ did \in [JobBatches -> [Jb!JobNames -> SUBSET Nat]]
  /\ DOMAIN starting = Starters /\ raced \in BOOLEAN /\ jobDied \in BOOLEAN

\* No request overlapped another, or a finalisation, and none stopped half-way.
Orderly == ~raced /\ stranded = {}

-----------------------------------------------------------------------------
(* A request.                                                                *)

\* Its operations from the k-th one.
Rest(b, k) == SubSeq(Jb!StartOps(b), k, LastOp)

\* The runs before the k-th operation are queued, unless a call closed them.
QueuedTo(b, k) ==
  \A i \in 1..JobCount :
    /\ 2 * i > k => run[b][JobOrder[i]] = "none"
    /\ 2 * i <= k => /\ run[b][JobOrder[i]] # "none"
                     /\ run[b][JobOrder[i]] = "queued" \/ <<b, JobOrder[i]>> \in called

\* c has begun b, and is before its k-th operation.
Begins(c, b, k) ==
  /\ starting[c] = Rest(b, k) /\ QueuedTo(b, k)
  /\ k > 2 * JobCount + 1 => batch[b].status = "running"
  /\ k = LastOp /\ Orderly => active = b

\* c was refused the execution of b.
Refused(c, b) ==
  /\ starting[c] = <<Jb!Op("clear", b, JobOrder[1])>>
  /\ \A j \in Jb!JobNames : run[b][j] # "none"

Starts(c) ==
  starting[c] # <<>> =>
    \E b \in JobBatches :
      exec[b] = Jb!NoWork /\ (Refused(c, b) \/ \E k \in 1..LastOp : Begins(c, b, k))

\* No two requests have one batch.
StartsApart ==
  \A c, d \in Starters :
    starting[c] # <<>> /\ starting[d] # <<>> /\ c # d => starting[c][1].b # starting[d][1].b

-----------------------------------------------------------------------------
(* An execution.                                                             *)

\* The batch tells what became of the jobs before the m-th.
ToldTo(b, m) ==
  jobDied \/ \A i \in 1..JobCount :
    i < m => \/ <<b, JobOrder[i]>> \in called
             \/ /\ batch[b].jobs[JobOrder[i]] = run[b][JobOrder[i]]
                /\ run[b][JobOrder[i]] \in Jb!Closed

\* What the runner has done of job j, by what it has still to write.
AtWork(b, j) ==
  LET w == exec[b] IN
  /\ w.writes = <<>> => w.done = 1..w.step /\ w.step < JobSteps[j] /\ w.status = "none"
  /\ w.writes # <<>> => w.status \in Jb!Closed
  /\ w.status = "completed" => w.done = 1..JobSteps[j]
  /\ w.writes \in {<<"last", "record">>, <<"record">>, <<"return">>} =>
       <<b, j>> \in called \/ run[b][j] = w.status
  /\ w.writes = <<"return">> => batch[b].jobs[j] = w.status

Executes(b) ==
  /\ exec[b].state = "none" => exec[b] = Jb!NoWork
  /\ exec[b].state # "none" => \A j \in Jb!JobNames : run[b][j] # "none"
  /\ exec[b].state = "finalising" => exec[b].todo = <<>>
  /\ exec[b].state = "running" =>
       \E m \in 1..(JobCount + 1) :
         /\ exec[b].todo = SubSeq(JobOrder, m, JobCount) /\ ToldTo(b, m)
         /\ IF m > JobCount THEN exec[b].writes = <<>> ELSE AtWork(b, JobOrder[m])
  /\ batch[b].status = "completed" =>
       exec[b].state \in {"finalising", "ended"} /\ ToldTo(b, JobCount + 1)

-----------------------------------------------------------------------------
(* One at a time.                                                            *)
Moves(b) ==
  \/ exec[b].state = "running"
  \/ \E c \in Starters : starting[c] # <<>> /\ starting[c][1].b = b

InTurn ==
  /\ \A c, d \in Starters : starting[c] # <<>> /\ starting[d] # <<>> => c = d
  /\ \A c \in Starters, b \in JobBatches :
       starting[c] # <<>> => exec[b].state \notin {"running", "finalising"}
  /\ \A b \in JobBatches :
       exec[b].state = "running" => /\ active = b /\ batch[b].status = "running"
                                    /\ \A a \in JobBatches : exec[a].state # "finalising"
  /\ \A b \in JobBatches : Moves(b) =>
       \A a \in JobBatches, j \in Jb!JobNames : a > b => run[a][j] = "none"
  /\ \A a, b \in JobBatches : Jb!Used(a) /\ b < a => Jb!Used(b)

JobsInv ==
  /\ JobTables /\ StartsApart
  /\ \A c \in Starters : Starts(c)
  /\ \A b \in JobBatches : Executes(b)
  /\ Jb!CompletedDidItsWork /\ Jb!ProgressIsTrue /\ Jb!LastRunIsNewest
  /\ Orderly => InTurn

-----------------------------------------------------------------------------
LEMMA JbOrder ==
  ASSUME JobsAssumption
  PROVE  /\ JobCount \in Nat /\ JobCount >= 1 /\ LastOp \in Nat
         /\ DOMAIN JobOrder = 1..JobCount
         /\ \A i \in 1..JobCount : JobOrder[i] \in Jb!JobNames
         /\ \A j \in Jb!JobNames : \E i \in 1..JobCount : j = JobOrder[i]
         /\ \A i, k \in 1..JobCount : JobOrder[i] = JobOrder[k] => i = k
<1>1. JobOrder \in Seq(Jb!JobNames) /\ JobOrder # <<>>
  BY DEF JobsAssumption
<1>2. DOMAIN JobOrder = 1..JobCount /\ JobCount \in Nat
  BY <1>1, LenProperties DEF JobCount
<1>3. JobCount >= 1
  BY <1>1, <1>2, EmptySeq DEF JobCount
<1>4. Jb!JobNames = {JobOrder[i] : i \in DOMAIN JobOrder}
  BY DEF Jb!JobNames, Jb!Range
<1>5. \A i \in 1..JobCount : JobOrder[i] \in Jb!JobNames
  BY <1>2, <1>4
<1>6. \A j \in Jb!JobNames : \E i \in 1..JobCount : j = JobOrder[i]
  BY <1>2, <1>4
<1> QED BY <1>2, <1>3, <1>5, <1>6 DEF JobsAssumption, LastOp

\* How many of a set of jobs there can be.
LEMMA JbCounts ==
  ASSUME JobsAssumption, NEW S \in SUBSET Jb!JobNames
  PROVE  Cardinality(S) \in 0..JobCount
<1>1. JobOrder \in Surjection(1..JobCount, Jb!JobNames)
  <2>1. JobOrder \in [1..JobCount -> Jb!JobNames]
    BY LenProperties DEF JobsAssumption, JobCount
  <2>2. \A j \in Jb!JobNames : \E i \in 1..JobCount : JobOrder[i] = j
    BY JbOrder
  <2> QED BY <2>1, <2>2 DEF Surjection
<1>2. IsFiniteSet(1..JobCount) /\ Cardinality(1..JobCount) = JobCount
  BY JbOrder, FS_Interval
<1>3. IsFiniteSet(Jb!JobNames) /\ Cardinality(Jb!JobNames) <= JobCount
  BY <1>1, <1>2, FS_Surjection
<1>4. Cardinality(Jb!JobNames) \in Nat
  BY <1>3, FS_CardinalityType
<1>5. IsFiniteSet(S) /\ Cardinality(S) <= Cardinality(Jb!JobNames)
  BY <1>3, FS_Subset
<1>6. Cardinality(S) \in Nat
  BY <1>5, FS_CardinalityType
<1> QED BY <1>3, <1>4, <1>5, <1>6, JbOrder

JobOp == [do : {"run", "last", "batch", "active", "execute", "clear"},
          b : JobBatches, j : Jb!JobNames]

\* What the operations of a request are, one by one.
LEMMA JbOps ==
  ASSUME JobsAssumption, NEW b \in JobBatches
  PROVE  /\ Jb!StartOps(b) \in Seq(JobOp) /\ Len(Jb!StartOps(b)) = LastOp
         /\ \A i \in 1..JobCount :
              /\ Jb!StartOps(b)[2 * i - 1] = Jb!Op("run", b, JobOrder[i])
              /\ Jb!StartOps(b)[2 * i] = Jb!Op("last", b, JobOrder[i])
         /\ Jb!StartOps(b)[2 * JobCount + 1] = Jb!Op("batch", b, JobOrder[1])
         /\ Jb!StartOps(b)[2 * JobCount + 2] = Jb!Op("active", b, JobOrder[1])
         /\ Jb!StartOps(b)[LastOp] = Jb!Op("execute", b, JobOrder[1])
<1> DEFINE q == Jb!Queueing(b)
           j == JobOrder[1]
           e == <<Jb!Op("batch", b, j), Jb!Op("active", b, j), Jb!Op("execute", b, j)>>
<1>1. JobCount \in Nat /\ JobCount >= 1 /\ j \in Jb!JobNames
      /\ \A i \in 1..JobCount : JobOrder[i] \in Jb!JobNames
  BY JbOrder
<1>2. \A d \in {"run", "last", "batch", "active", "execute"}, i \in 1..JobCount :
        Jb!Op(d, b, JobOrder[i]) \in JobOp
  BY <1>1 DEF JobOp, Jb!Op
<1>3. q \in [1..(2 * JobCount) -> JobOp]
  <2>1. ASSUME NEW k \in 1..(2 * JobCount)
        PROVE  Jb!Op(IF k % 2 = 1 THEN "run" ELSE "last", b, JobOrder[(k + 1) \div 2]) \in JobOp
    <3>1. (k + 1) \div 2 \in 1..JobCount
      BY <1>1
    <3> QED BY <1>2, <3>1
  <2> QED BY <2>1 DEF Jb!Queueing, JobCount
<1>4. q \in Seq(JobOp) /\ Len(q) = 2 * JobCount
  <2>1. 2 * JobCount \in Nat
    BY <1>1
  <2>2. q \in Seq(JobOp)
    BY <1>3, <2>1
  <2>3. DOMAIN q = 1..(2 * JobCount)
    BY <1>3
  <2> QED BY <2>1, <2>2, <2>3
<1>5. e \in Seq(JobOp) /\ Len(e) = 3
  <2>1. 1 \in 1..JobCount
    BY <1>1
  <2> QED BY <1>2, <2>1
<1>6. Jb!StartOps(b) = q \o e
  BY DEF Jb!StartOps
<1>7. /\ q \o e \in Seq(JobOp) /\ Len(q \o e) = 2 * JobCount + 3
      /\ \A i \in 1..(2 * JobCount + 3) :
           (q \o e)[i] = IF i <= 2 * JobCount THEN q[i] ELSE e[i - 2 * JobCount]
  <2> HIDE DEF q, e
  <2>1. /\ q \o e \in Seq(JobOp) /\ Len(q \o e) = Len(q) + Len(e)
        /\ \A i \in 1..(Len(q) + Len(e)) : (q \o e)[i] = IF i <= Len(q) THEN q[i] ELSE e[i - Len(q)]
    BY <1>4, <1>5, ConcatProperties
  <2> QED BY <1>4, <1>5, <2>1
<1>8. ASSUME NEW i \in 1..JobCount
      PROVE  /\ q[2 * i - 1] = Jb!Op("run", b, JobOrder[i])
             /\ q[2 * i] = Jb!Op("last", b, JobOrder[i])
  <2>1. 2 * i - 1 \in 1..(2 * JobCount) /\ 2 * i \in 1..(2 * JobCount)
    BY <1>1
  <2>2. (2 * i - 1) % 2 = 1 /\ (2 * i) % 2 = 0
        /\ ((2 * i - 1) + 1) \div 2 = i /\ (2 * i + 1) \div 2 = i
    BY <1>1
  <2> QED BY <2>1, <2>2 DEF Jb!Queueing, JobCount
<1>9. e[1] = Jb!Op("batch", b, j) /\ e[2] = Jb!Op("active", b, j) /\ e[3] = Jb!Op("execute", b, j)
  OBVIOUS
<1>10. ASSUME NEW i \in 1..JobCount
       PROVE  /\ Jb!StartOps(b)[2 * i - 1] = q[2 * i - 1] /\ Jb!StartOps(b)[2 * i] = q[2 * i]
  <2> HIDE DEF q, e
  <2>1. /\ 2 * i - 1 \in 1..(2 * JobCount + 3) /\ 2 * i \in 1..(2 * JobCount + 3)
        /\ 2 * i - 1 <= 2 * JobCount /\ 2 * i <= 2 * JobCount
    BY <1>1
  <2> QED BY <1>6, <1>7, <2>1
<1>11. /\ Jb!StartOps(b)[2 * JobCount + 1] = e[1] /\ Jb!StartOps(b)[2 * JobCount + 2] = e[2]
       /\ Jb!StartOps(b)[2 * JobCount + 3] = e[3]
  <2> HIDE DEF q, e
  <2>1. ASSUME NEW k \in {1, 2, 3}
        PROVE  Jb!StartOps(b)[2 * JobCount + k] = e[k]
    <3>1. /\ 2 * JobCount + k \in 1..(2 * JobCount + 3) /\ ~(2 * JobCount + k <= 2 * JobCount)
          /\ (2 * JobCount + k) - 2 * JobCount = k
      BY <1>1
    <3> QED BY <1>6, <1>7, <3>1
  <2> QED BY <2>1
<1> QED BY <1>6, <1>7, <1>8, <1>9, <1>10, <1>11 DEF LastOp

\* The batch is the same in all of them, and what is left of them after one.
LEMMA JbRest ==
  ASSUME JobsAssumption, NEW b \in JobBatches, NEW k \in 1..LastOp
  PROVE  /\ Rest(b, k) # <<>> /\ Rest(b, k)[1] = Jb!StartOps(b)[k]
         /\ Head(Rest(b, k)) = Rest(b, k)[1] /\ Tail(Rest(b, k)) = Rest(b, k + 1)
         /\ Rest(b, LastOp + 1) = <<>>
         /\ Jb!StartOps(b)[k].b = b
<1> DEFINE s == Jb!StartOps(b)
<1>1. s \in Seq(JobOp) /\ Len(s) = LastOp /\ LastOp \in Nat
  BY JbOps, JbOrder
<1>2. Head(Rest(b, k)) = s[k] /\ Tail(Rest(b, k)) = Rest(b, k + 1)
  <2> HIDE DEF s
  <2>1. k \in 1..Len(s) /\ LastOp \in k..Len(s)
    BY <1>1
  <2>2. Head(SubSeq(s, k, LastOp)) = s[k] /\ Tail(SubSeq(s, k, LastOp)) = SubSeq(s, k + 1, LastOp)
    BY <1>1, <2>1, HeadTailOfSubSeq
  <2> QED BY <2>2 DEF Rest, s
<1>3. Rest(b, k) \in Seq(JobOp) /\ Len(Rest(b, k)) = LastOp - k + 1
  <2> HIDE DEF s
  <2>1. \A i \in k..LastOp : s[i] \in JobOp
    BY <1>1, ElementOfSeq
  <2>2. /\ SubSeq(s, k, LastOp) \in Seq(JobOp)
        /\ Len(SubSeq(s, k, LastOp)) = IF k <= LastOp THEN LastOp - k + 1 ELSE 0
    BY <1>1, <2>1, SubSeqProperties
  <2> QED BY <2>2 DEF Rest, s
<1>4. Rest(b, k) # <<>>
  <2>1. Len(Rest(b, k)) # 0
    BY <1>1, <1>3
  <2> QED BY <2>1, EmptySeq
<1>5. Rest(b, LastOp + 1) = <<>>
  BY <1>1, SubSeqEmpty DEF Rest
<1>6. Head(Rest(b, k)) = Rest(b, k)[1]
  BY <1>3, <1>4
<1>7. s[k].b = b
  <2>1. JobCount \in Nat /\ JobCount >= 1
    BY JbOrder
  <2>2. \A d, i : Jb!Op(d, b, i).b = b
    BY DEF Jb!Op
  <2>3. CASE k > 2 * JobCount
    <3>1. k = 2 * JobCount + 1 \/ k = 2 * JobCount + 2 \/ k = LastOp
      BY <1>1, <2>1, <2>3 DEF LastOp
    <3>2. \E d, i : s[k] = Jb!Op(d, b, i)
      BY <3>1, JbOps
    <3> QED BY <2>2, <3>2
  <2>4. CASE k <= 2 * JobCount
    <3>1. PICK i \in 1..JobCount : k = 2 * i - 1 \/ k = 2 * i
      <4>1. (k + 1) \div 2 \in 1..JobCount
            /\ (k = 2 * ((k + 1) \div 2) - 1 \/ k = 2 * ((k + 1) \div 2))
        BY <2>1, <2>4
      <4> QED BY <4>1
    <3>2. \E d, h : s[k] = Jb!Op(d, b, h)
      BY <3>1, JbOps
    <3> QED BY <2>2, <3>2
  <2> QED BY <1>1, <2>1, <2>3, <2>4
<1> QED BY <1>2, <1>4, <1>5, <1>6, <1>7

-----------------------------------------------------------------------------
(* What a step of another leaves.                                            *)

\* Ghosts only grow.
NothingUndone ==
  /\ called \subseteq called' /\ stranded \subseteq stranded'
  /\ (jobDied => jobDied') /\ (raced => raced')

\* The runs of b stay, but for those a call closes.
RunsKept(b) ==
  \A j \in Jb!JobNames : /\ run'[b][j] = "none" <=> run[b][j] = "none"
                         /\ run'[b][j] = run[b][j] \/ <<b, j>> \in called'

\* What a request does next.
LEMMA JbDoing ==
  ASSUME JobsAssumption, JobsInv, NEW c \in Starters, starting[c] # <<>>
  PROVE  \E b \in JobBatches :
           /\ exec[b] = Jb!NoWork /\ starting[c][1].b = b /\ Head(starting[c]) = starting[c][1]
           /\ \/ /\ Refused(c, b) /\ starting[c][1] = Jb!Op("clear", b, JobOrder[1])
                 /\ Tail(starting[c]) = <<>>
              \/ \E k \in 1..LastOp : /\ Begins(c, b, k) /\ starting[c][1] = Jb!StartOps(b)[k]
                                      /\ Tail(starting[c]) = Rest(b, k + 1)
<1>1. PICK b \in JobBatches :
        exec[b] = Jb!NoWork /\ (Refused(c, b) \/ \E k \in 1..LastOp : Begins(c, b, k))
  BY DEF JobsInv, Starts
<1>2. CASE Refused(c, b)
  <2> DEFINE op == Jb!Op("clear", b, JobOrder[1])
  <2>1. starting[c] = <<op>> /\ op.b = b
    BY <1>2 DEF Refused, Jb!Op
  <2>2. <<op>>[1] = op /\ Head(<<op>>) = op /\ Tail(<<op>>) = <<>>
    OBVIOUS
  <2> HIDE DEF op
  <2>3. starting[c][1] = op /\ Head(starting[c]) = op /\ Tail(starting[c]) = <<>>
    BY <2>1, <2>2
  <2> QED BY <1>1, <1>2, <2>1, <2>3 DEF op
<1>3. CASE \E k \in 1..LastOp : Begins(c, b, k)
  <2>1. PICK k \in 1..LastOp : Begins(c, b, k)
    BY <1>3
  <2>2. starting[c] = Rest(b, k)
    BY <2>1 DEF Begins
  <2>3. /\ starting[c][1] = Jb!StartOps(b)[k] /\ Jb!StartOps(b)[k].b = b
        /\ Head(starting[c]) = starting[c][1] /\ Tail(starting[c]) = Rest(b, k + 1)
    BY <2>2, JbRest
  <2> QED BY <1>1, <2>1, <2>3
<1> QED BY <1>1, <1>2, <1>3

\* Where in its program that is.
LEMMA JbAt ==
  ASSUME JobsAssumption, JobsInv, NEW c \in Starters, NEW do, Jb!Does(c, do)
  PROVE  /\ starting[c] # <<>> /\ starting[c][1].do = do
         /\ \E b \in JobBatches :
              /\ exec[b] = Jb!NoWork /\ starting[c][1].b = b /\ Head(starting[c]) = starting[c][1]
              /\ \/ /\ do = "clear" /\ Refused(c, b) /\ Tail(starting[c]) = <<>>
                    /\ starting[c][1] = Jb!Op("clear", b, JobOrder[1])
                 \/ \E k \in 1..LastOp :
                      /\ Begins(c, b, k) /\ Tail(starting[c]) = Rest(b, k + 1)
                      /\ \/ \E i \in 1..JobCount :
                              \/ /\ k = 2 * i - 1 /\ do = "run"
                                 /\ starting[c][1] = Jb!Op("run", b, JobOrder[i])
                              \/ /\ k = 2 * i /\ do = "last"
                                 /\ starting[c][1] = Jb!Op("last", b, JobOrder[i])
                         \/ /\ k = 2 * JobCount + 1 /\ do = "batch"
                            /\ starting[c][1] = Jb!Op("batch", b, JobOrder[1])
                         \/ /\ k = 2 * JobCount + 2 /\ do = "active"
                            /\ starting[c][1] = Jb!Op("active", b, JobOrder[1])
                         \/ /\ k = LastOp /\ do = "execute"
                            /\ starting[c][1] = Jb!Op("execute", b, JobOrder[1])
<1>1. starting[c] # <<>> /\ Head(starting[c]).do = do
  BY DEF Jb!Does
<1>2. PICK b \in JobBatches :
           /\ exec[b] = Jb!NoWork /\ starting[c][1].b = b /\ Head(starting[c]) = starting[c][1]
           /\ \/ /\ Refused(c, b) /\ starting[c][1] = Jb!Op("clear", b, JobOrder[1])
                 /\ Tail(starting[c]) = <<>>
              \/ \E k \in 1..LastOp : /\ Begins(c, b, k) /\ starting[c][1] = Jb!StartOps(b)[k]
                                      /\ Tail(starting[c]) = Rest(b, k + 1)
  BY <1>1, JbDoing
<1>3. starting[c][1].do = do
  BY <1>1, <1>2
<1>4. \A d, i : Jb!Op(d, b, i).do = d
  BY DEF Jb!Op
<1>5. CASE Refused(c, b) /\ starting[c][1] = Jb!Op("clear", b, JobOrder[1]) /\ Tail(starting[c]) = <<>>
  BY <1>1, <1>2, <1>3, <1>4, <1>5
<1>6. CASE \E k \in 1..LastOp : /\ Begins(c, b, k) /\ starting[c][1] = Jb!StartOps(b)[k]
                                /\ Tail(starting[c]) = Rest(b, k + 1)
  <2>1. PICK k \in 1..LastOp : /\ Begins(c, b, k) /\ starting[c][1] = Jb!StartOps(b)[k]
                               /\ Tail(starting[c]) = Rest(b, k + 1)
    BY <1>6
  <2>2. JobCount \in Nat /\ JobCount >= 1
    BY JbOrder
  <2>3. CASE k > 2 * JobCount
    <3>1. k = 2 * JobCount + 1 \/ k = 2 * JobCount + 2 \/ k = LastOp
      BY <2>2, <2>3 DEF LastOp
    <3>2. \/ k = 2 * JobCount + 1 /\ starting[c][1] = Jb!Op("batch", b, JobOrder[1])
          \/ k = 2 * JobCount + 2 /\ starting[c][1] = Jb!Op("active", b, JobOrder[1])
          \/ k = LastOp /\ starting[c][1] = Jb!Op("execute", b, JobOrder[1])
      BY <2>1, <3>1, JbOps
    <3>3. \/ /\ k = 2 * JobCount + 1 /\ do = "batch"
             /\ starting[c][1] = Jb!Op("batch", b, JobOrder[1])
          \/ /\ k = 2 * JobCount + 2 /\ do = "active"
             /\ starting[c][1] = Jb!Op("active", b, JobOrder[1])
          \/ /\ k = LastOp /\ do = "execute"
             /\ starting[c][1] = Jb!Op("execute", b, JobOrder[1])
      BY <1>3, <1>4, <3>2
    <3> QED BY <1>1, <1>2, <1>3, <2>1, <3>3
  <2>4. CASE k <= 2 * JobCount
    <3>1. PICK i \in 1..JobCount : k = 2 * i - 1 \/ k = 2 * i
      <4>1. (k + 1) \div 2 \in 1..JobCount
            /\ (k = 2 * ((k + 1) \div 2) - 1 \/ k = 2 * ((k + 1) \div 2))
        BY <2>2, <2>4
      <4> QED BY <4>1
    <3>2. \/ k = 2 * i - 1 /\ starting[c][1] = Jb!Op("run", b, JobOrder[i])
          \/ k = 2 * i /\ starting[c][1] = Jb!Op("last", b, JobOrder[i])
      BY <2>1, <3>1, JbOps
    <3>3. \/ k = 2 * i - 1 /\ do = "run" /\ starting[c][1] = Jb!Op("run", b, JobOrder[i])
          \/ k = 2 * i /\ do = "last" /\ starting[c][1] = Jb!Op("last", b, JobOrder[i])
      BY <1>3, <1>4, <3>2
    <3> QED BY <1>1, <1>2, <1>3, <2>1, <3>3
  <2>5. k > 2 * JobCount \/ k <= 2 * JobCount
    BY <2>2, JbOrder
  <2> QED BY <2>3, <2>4, <2>5
<1> QED BY <1>2, <1>5, <1>6

\* What a running execution is doing.
LEMMA JbRunning ==
  ASSUME JobsAssumption, JobsInv, NEW b \in JobBatches, Jb!Running(b)
  PROVE  \E m \in 1..JobCount :
           /\ exec[b].todo = SubSeq(JobOrder, m, JobCount) /\ ToldTo(b, m)
           /\ Jb!Job(b) = JobOrder[m] /\ AtWork(b, JobOrder[m])
           /\ Tail(exec[b].todo) = SubSeq(JobOrder, m + 1, JobCount)
<1>1. PICK m \in 1..(JobCount + 1) :
         /\ exec[b].todo = SubSeq(JobOrder, m, JobCount) /\ ToldTo(b, m)
         /\ IF m > JobCount THEN exec[b].writes = <<>> ELSE AtWork(b, JobOrder[m])
  BY DEF JobsInv, Executes, Jb!Running
<1>2. JobCount \in Nat /\ JobOrder \in Seq(Jb!JobNames) /\ JobCount = Len(JobOrder)
  BY JbOrder DEF JobsAssumption, JobCount
<1>3. m <= JobCount
  <2>1. SUFFICES ASSUME m > JobCount PROVE FALSE
    BY <1>2
  <2>2. SubSeq(JobOrder, m, JobCount) = <<>>
    BY <1>2, <2>1, SubSeqEmpty
  <2> QED BY <1>1, <2>2 DEF Jb!Running
<1>4. /\ Head(SubSeq(JobOrder, m, JobCount)) = JobOrder[m]
      /\ Tail(SubSeq(JobOrder, m, JobCount)) = SubSeq(JobOrder, m + 1, JobCount)
  BY <1>2, <1>3, HeadTailOfSubSeq
<1> QED BY <1>1, <1>2, <1>3, <1>4 DEF Jb!Job

LEMMA JbStartsOn ==
  ASSUME JobsAssumption, NEW c \in Starters, Starts(c), starting'[c] = starting[c], NothingUndone,
         \A b \in JobBatches : starting[c] # <<>> /\ starting[c][1].b = b /\ exec[b] = Jb!NoWork =>
           exec'[b] = exec[b] /\ RunsKept(b) /\ batch'[b].status = batch[b].status,
         Orderly' /\ starting[c] # <<>> => active' = active
  PROVE  Starts(c)'
<1> SUFFICES ASSUME starting[c] # <<>>
             PROVE  \E b \in JobBatches :
                      exec'[b] = Jb!NoWork /\ (Refused(c, b)' \/ \E k \in 1..LastOp : Begins(c, b, k)')
  BY DEF Starts
<1>1. PICK b \in JobBatches :
        exec[b] = Jb!NoWork /\ (Refused(c, b) \/ \E k \in 1..LastOp : Begins(c, b, k))
  BY DEF Starts
<1>2. starting[c][1].b = b
  <2>1. CASE Refused(c, b)
    BY <2>1 DEF Refused, Jb!Op
  <2>2. CASE \E k \in 1..LastOp : Begins(c, b, k)
    BY <2>2, JbRest DEF Begins
  <2> QED BY <1>1, <2>1, <2>2
<1>3. exec'[b] = exec[b] /\ RunsKept(b) /\ batch'[b].status = batch[b].status
  BY <1>1, <1>2
<1>4. CASE Refused(c, b)
  <2>1. Refused(c, b)'
    BY <1>3, <1>4 DEF Refused, RunsKept
  <2> QED BY <1>1, <1>3, <2>1
<1>5. ASSUME NEW k \in 1..LastOp, Begins(c, b, k) PROVE Begins(c, b, k)'
  <2>1. QueuedTo(b, k)'
    BY <1>3, <1>5, JbOrder DEF Begins, QueuedTo, RunsKept, NothingUndone
  <2>2. Orderly' => Orderly
    BY DEF Orderly, NothingUndone
  <2> QED BY <1>3, <1>5, <2>1, <2>2 DEF Begins, Rest
<1> QED BY <1>1, <1>3, <1>4, <1>5

LEMMA JbExecutesOn ==
  ASSUME JobsAssumption, NEW b \in JobBatches, Executes(b), NothingUndone, exec'[b] = exec[b],
         batch'[b] = batch[b], RunsKept(b)
  PROVE  Executes(b)'
<1>1. ASSUME NEW m \in 1..(JobCount + 1), ToldTo(b, m) PROVE ToldTo(b, m)'
  BY <1>1, JbOrder DEF ToldTo, RunsKept, NothingUndone
<1>2. ASSUME NEW m \in 1..JobCount, AtWork(b, JobOrder[m]) PROVE AtWork(b, JobOrder[m])'
  BY <1>2, JbOrder DEF AtWork, RunsKept, NothingUndone
<1>3. JobCount \in Nat
  BY JbOrder
<1>4. JobCount + 1 \in 1..(JobCount + 1)
  BY <1>3
<1>5. exec[b].state # "none" => \A j \in Jb!JobNames : run'[b][j] # "none"
  BY DEF Executes, RunsKept
<1>6. exec[b].state = "running" =>
       \E m \in 1..(JobCount + 1) :
         /\ exec'[b].todo = SubSeq(JobOrder, m, JobCount) /\ ToldTo(b, m)'
         /\ IF m > JobCount THEN exec'[b].writes = <<>> ELSE AtWork(b, JobOrder[m])'
  BY <1>1, <1>2, <1>3 DEF Executes
<1> QED BY <1>1, <1>4, <1>5, <1>6 DEF Executes

LEMMA JbIdles ==
  ASSUME NEW b \in JobBatches, exec'[b] = Jb!NoWork, batch'[b].status # "completed"
  PROVE  Executes(b)'
BY DEF Executes, Jb!NoWork

-----------------------------------------------------------------------------
(* The requests: what a step of c, which has batch b, leaves to the others.  *)
LEMMA JbStartMoves ==
  ASSUME JobsAssumption, JobsInv, NEW c \in Starters, NEW b \in JobBatches, NothingUndone,
         NEW s, starting' = [starting EXCEPT ![c] = s], s = <<>> \/ s[1].b = b,
         \A d \in Starters : d # c /\ starting[d] # <<>> => starting[d][1].b # b,
         Orderly' => \A d \in Starters : d # c => starting[d] = <<>>,
         \A a \in JobBatches :
           a # b => exec'[a] = exec[a] /\ run'[a] = run[a] /\ batch'[a] = batch[a]
  PROVE  /\ StartsApart' /\ \A d \in Starters : d # c => Starts(d)'
         /\ \A a \in JobBatches : a # b => Executes(a)'
<1>1. starting'[c] = s /\ \A d \in Starters : d # c => starting'[d] = starting[d]
  BY DEF JobsInv, JobTables
<1>2. StartsApart'
  BY <1>1 DEF JobsInv, StartsApart
<1>3. \A a \in JobBatches : a # b => RunsKept(a)
  BY DEF RunsKept
<1>4. ASSUME NEW d \in Starters, d # c PROVE Starts(d)'
  <2>1. Starts(d) /\ starting'[d] = starting[d]
    BY <1>1, <1>4 DEF JobsInv
  <2>2. \A a \in JobBatches : starting[d] # <<>> /\ starting[d][1].b = a /\ exec[a] = Jb!NoWork =>
           exec'[a] = exec[a] /\ RunsKept(a) /\ batch'[a].status = batch[a].status
    BY <1>3, <1>4
  <2>3. ~(Orderly' /\ starting[d] # <<>>)
    BY <1>4
  <2> QED BY <2>1, <2>2, <2>3, JbStartsOn
<1>5. ASSUME NEW a \in JobBatches, a # b PROVE Executes(a)'
  BY <1>3, <1>5, JbExecutesOn DEF JobsInv
<1> QED BY <1>2, <1>4, <1>5

\* c is the only one, and nothing runs, where all is in turn.
LEMMA JbAlone ==
  ASSUME JobsInv, NEW c \in Starters, starting[c] # <<>>
  PROVE  /\ \A d \in Starters : d # c /\ starting[d] # <<>> => starting[d][1].b # starting[c][1].b
         /\ Orderly => \A d \in Starters : d # c => starting[d] = <<>>
         /\ Orderly => \A b \in JobBatches : exec[b].state \notin {"running", "finalising"}
BY DEF JobsInv, StartsApart, InTurn

LEMMA JbTurnStart ==
  ASSUME JobsAssumption, JobsInv, Orderly, NEW c \in Starters, starting[c] # <<>>, NEW b \in JobBatches,
         starting[c][1].b = b, NEW s, starting' = [starting EXCEPT ![c] = s],
         s = <<>> \/ s[1].b = b, UNCHANGED exec,
         s = <<>> => \E j \in Jb!JobNames : run[b][j] # "none",
         \A a \in JobBatches, j \in Jb!JobNames :
           /\ run'[a][j] = "none" => run[a][j] = "none"
           /\ a # b => run'[a][j] = run[a][j]
  PROVE  InTurn'
<1>1. starting'[c] = s /\ \A d \in Starters : d # c => starting'[d] = <<>>
  BY JbAlone DEF JobsInv, JobTables
<1>2. \A a \in JobBatches : exec[a].state \notin {"running", "finalising"}
  BY JbAlone
<1>3. \A a \in JobBatches : Moves(a)' => a = b
  BY <1>1, <1>2 DEF Moves
<1>4. Moves(b)
  BY DEF Moves
<1>5. \A a \in JobBatches, j \in Jb!JobNames : a > b => run[a][j] = "none"
  BY <1>4 DEF JobsInv, InTurn
<1>6. \A a \in JobBatches : Jb!Used(a)' <=> Jb!Used(a)
  <2>1. \A a \in JobBatches : a # b => (Jb!Used(a)' <=> Jb!Used(a))
    <3>1. \A a \in JobBatches : a # b =>
            ~(\E d \in Starters : starting[d] # <<>> /\ starting[d][1].b = a)
      BY JbAlone
    <3>2. \A a \in JobBatches : a # b =>
            ~(\E d \in Starters : starting'[d] # <<>> /\ starting'[d][1].b = a)
      BY <1>1
    <3> QED BY <3>1, <3>2 DEF Jb!Used
  <2>2. Jb!Used(b)
    BY DEF Jb!Used
  <2>3. Jb!Used(b)'
    <3>1. CASE s = <<>>
      BY <3>1 DEF Jb!Used
    <3>2. CASE s # <<>>
      BY <1>1, <3>2 DEF Jb!Used
    <3> QED BY <3>1, <3>2
  <2> QED BY <2>1, <2>2, <2>3
<1>7. \A a \in JobBatches, j \in Jb!JobNames : a > b => run'[a][j] = "none"
  <2>1. \A a \in JobBatches : a > b => a # b
    BY DEF JobsAssumption
  <2> QED BY <1>5, <2>1
<1>8. \A a, d \in JobBatches : Jb!Used(a)' /\ d < a => Jb!Used(d)'
  BY <1>6 DEF JobsInv, InTurn
<1> QED BY <1>1, <1>2, <1>3, <1>7, <1>8 DEF InTurn

-----------------------------------------------------------------------------
(* The executions: what a step of b leaves to the others.                    *)
LEMMA JbGoes ==
  ASSUME JobsAssumption, JobsInv, NEW b \in JobBatches, exec[b].state # "none", NothingUndone,
         NEW w, exec' = [exec EXCEPT ![b] = w], UNCHANGED starting,
         Orderly' => active' = active \/ exec[b].state = "finalising",
         \A a \in JobBatches : a # b => run'[a] = run[a] /\ batch'[a] = batch[a]
  PROVE  /\ exec'[b] = w
         /\ StartsApart' /\ \A c \in Starters : Starts(c)'
         /\ \A a \in JobBatches : a # b => Executes(a)'
<1>1. exec'[b] = w /\ \A a \in JobBatches : a # b => exec'[a] = exec[a]
  BY DEF JobsInv, JobTables
<1>2. \A a \in JobBatches : a # b => RunsKept(a)
  BY DEF RunsKept
<1>3. exec[b] # Jb!NoWork
  BY DEF Jb!NoWork
<1>4. ASSUME NEW c \in Starters PROVE Starts(c)'
  <2>1. Starts(c) /\ starting'[c] = starting[c]
    BY DEF JobsInv
  <2>2. \A a \in JobBatches : starting[c] # <<>> /\ starting[c][1].b = a /\ exec[a] = Jb!NoWork =>
           exec'[a] = exec[a] /\ RunsKept(a) /\ batch'[a].status = batch[a].status
    BY <1>1, <1>2, <1>3
  <2>3. Orderly' => Orderly
    BY DEF Orderly, NothingUndone
  <2>4. Orderly' /\ starting[c] # <<>> => active' = active
    BY <2>3, JbAlone
  <2> QED BY <2>1, <2>2, <2>4, JbStartsOn
<1>5. ASSUME NEW a \in JobBatches, a # b PROVE Executes(a)'
  BY <1>1, <1>2, <1>5, JbExecutesOn DEF JobsInv
<1>6. StartsApart'
  BY DEF JobsInv, StartsApart
<1> QED BY <1>1, <1>4, <1>5, <1>6

LEMMA JbTurnStays ==
  ASSUME InTurn, UNCHANGED <<starting, active>>,
         \A a \in JobBatches :
           /\ exec'[a].state = exec[a].state /\ batch'[a].status = batch[a].status
           /\ \A j \in Jb!JobNames : run'[a][j] = "none" <=> run[a][j] = "none"
  PROVE  InTurn'
<1>1. \A a \in JobBatches : Moves(a)' <=> Moves(a)
  BY DEF Moves
<1>2. \A a \in JobBatches : Jb!Used(a)' <=> Jb!Used(a)
  BY DEF Jb!Used
<1>3. \A b \in JobBatches : Moves(b)' =>
       \A a \in JobBatches, j \in Jb!JobNames : a > b => run'[a][j] = "none"
  BY <1>1 DEF InTurn
<1>4. \A a, b \in JobBatches : Jb!Used(a)' /\ b < a => Jb!Used(b)'
  BY <1>2 DEF InTurn
<1> QED BY <1>3, <1>4 DEF InTurn

-----------------------------------------------------------------------------
(* The last runs.                                                            *)
Excused == raced \/ jobDied \/ stranded # {} \/ called # {}
PointerDue(b, j) ==
  \/ \E c \in Starters : starting[c] # <<>> /\ starting[c][1] = Jb!Op("last", b, j)
  \/ Jb!Writes(b, "last") /\ Jb!Job(b) = j
Newest(b, j) == run[b][j] # "none" /\ \A a \in JobBatches : a > b => run[a][j] = "none"

LEMMA JbLast ==
  Jb!LastRunIsNewest <=>
    (Excused \/ \A j \in Jb!JobNames, b \in JobBatches :
                  Newest(b, j) /\ ~PointerDue(b, j) => last[j] = [batch |-> b, status |-> run[b][j]])
BY DEF Jb!LastRunIsNewest, Excused, PointerDue, Newest

LEMMA JbExcuses == NothingUndone /\ Excused => Excused'
BY DEF NothingUndone, Excused

LEMMA JbLastStays ==
  ASSUME JobsInv, NothingUndone, UNCHANGED <<run, last>>,
         \A b \in JobBatches, j \in Jb!JobNames : PointerDue(b, j) => PointerDue(b, j)'
  PROVE  Jb!LastRunIsNewest'
<1>1. Excused \/ \A j \in Jb!JobNames, b \in JobBatches :
                  Newest(b, j) /\ ~PointerDue(b, j) => last[j] = [batch |-> b, status |-> run[b][j]]
  BY JbLast DEF JobsInv
<1>2. (Excused \/ \A j \in Jb!JobNames, b \in JobBatches :
                  Newest(b, j) /\ ~PointerDue(b, j) => last[j] = [batch |-> b, status |-> run[b][j]])'
  BY <1>1, JbExcuses DEF Newest
<1> QED BY <1>2 DEF Jb!LastRunIsNewest, Excused, PointerDue, Newest

LEMMA JbLastMoves ==
  ASSUME JobsAssumption, JobsInv, NothingUndone, NEW b \in JobBatches, NEW g \in Jb!JobNames,
         Orderly => Moves(b), run'[b][g] # "none",
         \A a \in JobBatches, j \in Jb!JobNames : a # b \/ j # g => run'[a][j] = run[a][j],
         \A j \in Jb!JobNames : j # g => last'[j] = last[j],
         \A a \in JobBatches, j \in Jb!JobNames : j # g /\ PointerDue(a, j) => PointerDue(a, j)',
         Excused' \/ PointerDue(b, g)' \/ last'[g] = [batch |-> b, status |-> run'[b][g]]
  PROVE  Jb!LastRunIsNewest'
<1> SUFFICES ASSUME ~Excused', NEW j \in Jb!JobNames, NEW a \in JobBatches,
                    Newest(a, j)', ~PointerDue(a, j)'
             PROVE  last'[j] = [batch |-> a, status |-> run'[a][j]]
  BY DEF Jb!LastRunIsNewest, Excused, PointerDue, Newest
<1>1. ~Excused
  BY JbExcuses
<1>2. Newest(a, j) /\ ~PointerDue(a, j) => last[j] = [batch |-> a, status |-> run[a][j]]
  BY <1>1, JbLast DEF JobsInv
<1>3. CASE j # g
  <2>1. run'[a][j] = run[a][j] /\ last'[j] = last[j] /\ ~PointerDue(a, j)
    BY <1>3
  <2>2. Newest(a, j)
    BY <1>3 DEF Newest
  <2> QED BY <1>2, <2>1, <2>2
<1>4. CASE j = g
  <2>1. Orderly /\ InTurn
    BY <1>1 DEF Excused, Orderly, JobsInv, InTurn
  <2>2. \A d \in JobBatches : d > b => run[d][g] = "none"
    BY <2>1 DEF InTurn
  <2>3. a = b
    <3>1. ~(b > a)
      BY <1>4 DEF Newest
    <3>2. ~(a > b)
      <4>1. SUFFICES ASSUME a > b PROVE FALSE
        OBVIOUS
      <4>2. a # b
        BY <4>1 DEF JobsAssumption
      <4> QED BY <1>4, <2>2, <4>1, <4>2 DEF Newest
    <3> QED BY <3>1, <3>2 DEF JobsAssumption
  <2> QED BY <1>4, <2>3
<1> QED BY <1>3, <1>4

\* The jobs of a batch that are over.
Ended(jobs) == {j \in Jb!JobNames : jobs[j] \in Jb!Closed}

LEMMA JbCardinality == \A S : Jb!Cardinality(S) = Cardinality(S)
  BY Zenon DEF Jb!Cardinality, Cardinality

LEMMA JbProgress ==
  ASSUME JobsInv, NEW b \in JobBatches, batch'[b].index = Cardinality(Ended(batch'[b].jobs)),
         \A a \in JobBatches : a # b => batch'[a] = batch[a]
  PROVE  Jb!ProgressIsTrue'
<1>1. \A a \in JobBatches : batch[a].index = Cardinality(Ended(batch[a].jobs))
  BY JbCardinality DEF JobsInv, Jb!ProgressIsTrue, Ended
<1>2. \A a \in JobBatches : batch'[a].index = Cardinality(Ended(batch'[a].jobs))
  BY <1>1
<1> QED BY <1>2, JbCardinality DEF Jb!ProgressIsTrue, Ended

-----------------------------------------------------------------------------
(* The steps of a request.                                                   *)
LEMMA JbStep ==
  ASSUME JobsAssumption, JobsInv, NEW c \in Starters, NEW b \in JobBatches,
         starting[c] # <<>>, starting[c][1].b = b, exec[b] = Jb!NoWork,
         NEW s, starting' = [starting EXCEPT ![c] = s], s = <<>> \/ s[1].b = b,
         UNCHANGED <<exec, did, raced, jobDied, called>>, stranded \subseteq stranded',
         \A a \in JobBatches : a # b => run'[a] = run[a] /\ batch'[a] = batch[a],
         batch'[b].status = "completed" => batch[b].status = "completed"
  PROVE  /\ NothingUndone /\ StartsApart' /\ \A a \in JobBatches : Executes(a)'
         /\ \A d \in Starters : d # c => Starts(d)'
         /\ starting'[c] = s /\ batch[b].status # "completed"
<1>1. NothingUndone
  BY DEF NothingUndone
<1>2. Orderly' => Orderly
  BY DEF Orderly
<1>3. \A d \in Starters : d # c /\ starting[d] # <<>> => starting[d][1].b # b
  BY JbAlone
<1>4. Orderly' => \A d \in Starters : d # c => starting[d] = <<>>
  BY <1>2, JbAlone
<1>5. \A a \in JobBatches :
           a # b => exec'[a] = exec[a] /\ run'[a] = run[a] /\ batch'[a] = batch[a]
  OBVIOUS
<1>6. /\ StartsApart' /\ \A d \in Starters : d # c => Starts(d)'
      /\ \A a \in JobBatches : a # b => Executes(a)'
  BY <1>1, <1>3, <1>4, <1>5, JbStartMoves
<1>7. batch[b].status # "completed"
  BY DEF JobsInv, Executes, Jb!NoWork
<1>8. Executes(b)'
  BY <1>7, JbIdles
<1>9. starting'[c] = s
  BY DEF JobsInv, JobTables
<1> QED BY <1>1, <1>6, <1>7, <1>8, <1>9

LEMMA JbQueuesRun == ASSUME JobsAssumption, JobsInv, NEW c \in Starters, Jb!QueueRun(c) PROVE JobsInv'
<1>1. Jb!Does(c, "run")
  BY DEF Jb!QueueRun
<1>2. PICK b \in JobBatches, i \in 1..JobCount :
        /\ starting[c] # <<>> /\ exec[b] = Jb!NoWork /\ starting[c][1].b = b
        /\ starting[c][1] = Jb!Op("run", b, JobOrder[i])
        /\ Begins(c, b, 2 * i - 1) /\ Tail(starting[c]) = Rest(b, (2 * i - 1) + 1)
  BY <1>1, JbAt
<1>3. PICK g \in Jb!JobNames : g = JobOrder[i]
  BY JbOrder
<1>4. i \in Nat /\ JobCount \in Nat /\ 1 <= i /\ i <= JobCount /\ (2 * i - 1) + 1 = 2 * i
      /\ 2 * i \in 1..LastOp
  BY JbOrder DEF LastOp
<1>5. PICK s : s = Rest(b, 2 * i)
  OBVIOUS
<1>6. /\ s # <<>> /\ s[1] = Jb!Op("last", b, g) /\ s[1].b = b
  <2>1. s # <<>> /\ s[1] = Jb!StartOps(b)[2 * i]
    BY <1>4, <1>5, JbRest
  <2>2. Jb!StartOps(b)[2 * i] = Jb!Op("last", b, g)
    BY <1>3, JbOps
  <2> QED BY <2>1, <2>2 DEF Jb!Op
<1>7. starting[c][1].b = b /\ starting[c][1].j = g
  BY <1>2, <1>3 DEF Jb!Op
<1>8. /\ run' = [run EXCEPT ![b][g] = "queued"] /\ starting' = [starting EXCEPT ![c] = s]
      /\ UNCHANGED <<last, batch, active, exec, did, raced, jobDied, stranded, called>>
  BY <1>2, <1>4, <1>5, <1>7 DEF Jb!QueueRun, Jb!PutRun, Jb!Go, Jb!ghosts
<1>9. /\ run'[b][g] = "queued"
      /\ \A a \in JobBatches, j \in Jb!JobNames : a # b \/ j # g => run'[a][j] = run[a][j]
      /\ \A a \in JobBatches : a # b => run'[a] = run[a]
      /\ run' \in [JobBatches -> [Jb!JobNames -> Jb!Statuses]]
  BY <1>8 DEF JobsInv, JobTables, Jb!Statuses
<1>10. /\ NothingUndone /\ StartsApart' /\ \A a \in JobBatches : Executes(a)'
       /\ \A d \in Starters : d # c => Starts(d)'
       /\ starting'[c] = s
  <2>1. stranded \subseteq stranded' /\ batch'[b].status = batch[b].status
        /\ \A a \in JobBatches : a # b => run'[a] = run[a] /\ batch'[a] = batch[a]
    BY <1>8, <1>9
  <2>2. UNCHANGED <<exec, did, raced, jobDied, called>>
        /\ (batch'[b].status = "completed" => batch[b].status = "completed")
    BY <1>8
  <2> QED BY <1>2, <1>6, <1>8, <2>1, <2>2, JbStep
<1>11. Starts(c)'
  <2>1. QueuedTo(b, 2 * i)'
    <3>1. ASSUME NEW h \in 1..JobCount, 2 * h > 2 * i PROVE run'[b][JobOrder[h]] = "none"
      <4>1. 2 * h > 2 * i - 1 /\ h # i
        BY <1>4, <3>1
      <4>2. run[b][JobOrder[h]] = "none" /\ JobOrder[h] # g /\ JobOrder[h] \in Jb!JobNames
        BY <1>2, <1>3, <4>1, JbOrder DEF Begins, QueuedTo
      <4> QED BY <1>9, <4>2
    <3>2. ASSUME NEW h \in 1..JobCount, 2 * h <= 2 * i
          PROVE  /\ run'[b][JobOrder[h]] # "none"
                 /\ run'[b][JobOrder[h]] = "queued" \/ <<b, JobOrder[h]>> \in called'
      <4>1. CASE h = i
        BY <1>3, <1>9, <4>1
      <4>2. CASE h # i
        <5>1. 2 * h <= 2 * i - 1
          BY <1>4, <3>2, <4>2
        <5>2. /\ JobOrder[h] # g /\ JobOrder[h] \in Jb!JobNames /\ run[b][JobOrder[h]] # "none"
              /\ run[b][JobOrder[h]] = "queued" \/ <<b, JobOrder[h]>> \in called
          BY <1>2, <1>3, <4>2, <5>1, JbOrder DEF Begins, QueuedTo
        <5> QED BY <1>8, <1>9, <5>2
      <4> QED BY <4>1, <4>2
    <3> QED BY <3>1, <3>2 DEF QueuedTo
  <2>2. ~(2 * i > 2 * JobCount + 1) /\ 2 * i # LastOp
    BY <1>4 DEF LastOp
  <2>3. Begins(c, b, 2 * i)'
    BY <1>5, <1>10, <2>1, <2>2 DEF Begins, Rest
  <2> QED BY <1>2, <1>4, <1>8, <2>3 DEF Starts
<1>12. JobTables'
  BY <1>8, <1>9 DEF JobsInv, JobTables
<1>13. Jb!CompletedDidItsWork' /\ Jb!ProgressIsTrue'
  BY <1>8, <1>9 DEF JobsInv, Jb!CompletedDidItsWork, Jb!ProgressIsTrue
<1>14. Jb!LastRunIsNewest'
  <2>1. Moves(b)
    BY <1>2 DEF Moves
  <2>2. PointerDue(b, g)'
    BY <1>6, <1>10 DEF PointerDue
  <2>3. ASSUME NEW a \in JobBatches, NEW j \in Jb!JobNames, PointerDue(a, j) PROVE PointerDue(a, j)'
    <3>1. starting[c][1] # Jb!Op("last", a, j)
      BY <1>2 DEF Jb!Op
    <3>2. \A d \in Starters : d # c => starting'[d] = starting[d]
      BY <1>8 DEF JobsInv, JobTables
    <3> QED BY <1>8, <2>3, <3>1, <3>2 DEF PointerDue, Jb!Writes, Jb!Running, Jb!Job
  <2>4. run'[b][g] # "none" /\ \A j \in Jb!JobNames : j # g => last'[j] = last[j]
    BY <1>8, <1>9
  <2>5. \A a \in JobBatches, j \in Jb!JobNames : j # g /\ PointerDue(a, j) => PointerDue(a, j)'
    BY <2>3
  <2> QED BY <1>9, <1>10, <2>1, <2>2, <2>4, <2>5, JbLastMoves
<1>15. Orderly' => InTurn'
  <2>1. ASSUME Orderly PROVE InTurn'
    <3>1. \A a \in JobBatches, j \in Jb!JobNames :
           /\ run'[a][j] = "none" => run[a][j] = "none"
           /\ a # b => run'[a][j] = run[a][j]
      BY <1>9
    <3> QED BY <1>2, <1>6, <1>8, <2>1, <3>1, JbTurnStart
  <2> QED BY <1>8, <2>1 DEF Orderly
<1> QED BY <1>10, <1>11, <1>12, <1>13, <1>14, <1>15 DEF JobsInv

\* Where the next operation of a request is no "last", no pointer is waited for any more.
LEMMA JbWaits ==
  ASSUME JobsInv, NEW c \in Starters, NEW s, starting' = [starting EXCEPT ![c] = s],
         starting[c] = <<>> \/ starting[c][1].do # "last", UNCHANGED exec
  PROVE  \A a \in JobBatches, j \in Jb!JobNames : PointerDue(a, j) => PointerDue(a, j)'
<1> SUFFICES ASSUME NEW a \in JobBatches, NEW j \in Jb!JobNames, PointerDue(a, j)
             PROVE  PointerDue(a, j)'
  OBVIOUS
<1>1. starting[c] = <<>> \/ starting[c][1] # Jb!Op("last", a, j)
  BY DEF Jb!Op
<1>2. \A d \in Starters : d # c => starting'[d] = starting[d]
  BY DEF JobsInv, JobTables
<1> QED BY <1>1, <1>2 DEF PointerDue, Jb!Writes, Jb!Running, Jb!Job

LEMMA JbQueuesLast == ASSUME JobsAssumption, JobsInv, NEW c \in Starters, Jb!QueueLast(c) PROVE JobsInv'
<1>1. Jb!Does(c, "last")
  BY DEF Jb!QueueLast
<1>2. PICK b \in JobBatches, i \in 1..JobCount :
        /\ starting[c] # <<>> /\ exec[b] = Jb!NoWork /\ starting[c][1].b = b
        /\ starting[c][1] = Jb!Op("last", b, JobOrder[i])
        /\ Begins(c, b, 2 * i) /\ Tail(starting[c]) = Rest(b, 2 * i + 1)
  BY <1>1, JbAt
<1>3. PICK g \in Jb!JobNames : g = JobOrder[i]
  BY JbOrder
<1>4. i \in Nat /\ JobCount \in Nat /\ 1 <= i /\ i <= JobCount /\ 2 * i + 1 \in 1..LastOp
  BY JbOrder DEF LastOp
<1>5. PICK s : s = Rest(b, 2 * i + 1)
  OBVIOUS
<1>6. s # <<>> /\ s[1].b = b
  BY <1>4, <1>5, JbRest
<1>7. starting[c][1].b = b /\ starting[c][1].j = g
  BY <1>2, <1>3 DEF Jb!Op
<1>8. /\ last' = [last EXCEPT ![g] = [batch |-> b, status |-> "queued"]]
      /\ starting' = [starting EXCEPT ![c] = s]
      /\ UNCHANGED <<run, batch, active, exec, did, raced, jobDied, stranded, called>>
  BY <1>2, <1>5, <1>7 DEF Jb!QueueLast, Jb!PutLast, Jb!Go, Jb!ghosts
<1>9. /\ last'[g] = [batch |-> b, status |-> "queued"]
      /\ \A j \in Jb!JobNames : j # g => last'[j] = last[j]
      /\ last' \in [Jb!JobNames -> [batch : JobBatches \cup {NoJobBatch}, status : Jb!Statuses]]
  BY <1>8 DEF JobsInv, JobTables, Jb!Statuses
<1>10. /\ NothingUndone /\ StartsApart' /\ \A a \in JobBatches : Executes(a)'
       /\ \A d \in Starters : d # c => Starts(d)'
       /\ starting'[c] = s
  <2>1. stranded \subseteq stranded' /\ batch'[b].status = batch[b].status
        /\ \A a \in JobBatches : a # b => run'[a] = run[a] /\ batch'[a] = batch[a]
    BY <1>8
  <2>2. UNCHANGED <<exec, did, raced, jobDied, called>>
        /\ (batch'[b].status = "completed" => batch[b].status = "completed")
    BY <1>8
  <2> QED BY <1>2, <1>6, <1>8, <2>1, <2>2, JbStep
<1>11. Starts(c)'
  <2>1. QueuedTo(b, 2 * i + 1)'
    <3>1. \A h \in 1..JobCount : /\ 2 * h > 2 * i + 1 => 2 * h > 2 * i
                                 /\ 2 * h <= 2 * i + 1 => 2 * h <= 2 * i
      BY <1>4
    <3> QED BY <1>2, <1>8, <3>1 DEF Begins, QueuedTo
  <2>2. ~(2 * i + 1 > 2 * JobCount + 1) /\ 2 * i + 1 # LastOp
    BY <1>4 DEF LastOp
  <2>3. Begins(c, b, 2 * i + 1)'
    BY <1>5, <1>10, <2>1, <2>2 DEF Begins, Rest
  <2> QED BY <1>2, <1>4, <1>8, <2>3 DEF Starts
<1>12. JobTables'
  BY <1>8, <1>9 DEF JobsInv, JobTables
<1>13. Jb!CompletedDidItsWork' /\ Jb!ProgressIsTrue'
  BY <1>8 DEF JobsInv, Jb!CompletedDidItsWork, Jb!ProgressIsTrue
<1>14. Jb!LastRunIsNewest'
  <2>1. Moves(b)
    BY <1>2 DEF Moves
  <2>2. run[b][g] # "none" /\ (run[b][g] = "queued" \/ <<b, g>> \in called)
    <3>1. QueuedTo(b, 2 * i) /\ 2 * i <= 2 * i
      BY <1>2, <1>4 DEF Begins
    <3> QED BY <1>2, <1>3, <3>1 DEF QueuedTo
  <2>3. Excused' \/ last'[g] = [batch |-> b, status |-> run'[b][g]]
    BY <1>8, <1>9, <2>2 DEF Excused
  <2>4. ASSUME NEW a \in JobBatches, NEW j \in Jb!JobNames, j # g, PointerDue(a, j)
        PROVE  PointerDue(a, j)'
    <3>1. starting[c][1] # Jb!Op("last", a, j)
      BY <1>7, <2>4 DEF Jb!Op
    <3>2. \A d \in Starters : d # c => starting'[d] = starting[d]
      BY <1>8 DEF JobsInv, JobTables
    <3> QED BY <1>8, <2>4, <3>1, <3>2 DEF PointerDue, Jb!Writes, Jb!Running, Jb!Job
  <2>5. /\ run'[b][g] # "none" /\ \A j \in Jb!JobNames : j # g => last'[j] = last[j]
        /\ \A a \in JobBatches, j \in Jb!JobNames : a # b \/ j # g => run'[a][j] = run[a][j]
    BY <1>8, <1>9, <2>2
  <2>6. \A a \in JobBatches, j \in Jb!JobNames : j # g /\ PointerDue(a, j) => PointerDue(a, j)'
    BY <2>4
  <2> QED BY <1>10, <2>1, <2>3, <2>5, <2>6, JbLastMoves
<1>15. Orderly' => InTurn'
  BY <1>2, <1>6, <1>8, JbTurnStart DEF Orderly
<1> QED BY <1>10, <1>11, <1>12, <1>13, <1>14, <1>15 DEF JobsInv

LEMMA JbPutsBatch == ASSUME JobsAssumption, JobsInv, NEW c \in Starters, Jb!PutBatch(c) PROVE JobsInv'
<1>1. Jb!Does(c, "batch")
  BY DEF Jb!PutBatch
<1>2. PICK b \in JobBatches :
        /\ starting[c] # <<>> /\ exec[b] = Jb!NoWork /\ starting[c][1].b = b
        /\ starting[c][1].do = "batch"
        /\ Begins(c, b, 2 * JobCount + 1) /\ Tail(starting[c]) = Rest(b, (2 * JobCount + 1) + 1)
  BY <1>1, JbAt
<1>3. JobCount \in Nat /\ (2 * JobCount + 1) + 1 = 2 * JobCount + 2 /\ 2 * JobCount + 2 \in 1..LastOp
  BY JbOrder DEF LastOp
<1>4. PICK s : s = Rest(b, 2 * JobCount + 2)
  OBVIOUS
<1>5. s # <<>> /\ s[1].b = b
  BY <1>3, <1>4, JbRest
<1>6. PICK new : new = [status |-> "running", jobs |-> Jb!Each("queued"), index |-> 0]
  OBVIOUS
<1>7. /\ batch' = [batch EXCEPT ![b] = new] /\ starting' = [starting EXCEPT ![c] = s]
      /\ UNCHANGED <<run, last, active, exec, did, raced, jobDied, stranded, called>>
  BY <1>2, <1>3, <1>4, <1>6 DEF Jb!PutBatch, Jb!Go, Jb!ghosts
<1>8. new \in JobBatch /\ new.status = "running"
      /\ new.index = Cardinality(Ended(new.jobs))
  <2>1. Jb!Each("queued") \in [Jb!JobNames -> Jb!Statuses] /\ 0 \in 0..JobCount
    BY <1>3 DEF Jb!Each, Jb!Statuses
  <2>2. Ended(new.jobs) = {}
    BY <1>6 DEF Ended, Jb!Each, Jb!Closed
  <2> QED BY <1>6, <2>1, <2>2, FS_EmptySet DEF JobBatch
<1>9. batch'[b] = new /\ \A a \in JobBatches : a # b => batch'[a] = batch[a]
  BY <1>7 DEF JobsInv, JobTables
<1>10. /\ NothingUndone /\ StartsApart' /\ \A a \in JobBatches : Executes(a)'
       /\ \A d \in Starters : d # c => Starts(d)'
       /\ starting'[c] = s
  <2>1. stranded \subseteq stranded' /\ batch'[b].status # "completed"
        /\ \A a \in JobBatches : a # b => run'[a] = run[a] /\ batch'[a] = batch[a]
    BY <1>7, <1>8, <1>9
  <2>2. UNCHANGED <<exec, did, raced, jobDied, called>>
        /\ (batch'[b].status = "completed" => batch[b].status = "completed")
    BY <1>7, <2>1
  <2> QED BY <1>2, <1>5, <1>7, <2>1, <2>2, JbStep, Zenon
<1>11. Starts(c)'
  <2>1. QueuedTo(b, 2 * JobCount + 2)'
    <3>1. \A h \in 1..JobCount : ~(2 * h > 2 * JobCount + 2) /\ 2 * h <= 2 * JobCount + 1
      BY <1>3
    <3> QED BY <1>2, <1>7, <3>1 DEF Begins, QueuedTo
  <2>2. 2 * JobCount + 2 # LastOp
    BY <1>3 DEF LastOp
  <2>3. Begins(c, b, 2 * JobCount + 2)'
    BY <1>4, <1>8, <1>9, <1>10, <2>1, <2>2 DEF Begins, Rest
  <2> QED BY <1>2, <1>3, <1>7, <2>3 DEF Starts
<1>12. JobTables'
  BY <1>7, <1>8 DEF JobsInv, JobTables
<1>13. Jb!CompletedDidItsWork' /\ Jb!ProgressIsTrue'
  <2>1. Jb!CompletedDidItsWork'
    BY <1>7 DEF JobsInv, Jb!CompletedDidItsWork
  <2>2. Jb!ProgressIsTrue'
    BY <1>8, <1>9, JbProgress
  <2> QED BY <2>1, <2>2
<1>14. Jb!LastRunIsNewest'
  BY <1>2, <1>7, <1>10, JbWaits, JbLastStays
<1>15. Orderly' => InTurn'
  BY <1>2, <1>5, <1>7, JbTurnStart DEF Orderly
<1> QED BY <1>10, <1>11, <1>12, <1>13, <1>14, <1>15 DEF JobsInv

LEMMA JbSetsActive == ASSUME JobsAssumption, JobsInv, NEW c \in Starters, Jb!SetActive(c) PROVE JobsInv'
<1>1. Jb!Does(c, "active")
  BY DEF Jb!SetActive
<1>2. PICK b \in JobBatches :
        /\ starting[c] # <<>> /\ exec[b] = Jb!NoWork /\ starting[c][1].b = b
        /\ starting[c][1].do = "active"
        /\ Begins(c, b, 2 * JobCount + 2) /\ Tail(starting[c]) = Rest(b, (2 * JobCount + 2) + 1)
  BY <1>1, JbAt
<1>3. JobCount \in Nat /\ (2 * JobCount + 2) + 1 = LastOp /\ LastOp \in 1..LastOp
  BY JbOrder DEF LastOp
<1>4. PICK s : s = Rest(b, LastOp)
  OBVIOUS
<1>5. s # <<>> /\ s[1].b = b
  BY <1>3, <1>4, JbRest
<1>6. /\ active' = b /\ starting' = [starting EXCEPT ![c] = s]
      /\ UNCHANGED <<run, last, batch, exec, did, raced, jobDied, stranded, called>>
  BY <1>2, <1>3, <1>4 DEF Jb!SetActive, Jb!Go, Jb!ghosts
<1>7. /\ NothingUndone /\ StartsApart' /\ \A a \in JobBatches : Executes(a)'
      /\ \A d \in Starters : d # c => Starts(d)'
      /\ starting'[c] = s
  <2>1. stranded \subseteq stranded' /\ batch'[b].status = batch[b].status
        /\ \A a \in JobBatches : a # b => run'[a] = run[a] /\ batch'[a] = batch[a]
    BY <1>6
  <2>2. UNCHANGED <<exec, did, raced, jobDied, called>>
        /\ (batch'[b].status = "completed" => batch[b].status = "completed")
    BY <1>6
  <2> QED BY <1>2, <1>5, <1>6, <2>1, <2>2, JbStep
<1>8. Starts(c)'
  <2>1. QueuedTo(b, LastOp)'
    <3>1. \A h \in 1..JobCount : ~(2 * h > LastOp) /\ 2 * h <= 2 * JobCount + 2
      BY <1>3 DEF LastOp
    <3> QED BY <1>2, <1>6, <3>1 DEF Begins, QueuedTo
  <2>2. batch[b].status = "running"
    BY <1>2, <1>3 DEF Begins
  <2>3. Begins(c, b, LastOp)'
    BY <1>4, <1>6, <1>7, <2>1, <2>2 DEF Begins, Rest
  <2> QED BY <1>2, <1>3, <1>6, <2>3 DEF Starts
<1>9. JobTables'
  BY <1>6 DEF JobsInv, JobTables
<1>10. Jb!CompletedDidItsWork' /\ Jb!ProgressIsTrue'
  BY <1>6 DEF JobsInv, Jb!CompletedDidItsWork, Jb!ProgressIsTrue
<1>11. Jb!LastRunIsNewest'
  BY <1>2, <1>6, <1>7, JbWaits, JbLastStays
<1>12. Orderly' => InTurn'
  BY <1>2, <1>5, <1>6, JbTurnStart DEF Orderly
<1> QED BY <1>7, <1>8, <1>9, <1>10, <1>11, <1>12 DEF JobsInv

\* A batch closed: only its status changes.
LEMMA JbClosing ==
  ASSUME JobsInv, NEW b \in JobBatches, NEW st \in {"completed", "failed"}
  PROVE  \E new \in JobBatch : /\ new = [batch[b] EXCEPT !.status = st]
                                /\ new.jobs = batch[b].jobs /\ new.index = batch[b].index
                                /\ new.status = st
<1>1. PICK o \in JobBatch : o = batch[b]
  BY DEF JobsInv, JobTables
<1> DEFINE new == [o EXCEPT !.status = st]
<1>2. new \in JobBatch /\ new.jobs = o.jobs /\ new.index = o.index /\ new.status = st
  BY <1>1 DEF JobBatch
<1> HIDE DEF new
<1>3. new = [batch[b] EXCEPT !.status = st]
  BY <1>1 DEF new
<1> QED BY <1>1, <1>2, <1>3

\* Nothing of a job is done yet.
LEMMA JbFresh ==
  ASSUME JobsAssumption, NEW b \in JobBatches, NEW j \in Jb!JobNames,
         exec'[b].step = 0, exec'[b].done = {}, exec'[b].writes = <<>>, exec'[b].status = "none"
  PROVE  AtWork(b, j)'
<1>1. JobSteps[j] \in Nat \ {0}
  BY DEF JobsAssumption
<1>2. 1..0 = {}
  OBVIOUS
<1>3. exec'[b].done = 1..exec'[b].step /\ exec'[b].step < JobSteps[j]
  BY <1>1, <1>2
<1>4. exec'[b].writes \notin {<<"last", "record">>, <<"record">>, <<"return">>}
  OBVIOUS
<1>5. exec'[b].writes # <<"return">>
  BY <1>4
<1> QED BY <1>3, <1>4, <1>5 DEF AtWork

LEMMA JbStartsExecution ==
  ASSUME JobsAssumption, JobsInv, NEW c \in Starters, Jb!StartExecution(c) PROVE JobsInv'
<1>1. Jb!Does(c, "execute")
  BY DEF Jb!StartExecution
<1>2. PICK b \in JobBatches :
        /\ starting[c] # <<>> /\ exec[b] = Jb!NoWork /\ starting[c][1].b = b
        /\ starting[c][1].do = "execute" /\ Begins(c, b, LastOp)
  BY <1>1, JbAt
<1>3. PICK w : w = [Jb!NoWork EXCEPT !.state = "running", !.todo = JobOrder]
  OBVIOUS
<1>4. /\ exec' = [exec EXCEPT ![b] = w] /\ starting' = [starting EXCEPT ![c] = <<>>]
      /\ UNCHANGED <<run, last, batch, active, did, raced, jobDied, stranded, called>>
  BY <1>2, <1>3 DEF Jb!StartExecution, Jb!records, Jb!ghosts
<1>5. /\ w \in JobWork /\ w.state = "running" /\ w.todo = JobOrder /\ w.step = 0 /\ w.done = {}
      /\ w.writes = <<>> /\ w.status = "none"
  BY <1>3 DEF JobWork, Jb!NoWork, Outcome, JobsAssumption
<1>6. /\ exec'[b] = w /\ \A a \in JobBatches : a # b => exec'[a] = exec[a]
      /\ starting'[c] = <<>> /\ \A d \in Starters : d # c => starting'[d] = starting[d]
  BY <1>4 DEF JobsInv, JobTables
<1>7. NothingUndone /\ (Orderly' => Orderly)
  BY <1>4 DEF NothingUndone, Orderly
<1>8. /\ \A d \in Starters : d # c /\ starting[d] # <<>> => starting[d][1].b # b
      /\ Orderly => \A d \in Starters : d # c => starting[d] = <<>>
      /\ Orderly => \A a \in JobBatches : exec[a].state \notin {"running", "finalising"}
  BY <1>2, JbAlone
<1>9. /\ StartsApart' /\ \A d \in Starters : d # c => Starts(d)'
      /\ \A a \in JobBatches : a # b => Executes(a)'
  BY <1>4, <1>6, <1>7, <1>8, JbStartMoves
<1>10. Starts(c)'
  BY <1>6 DEF Starts
<1>11. \A j \in Jb!JobNames : run[b][j] # "none"
  <2>1. \A h \in 1..JobCount : 2 * h <= LastOp
    BY JbOrder DEF LastOp
  <2> QED BY <1>2, <2>1, JbOrder DEF Begins, QueuedTo
<1>12. batch[b].status = "running" /\ (Orderly => active = b)
  BY <1>2, JbOrder DEF Begins, LastOp
<1>13. Executes(b)'
  <2>1. ToldTo(b, 1)'
    BY JbOrder DEF ToldTo
  <2>2. AtWork(b, JobOrder[1])'
    <3>1. JobOrder[1] \in Jb!JobNames
      BY JbOrder
    <3> QED BY <1>5, <1>6, <3>1, JbFresh
  <2>3. w.todo = SubSeq(JobOrder, 1, JobCount)
    BY <1>5, SubSeqFull DEF JobsAssumption, JobCount
  <2>4. 1 \in 1..(JobCount + 1) /\ ~(1 > JobCount)
    BY JbOrder
  <2> QED BY <1>4, <1>5, <1>6, <1>11, <1>12, <2>1, <2>2, <2>3, <2>4 DEF Executes
<1>14. JobTables'
  BY <1>4, <1>5 DEF JobsInv, JobTables
<1>15. Jb!CompletedDidItsWork' /\ Jb!ProgressIsTrue'
  BY <1>4 DEF JobsInv, Jb!CompletedDidItsWork, Jb!ProgressIsTrue
<1>16. Jb!LastRunIsNewest'
  <2>1. ASSUME NEW a \in JobBatches, NEW j \in Jb!JobNames, PointerDue(a, j) PROVE PointerDue(a, j)'
    <3>1. starting[c][1] # Jb!Op("last", a, j)
      BY <1>2 DEF Jb!Op
    <3>2. ~Jb!Writes(b, "last")
      BY <1>2 DEF Jb!Writes, Jb!Running, Jb!NoWork
    <3> QED BY <1>6, <2>1, <3>1, <3>2 DEF PointerDue, Jb!Writes, Jb!Running, Jb!Job
  <2> QED BY <1>4, <1>7, <2>1, JbLastStays
<1>17. ASSUME Orderly PROVE InTurn'
  <2>1. InTurn
    BY <1>17 DEF JobsInv
  <2>2. \A d \in Starters : starting'[d] = <<>>
    BY <1>6, <1>8, <1>17
  <2>3. \A a \in JobBatches : exec'[a].state # "finalising" /\ (exec'[a].state = "running" => a = b)
    BY <1>5, <1>6, <1>8, <1>17
  <2>4. \A a \in JobBatches : Moves(a)' => a = b
    BY <2>2, <2>3 DEF Moves
  <2>5. \A a \in JobBatches, j \in Jb!JobNames : a > b => run'[a][j] = "none"
    BY <1>2, <1>4, <2>1 DEF InTurn, Moves
  <2>6. \A a \in JobBatches : Jb!Used(a)' <=> Jb!Used(a)
    <3>1. \A a \in JobBatches : a # b => (Jb!Used(a)' <=> Jb!Used(a))
      BY <1>2, <1>4, <1>8, <1>17, <2>2 DEF Jb!Used
    <3>2. \E j \in Jb!JobNames : run[b][j] # "none"
      BY <1>11, JbOrder
    <3> QED BY <1>4, <3>1, <3>2 DEF Jb!Used
  <2>7. \A a, d \in JobBatches : Jb!Used(a)' /\ d < a => Jb!Used(d)'
    BY <2>1, <2>6 DEF InTurn
  <2> QED BY <1>4, <1>12, <1>17, <2>2, <2>3, <2>4, <2>5, <2>7 DEF InTurn
<1> QED BY <1>7, <1>9, <1>10, <1>13, <1>14, <1>15, <1>16, <1>17 DEF JobsInv

LEMMA JbStartFails == ASSUME JobsAssumption, JobsInv, NEW c \in Starters, Jb!StartFails(c) PROVE JobsInv'
<1>1. Jb!Does(c, "execute")
  BY DEF Jb!StartFails
<1>2. PICK b \in JobBatches :
        /\ starting[c] # <<>> /\ exec[b] = Jb!NoWork /\ starting[c][1].b = b
        /\ starting[c][1].do = "execute" /\ Begins(c, b, LastOp)
        /\ starting[c][1] = Jb!Op("execute", b, JobOrder[1])
  BY <1>1, JbAt
<1>3. PICK s : s = <<Jb!Op("clear", b, JobOrder[1])>>
  OBVIOUS
<1>4. s # <<>> /\ s[1].b = b
  BY <1>3 DEF Jb!Op
<1>5. starting[c][1].j = JobOrder[1]
  BY <1>2 DEF Jb!Op
<1>6. /\ batch' = [batch EXCEPT ![b].status = "failed"] /\ starting' = [starting EXCEPT ![c] = s]
      /\ UNCHANGED <<run, last, active, exec, did, raced, jobDied, stranded, called>>
  BY <1>2, <1>3, <1>5 DEF Jb!StartFails, Jb!ghosts
<1>7. PICK new \in JobBatch : /\ new = [batch[b] EXCEPT !.status = "failed"]
                              /\ new.jobs = batch[b].jobs /\ new.index = batch[b].index
                              /\ new.status = "failed"
  BY JbClosing
<1>8. batch' = [batch EXCEPT ![b] = new] /\ batch'[b] = new
      /\ \A a \in JobBatches : a # b => batch'[a] = batch[a]
  BY <1>6, <1>7 DEF JobsInv, JobTables
<1>9. /\ NothingUndone /\ StartsApart' /\ \A a \in JobBatches : Executes(a)'
      /\ \A d \in Starters : d # c => Starts(d)'
      /\ starting'[c] = s
  <2>1. stranded \subseteq stranded' /\ batch'[b].status # "completed"
        /\ \A a \in JobBatches : a # b => run'[a] = run[a] /\ batch'[a] = batch[a]
    BY <1>6, <1>7, <1>8
  <2>2. UNCHANGED <<exec, did, raced, jobDied, called>>
        /\ (batch'[b].status = "completed" => batch[b].status = "completed")
    BY <1>6, <2>1
  <2> QED BY <1>2, <1>4, <1>6, <2>1, <2>2, JbStep, Zenon
<1>10. Starts(c)'
  <2>1. \A h \in 1..JobCount : 2 * h <= LastOp
    BY JbOrder DEF LastOp
  <2>2. \A j \in Jb!JobNames : run[b][j] # "none"
    BY <1>2, <2>1, JbOrder DEF Begins, QueuedTo
  <2>3. Refused(c, b)'
    BY <1>3, <1>6, <1>9, <2>2 DEF Refused
  <2> QED BY <1>2, <1>6, <2>3 DEF Starts
<1>11. JobTables'
  BY <1>6, <1>8 DEF JobsInv, JobTables
<1>12. Jb!CompletedDidItsWork' /\ Jb!ProgressIsTrue'
  <2>1. Jb!CompletedDidItsWork'
    BY <1>6 DEF JobsInv, Jb!CompletedDidItsWork
  <2>2. batch'[b].index = Cardinality(Ended(batch'[b].jobs))
    <3>1. batch[b].index = Cardinality(Ended(batch[b].jobs))
      BY JbCardinality DEF JobsInv, Jb!ProgressIsTrue, Ended
    <3> QED BY <1>7, <1>8, <3>1
  <2>3. Jb!ProgressIsTrue'
    BY <1>8, <2>2, JbProgress
  <2> QED BY <2>1, <2>3
<1>13. Jb!LastRunIsNewest'
  BY <1>2, <1>6, <1>9, JbWaits, JbLastStays
<1>14. Orderly' => InTurn'
  BY <1>2, <1>4, <1>6, JbTurnStart DEF Orderly
<1> QED BY <1>9, <1>10, <1>11, <1>12, <1>13, <1>14 DEF JobsInv

LEMMA JbClears == ASSUME JobsAssumption, JobsInv, NEW c \in Starters, Jb!ClearActive(c) PROVE JobsInv'
<1>1. Jb!Does(c, "clear")
  BY DEF Jb!ClearActive
<1>2. PICK b \in JobBatches :
        /\ starting[c] # <<>> /\ exec[b] = Jb!NoWork /\ starting[c][1].b = b
        /\ starting[c][1].do = "clear" /\ Refused(c, b) /\ Tail(starting[c]) = <<>>
  BY <1>1, JbAt
<1>3. /\ active' = NoJobBatch /\ starting' = [starting EXCEPT ![c] = <<>>]
      /\ UNCHANGED <<run, last, batch, exec, did, raced, jobDied, stranded, called>>
  BY <1>2 DEF Jb!ClearActive, Jb!Go, Jb!ghosts
<1>4. /\ NothingUndone /\ StartsApart' /\ \A a \in JobBatches : Executes(a)'
      /\ \A d \in Starters : d # c => Starts(d)'
      /\ starting'[c] = <<>>
  <2>1. stranded \subseteq stranded' /\ (batch'[b].status = "completed" => batch[b].status = "completed")
        /\ \A a \in JobBatches : a # b => run'[a] = run[a] /\ batch'[a] = batch[a]
    BY <1>3
  <2>2. UNCHANGED <<exec, did, raced, jobDied, called>>
    BY <1>3
  <2> QED BY <1>2, <1>3, <2>1, <2>2, JbStep
<1>5. Starts(c)'
  BY <1>4 DEF Starts
<1>6. JobTables'
  BY <1>3 DEF JobsInv, JobTables
<1>7. Jb!CompletedDidItsWork' /\ Jb!ProgressIsTrue'
  BY <1>3 DEF JobsInv, Jb!CompletedDidItsWork, Jb!ProgressIsTrue
<1>8. Jb!LastRunIsNewest'
  BY <1>2, <1>3, <1>4, JbWaits, JbLastStays
<1>9. Orderly' => InTurn'
  <2>1. \E j \in Jb!JobNames : run[b][j] # "none"
    BY <1>2, JbOrder DEF Refused
  <2> QED BY <1>2, <1>3, <2>1, JbTurnStart DEF Orderly
<1> QED BY <1>4, <1>5, <1>6, <1>7, <1>8, <1>9 DEF JobsInv

LEMMA JbStartDies == ASSUME JobsAssumption, JobsInv, NEW c \in Starters, Jb!StartDies(c) PROVE JobsInv'
<1>1. starting[c] # <<>>
  BY DEF Jb!StartDies
<1>2. PICK b \in JobBatches : exec[b] = Jb!NoWork /\ starting[c][1].b = b
  BY <1>1, JbDoing
<1>3. /\ starting' = [starting EXCEPT ![c] = <<>>] /\ stranded' = stranded \cup {b}
      /\ UNCHANGED <<run, last, batch, active, exec, did, raced, jobDied, called>>
  BY <1>2 DEF Jb!StartDies, Jb!records
<1>4. /\ NothingUndone /\ StartsApart' /\ \A a \in JobBatches : Executes(a)'
      /\ \A d \in Starters : d # c => Starts(d)'
      /\ starting'[c] = <<>>
  <2>1. stranded \subseteq stranded' /\ (batch'[b].status = "completed" => batch[b].status = "completed")
        /\ \A a \in JobBatches : a # b => run'[a] = run[a] /\ batch'[a] = batch[a]
    BY <1>3
  <2>2. UNCHANGED <<exec, did, raced, jobDied, called>>
    BY <1>3
  <2> QED BY <1>1, <1>2, <1>3, <2>1, <2>2, JbStep
<1>5. Starts(c)'
  BY <1>4 DEF Starts
<1>6. JobTables'
  BY <1>3 DEF JobsInv, JobTables
<1>7. Jb!CompletedDidItsWork' /\ Jb!ProgressIsTrue'
  BY <1>3 DEF JobsInv, Jb!CompletedDidItsWork, Jb!ProgressIsTrue
<1>8. stranded' # {}
  BY <1>3
<1>9. Jb!LastRunIsNewest' /\ ~Orderly'
  BY <1>8 DEF Jb!LastRunIsNewest, Orderly
<1> QED BY <1>4, <1>5, <1>6, <1>7, <1>9 DEF JobsInv

LEMMA JbStartsBatch ==
  ASSUME JobsAssumption, JobsInv, NEW c \in Starters, NEW b \in JobBatches, Jb!StartBatch(c, b)
  PROVE  JobsInv'
<1>1. PICK s : s = Rest(b, 1)
  OBVIOUS
<1>2. LastOp \in Nat /\ JobCount \in Nat /\ JobCount >= 1 /\ 1 \in 1..LastOp
  BY JbOrder DEF LastOp
<1>3. s = Jb!StartOps(b) /\ s # <<>> /\ s[1].b = b /\ s[1].do # "last"
  <2>1. s = Jb!StartOps(b)
    BY <1>1, JbOps, SubSeqFull DEF Rest
  <2>2. s # <<>> /\ s[1] = Jb!StartOps(b)[1] /\ s[1].b = b
    BY <1>1, <1>2, JbRest
  <2>3. 1 \in 1..JobCount /\ 2 * 1 - 1 = 1
    BY <1>2
  <2>4. s[1] = Jb!Op("run", b, JobOrder[1])
    BY <2>2, <2>3, JbOps
  <2> QED BY <2>1, <2>2, <2>4 DEF Jb!Op
<1>4. /\ starting[c] = <<>> /\ ~Jb!Used(b) /\ \A a \in JobBatches : ~Jb!Used(a) => b <= a
      /\ starting' = [starting EXCEPT ![c] = s] /\ Jb!Free
      /\ raced' = (\/ raced \/ \E d \in Starters : starting[d] # <<>>
                   \/ \E a \in JobBatches : exec[a].state = "finalising")
      /\ UNCHANGED <<run, last, batch, active, exec, did, jobDied, stranded, called>>
  BY <1>3 DEF Jb!StartBatch, Jb!records
<1>5. raced' \in BOOLEAN /\ (raced => raced') /\ NothingUndone
  BY <1>4 DEF NothingUndone, JobsInv, JobTables
<1>6. \A j \in Jb!JobNames : run[b][j] = "none"
  BY <1>4 DEF Jb!Used
<1>7. exec[b] = Jb!NoWork
  <2>1. \E j \in Jb!JobNames : run[b][j] = "none"
    BY <1>6, JbOrder
  <2> QED BY <2>1 DEF JobsInv, Executes
<1>8. Orderly' => Orderly /\ (\A d \in Starters : starting[d] = <<>>)
                  /\ \A a \in JobBatches : exec[a].state # "finalising"
  BY <1>4 DEF Orderly
<1>9. /\ StartsApart' /\ \A d \in Starters : d # c => Starts(d)'
      /\ \A a \in JobBatches : a # b => Executes(a)'
  <2>1. \A d \in Starters : d # c /\ starting[d] # <<>> => starting[d][1].b # b
    BY <1>4 DEF Jb!Used
  <2>2. Orderly' => \A d \in Starters : d # c => starting[d] = <<>>
    BY <1>8
  <2>3. \A a \in JobBatches :
           a # b => exec'[a] = exec[a] /\ run'[a] = run[a] /\ batch'[a] = batch[a]
    BY <1>4
  <2> QED BY <1>3, <1>4, <1>5, <2>1, <2>2, <2>3, JbStartMoves
<1>10. starting'[c] = s /\ \A d \in Starters : d # c => starting'[d] = starting[d]
  BY <1>4 DEF JobsInv, JobTables
<1>11. Starts(c)'
  <2>1. QueuedTo(b, 1)'
    <3>1. \A h \in 1..JobCount : ~(2 * h <= 1) /\ JobOrder[h] \in Jb!JobNames
      BY <1>2, JbOrder
    <3> QED BY <1>4, <1>6, <3>1 DEF QueuedTo
  <2>2. ~(1 > 2 * JobCount + 1) /\ 1 # LastOp
    BY <1>2 DEF LastOp
  <2>3. Begins(c, b, 1)'
    BY <1>1, <1>10, <2>1, <2>2 DEF Begins, Rest
  <2> QED BY <1>2, <1>4, <1>7, <2>3 DEF Starts
<1>12. Executes(b)'
  <2>1. batch'[b].status # "completed"
    BY <1>4, <1>7 DEF JobsInv, Executes, Jb!NoWork
  <2> QED BY <1>4, <1>7, <2>1, JbIdles
<1>13. JobTables'
  BY <1>4, <1>5 DEF JobsInv, JobTables
<1>14. Jb!CompletedDidItsWork' /\ Jb!ProgressIsTrue'
  BY <1>4 DEF JobsInv, Jb!CompletedDidItsWork, Jb!ProgressIsTrue
<1>15. Jb!LastRunIsNewest'
  BY <1>4, <1>5, JbWaits, JbLastStays
<1>16. ASSUME Orderly' PROVE InTurn'
  <2>1. Orderly /\ InTurn /\ \A a \in JobBatches : exec[a].state # "finalising"
    BY <1>8, <1>16 DEF JobsInv
  <2>2. \A d \in Starters : d # c => starting'[d] = <<>>
    BY <1>8, <1>10, <1>16
  <2>3. \A a \in JobBatches : exec[a].state # "running"
    <3>1. SUFFICES ASSUME NEW a \in JobBatches, exec[a].state = "running" PROVE FALSE
      OBVIOUS
    <3>2. active = a /\ batch[a].status = "running"
      BY <2>1, <3>1 DEF InTurn
    <3>3. active # NoJobBatch
      BY <3>2 DEF JobsAssumption
    <3> QED BY <1>4, <3>2, <3>3 DEF Jb!Free
  <2>4. \A a \in JobBatches : Moves(a)' => a = b
    BY <1>3, <1>4, <1>10, <2>2, <2>3 DEF Moves
  <2>5. \A a \in JobBatches : Jb!Used(a)' <=> Jb!Used(a) \/ a = b
    <3>1. \A a \in JobBatches : Jb!Used(a) <=> \E j \in Jb!JobNames : run[a][j] # "none"
      BY <1>8, <1>16 DEF Jb!Used
    <3>2. \A a \in JobBatches :
            (\E d \in Starters : starting'[d] # <<>> /\ starting'[d][1].b = a) <=> a = b
      BY <1>3, <1>10, <2>2
    <3> QED BY <1>4, <3>1, <3>2 DEF Jb!Used
  <2>6. \A a \in JobBatches, j \in Jb!JobNames : a > b => run'[a][j] = "none"
    <3>1. \A a \in JobBatches : a > b => ~Jb!Used(a)
      <4>1. \A a \in JobBatches : a > b => b < a
        BY DEF JobsAssumption
      <4> QED BY <1>4, <2>1, <4>1 DEF InTurn
    <3> QED BY <1>4, <3>1 DEF Jb!Used
  <2>7. \A a, d \in JobBatches : Jb!Used(a)' /\ d < a => Jb!Used(d)'
    <3>1. \A d \in JobBatches : d < b => Jb!Used(d)
      <4>1. \A d \in JobBatches : d < b => ~(b <= d)
        BY DEF JobsAssumption
      <4> QED BY <1>4, <4>1
    <3> QED BY <2>1, <2>5, <3>1 DEF InTurn
  <2> QED BY <1>4, <2>1, <2>2, <2>3, <2>4, <2>6, <2>7 DEF InTurn
<1> QED BY <1>9, <1>11, <1>12, <1>13, <1>14, <1>15, <1>16 DEF JobsInv

-----------------------------------------------------------------------------
(* The steps of an execution.                                                *)

\* The runner is at the m-th job, and only what is told of it changes.
LEMMA JbWorks ==
  ASSUME JobsAssumption, JobsInv, NEW b \in JobBatches, NEW m \in 1..JobCount,
         exec[b].state = "running", NothingUndone, ToldTo(b, m), exec'[b].state = "running",
         exec'[b].todo = SubSeq(JobOrder, m, JobCount), AtWork(b, JobOrder[m])',
         \A j \in Jb!JobNames :
           /\ j # JobOrder[m] => /\ run'[b][j] = run[b][j]
                                 /\ batch'[b].jobs[j] = batch[b].jobs[j]
           /\ run'[b][j] = "none" => run[b][j] = "none",
         batch'[b].status = batch[b].status
  PROVE  Executes(b)'
<1>1. JobCount \in Nat /\ m \in 1..(JobCount + 1) /\ ~(m > JobCount)
  BY JbOrder
<1>2. ToldTo(b, m)'
  <2>1. \A i \in 1..JobCount : i < m => JobOrder[i] # JobOrder[m] /\ JobOrder[i] \in Jb!JobNames
    BY JbOrder
  <2> QED BY <2>1 DEF ToldTo, NothingUndone
<1>3. batch'[b].status # "completed" /\ \A j \in Jb!JobNames : run'[b][j] # "none"
  BY DEF JobsInv, Executes
<1> QED BY <1>1, <1>2, <1>3 DEF Executes

\* The runner goes on to the next job, or there is none.
LEMMA JbGoesOn ==
  ASSUME JobsAssumption, JobsInv, NEW b \in JobBatches, NEW m \in 1..JobCount,
         exec[b].state = "running", ToldTo(b, m + 1)', exec'[b].state = "running",
         exec'[b].todo = SubSeq(JobOrder, m + 1, JobCount),
         exec'[b].step = 0, exec'[b].done = {}, exec'[b].writes = <<>>, exec'[b].status = "none",
         UNCHANGED <<run, batch>>
  PROVE  Executes(b)'
<1>1. JobCount \in Nat /\ m + 1 \in 1..(JobCount + 1)
  BY JbOrder
<1>2. ASSUME ~(m + 1 > JobCount) PROVE AtWork(b, JobOrder[m + 1])'
  <2>1. JobOrder[m + 1] \in Jb!JobNames
    BY <1>1, <1>2, JbOrder
  <2> QED BY <2>1, JbFresh
<1>3. batch'[b].status # "completed" /\ \A j \in Jb!JobNames : run'[b][j] # "none"
  BY DEF JobsInv, Executes
<1> QED BY <1>1, <1>2, <1>3 DEF Executes

\* The pointers still to write, where b writes none of a job other than g.
LEMMA JbPends ==
  ASSUME JobsInv, NEW b \in JobBatches, NEW w, exec' = [exec EXCEPT ![b] = w], UNCHANGED starting,
         NEW g, Jb!Writes(b, "last") => Jb!Job(b) = g
  PROVE  \A a \in JobBatches, j \in Jb!JobNames :
           (j # g \/ ~Jb!Writes(b, "last")) /\ PointerDue(a, j) => PointerDue(a, j)'
<1>1. \A a \in JobBatches : a # b => exec'[a] = exec[a]
  BY DEF JobsInv, JobTables
<1> QED BY <1>1 DEF PointerDue, Jb!Writes, Jb!Running, Jb!Job

LEMMA JbInvokes ==
  ASSUME JobsAssumption, JobsInv, NEW b \in JobBatches, NEW x \in Jb!Answers, Jb!Invoke(b, x)
  PROVE  JobsInv'
<1>1. Jb!Running(b) /\ exec[b].writes = <<>> /\ exec[b].state = "running"
  BY DEF Jb!Invoke, Jb!Running
<1>2. PICK m \in 1..JobCount :
        /\ exec[b].todo = SubSeq(JobOrder, m, JobCount) /\ ToldTo(b, m)
        /\ Jb!Job(b) = JobOrder[m] /\ AtWork(b, JobOrder[m])
  BY <1>1, JbRunning
<1>3. PICK g \in Jb!JobNames : g = JobOrder[m]
  BY JbOrder
<1>4. PICK o \in JobWork : o = exec[b]
  BY DEF JobsInv, JobTables
<1>5. /\ o.done = 1..o.step /\ o.step < JobSteps[g] /\ o.status = "none" /\ o.step \in Nat
      /\ JobSteps[g] \in Nat
  BY <1>1, <1>2, <1>3, <1>4 DEF AtWork, JobWork, JobsAssumption
<1> DEFINE n == o.step + 1
           over == ~Jb!Accepts(x) \/ n = JobSteps[g]
           dn == o.done \cup (IF Jb!Worked(x) THEN {n} ELSE {})
           st == IF ~over THEN o.status ELSE IF Jb!Accepts(x) THEN "completed" ELSE "failed"
           wr == IF over THEN <<"run", "last", "record">> ELSE <<>>
<1>w. PICK w : w = [o EXCEPT !.step = n, !.done = dn, !.status = st, !.writes = wr]
  OBVIOUS
<1>6. /\ w \in JobWork /\ w.state = o.state /\ w.todo = o.todo
      /\ w.step = n /\ w.done = dn /\ w.status = st /\ w.writes = wr
  <2>1. n \in Nat /\ dn \in SUBSET Nat /\ st \in {"none", "completed", "failed"} /\ wr \in Outcome
    <3>1. o.done \in SUBSET Nat
      BY DEF JobWork
    <3> QED BY <1>5, <3>1 DEF Outcome
  <2> HIDE DEF n, dn, st, wr
  <2> QED BY <1>4, <1>w, <2>1 DEF JobWork
<1>7. exec' = [exec EXCEPT ![b] = w]
      /\ UNCHANGED <<run, last, batch, active, starting, did, raced, jobDied, stranded, called>>
  <2>1. exec' = [exec EXCEPT ![b] =
                   [o EXCEPT !.step = n, !.done = @ \cup (IF Jb!Worked(x) THEN {n} ELSE {}),
                             !.status = IF ~over THEN @
                                        ELSE IF Jb!Accepts(x) THEN "completed" ELSE "failed",
                             !.writes = IF over THEN <<"run", "last", "record">> ELSE <<>>]]
    BY <1>2, <1>3, <1>4 DEF Jb!Invoke, Jb!Work
  <2>2. UNCHANGED <<run, last, batch, active, starting, did, raced, jobDied, stranded, called>>
    BY DEF Jb!Invoke, Jb!Work, Jb!records
  <2> QED BY <1>w, <2>1, <2>2
<1>8. Jb!Worked(x) <=> Jb!Accepts(x)
  BY DEF Jb!Worked, Jb!Accepts
<1>9. Jb!Accepts(x) => w.done = 1..n
  BY <1>5, <1>6, <1>8
<1>10. /\ w.writes = <<>> => w.done = 1..w.step /\ w.step < JobSteps[g] /\ w.status = "none"
       /\ w.writes # <<>> => w.status \in Jb!Closed
       /\ w.status = "completed" => w.done = 1..JobSteps[g]
       /\ w.writes \notin {<<"last", "record">>, <<"record">>, <<"return">>}
  <2>1. CASE ~over
    <3>1. w.writes = <<>> /\ w.status = "none" /\ Jb!Accepts(x) /\ w.step = n /\ n < JobSteps[g]
      BY <1>5, <1>6, <2>1
    <3> QED BY <1>9, <3>1
  <2>2. CASE over
    <3>1. w.writes = <<"run", "last", "record">>
      BY <1>6, <2>2
    <3>2. w.writes # <<>> /\ w.writes \notin {<<"last", "record">>, <<"record">>, <<"return">>}
      BY <3>1
    <3>3. w.status = (IF Jb!Accepts(x) THEN "completed" ELSE "failed")
      BY <1>6, <2>2
    <3>4. Jb!Accepts(x) => w.done = 1..JobSteps[g]
      BY <1>9, <2>2
    <3> QED BY <3>2, <3>3, <3>4 DEF Jb!Closed
  <2> QED BY <2>1, <2>2
<1>11. w \in JobWork
  BY <1>6
<1> HIDE DEF n, over, dn, st, wr
<1>12. NothingUndone /\ (Orderly' => Orderly)
  BY <1>7 DEF NothingUndone, Orderly
<1>13. /\ exec'[b] = w /\ StartsApart' /\ \A c \in Starters : Starts(c)'
       /\ \A a \in JobBatches : a # b => Executes(a)'
  <2>1. exec[b].state # "none"
    BY <1>1
  <2> QED BY <1>7, <1>12, <2>1, JbGoes
<1>14. Executes(b)'
  <2>1. w.writes # <<"return">>
    BY <1>10
  <2>2. AtWork(b, JobOrder[m])'
    BY <1>3, <1>10, <1>13, <2>1 DEF AtWork
  <2>3. exec'[b].state = "running" /\ exec'[b].todo = SubSeq(JobOrder, m, JobCount)
    BY <1>1, <1>2, <1>4, <1>6, <1>13
  <2> QED BY <1>1, <1>2, <1>7, <1>12, <2>2, <2>3, JbWorks
<1>15. JobTables'
  BY <1>7, <1>11 DEF JobsInv, JobTables
<1>16. Jb!CompletedDidItsWork' /\ Jb!ProgressIsTrue'
  BY <1>7 DEF JobsInv, Jb!CompletedDidItsWork, Jb!ProgressIsTrue
<1>17. Jb!LastRunIsNewest'
  <2>1. ~Jb!Writes(b, "last")
    BY <1>1 DEF Jb!Writes
  <2>2. \A a \in JobBatches, j \in Jb!JobNames : PointerDue(a, j) => PointerDue(a, j)'
    BY <1>7, <2>1, JbPends
  <2> QED BY <1>7, <1>12, <2>2, JbLastStays
<1>18. ASSUME Orderly PROVE InTurn'
  <2>1. \A a \in JobBatches : exec'[a].state = exec[a].state
    BY <1>4, <1>6, <1>7, <1>13 DEF JobsInv, JobTables
  <2> QED BY <1>7, <1>18, <2>1, JbTurnStays DEF JobsInv
<1> QED BY <1>12, <1>13, <1>14, <1>15, <1>16, <1>17, <1>18 DEF JobsInv

\* What the runner writes, and what is left to write after it.
LEMMA JbWrites ==
  ASSUME JobsAssumption, JobsInv, NEW b \in JobBatches, NEW what \in {"run", "last", "record", "return"},
         Jb!Writes(b, what)
  PROVE  /\ Jb!Running(b) /\ exec[b].state = "running"
         /\ exec[b].writes = CASE what = "run" -> <<"run", "last", "record">>
                               [] what = "last" -> <<"last", "record">>
                               [] what = "record" -> <<"record">>
                               [] what = "return" -> <<"return">>
         /\ exec[b].writes # <<>>
<1>1. Jb!Running(b) /\ exec[b].writes # <<>> /\ Head(exec[b].writes) = what
  BY DEF Jb!Writes
<1>2. exec[b].writes \in Outcome
  BY DEF JobsInv, JobTables, JobWork
<1>3. /\ Head(<<"run", "last", "record">>) = "run" /\ Head(<<"last", "record">>) = "last"
      /\ Head(<<"record">>) = "record" /\ Head(<<"return">>) = "return"
  OBVIOUS
<1> QED BY <1>1, <1>2, <1>3 DEF Outcome, Jb!Running

LEMMA JbWritten ==
  ASSUME JobsAssumption, JobsInv, NEW b \in JobBatches, NEW what \in {"run", "last", "record"},
         Jb!Writes(b, what)
  PROVE  \E w \in JobWork :
           /\ w = Jb!Written(b) /\ w.state = "running" /\ w.todo = exec[b].todo
           /\ w.status = exec[b].status /\ w.done = exec[b].done
           /\ w.writes = CASE what = "run" -> <<"last", "record">>
                           [] what = "last" -> <<"record">>
                           [] what = "record" -> <<"return">>
<1>1. PICK o \in JobWork : o = exec[b]
  BY DEF JobsInv, JobTables
<1>2. ASSUME NEW y \in Outcome
      PROVE  \E w \in JobWork :
               /\ w = [o EXCEPT !.writes = y] /\ w.state = o.state /\ w.todo = o.todo
               /\ w.status = o.status /\ w.done = o.done /\ w.writes = y
  <2> DEFINE w == [o EXCEPT !.writes = y]
  <2>1. /\ w \in JobWork /\ w.state = o.state /\ w.todo = o.todo
        /\ w.status = o.status /\ w.done = o.done /\ w.writes = y
    BY DEF JobWork
  <2> HIDE DEF w
  <2>2. w = [o EXCEPT !.writes = y]
    BY DEF w
  <2> QED BY <2>1, <2>2
<1>3. PICK y : y = CASE what = "run" -> <<"last", "record">>
                     [] what = "last" -> <<"record">>
                     [] what = "record" -> <<"return">>
  OBVIOUS
<1>4. y \in Outcome
  BY <1>3 DEF Outcome
<1>5. Jb!Written(b) = [o EXCEPT !.writes = y]
  <2>1. /\ Len(<<"run", "last", "record">>) = 3 /\ Len(<<"last", "record">>) = 2
        /\ Len(<<"record">>) = 1
        /\ Tail(<<"run", "last", "record">>) = <<"last", "record">>
        /\ Tail(<<"last", "record">>) = <<"record">>
    OBVIOUS
  <2>2. CASE what = "run"
    <3>1. o.writes = <<"run", "last", "record">> /\ y = <<"last", "record">>
      BY <1>1, <1>3, <2>2, JbWrites
    <3>2. Len(o.writes) # 1 /\ Tail(o.writes) = y
      BY <2>1, <3>1
    <3> QED BY <1>1, <3>2 DEF Jb!Written
  <2>3. CASE what = "last"
    <3>1. o.writes = <<"last", "record">> /\ y = <<"record">>
      BY <1>1, <1>3, <2>3, JbWrites
    <3>2. Len(o.writes) # 1 /\ Tail(o.writes) = y
      BY <2>1, <3>1
    <3> QED BY <1>1, <3>2 DEF Jb!Written
  <2>4. CASE what = "record"
    <3>1. o.writes = <<"record">> /\ y = <<"return">>
      BY <1>1, <1>3, <2>4, JbWrites
    <3>2. Len(o.writes) = 1
      BY <2>1, <3>1
    <3> QED BY <1>1, <3>1, <3>2 DEF Jb!Written
  <2> QED BY <2>2, <2>3, <2>4
<1>6. PICK w \in JobWork :
        /\ w = [o EXCEPT !.writes = y] /\ w.state = o.state /\ w.todo = o.todo
        /\ w.status = o.status /\ w.done = o.done /\ w.writes = y
  BY <1>2, <1>4
<1>7. exec[b].state = "running"
  BY JbWrites
<1> QED BY <1>1, <1>3, <1>5, <1>6, <1>7

LEMMA JbWritesRun == ASSUME JobsAssumption, JobsInv, NEW b \in JobBatches, Jb!WriteRun(b) PROVE JobsInv'
<1>1. Jb!Writes(b, "run")
  BY DEF Jb!WriteRun
<1>2. Jb!Running(b) /\ exec[b].state = "running" /\ exec[b].writes # <<>>
  BY <1>1, JbWrites
<1>3. PICK m \in 1..JobCount :
        /\ exec[b].todo = SubSeq(JobOrder, m, JobCount) /\ ToldTo(b, m)
        /\ Jb!Job(b) = JobOrder[m] /\ AtWork(b, JobOrder[m])
  BY <1>2, JbRunning
<1>4. PICK g \in Jb!JobNames : g = JobOrder[m]
  BY JbOrder
<1>5. PICK w \in JobWork :
        /\ w = Jb!Written(b) /\ w.state = "running" /\ w.todo = exec[b].todo
        /\ w.status = exec[b].status /\ w.done = exec[b].done
        /\ w.writes = <<"last", "record">>
  BY <1>1, JbWritten
<1>6. /\ run' = [run EXCEPT ![b][g] = w.status] /\ did' = [did EXCEPT ![b][g] = w.done]
      /\ exec' = [exec EXCEPT ![b] = w]
      /\ UNCHANGED <<last, batch, active, starting, raced, jobDied, stranded, called>>
  BY <1>3, <1>4, <1>5 DEF Jb!WriteRun, Jb!PutRun, Jb!Work
<1>7. w.status \in Jb!Closed /\ (w.status = "completed" => w.done = 1..JobSteps[g])
  BY <1>2, <1>3, <1>4, <1>5 DEF AtWork
<1>8. w.status # "none" /\ w.status \in Jb!Statuses /\ w.done \in SUBSET Nat
  BY <1>7 DEF Jb!Closed, Jb!Statuses, JobWork
<1>9. /\ run'[b][g] = w.status /\ did'[b][g] = w.done
      /\ \A a \in JobBatches, j \in Jb!JobNames :
           a # b \/ j # g => run'[a][j] = run[a][j] /\ did'[a][j] = did[a][j]
      /\ \A a \in JobBatches : a # b => run'[a] = run[a]
      /\ run' \in [JobBatches -> [Jb!JobNames -> Jb!Statuses]]
      /\ did' \in [JobBatches -> [Jb!JobNames -> SUBSET Nat]]
  BY <1>6, <1>8 DEF JobsInv, JobTables
<1>10. NothingUndone /\ (Orderly' => Orderly)
  BY <1>6 DEF NothingUndone, Orderly
<1>11. /\ exec'[b] = w /\ StartsApart' /\ \A c \in Starters : Starts(c)'
       /\ \A a \in JobBatches : a # b => Executes(a)'
  <2>1. exec[b].state # "none" /\ \A a \in JobBatches : a # b => run'[a] = run[a] /\ batch'[a] = batch[a]
    BY <1>2, <1>6, <1>9
  <2> QED BY <1>6, <1>10, <2>1, JbGoes
<1>12. Executes(b)'
  <2>1. w.writes # <<>> /\ w.writes # <<"return">>
    BY <1>5
  <2>2. AtWork(b, JobOrder[m])'
    BY <1>4, <1>7, <1>9, <1>11, <2>1 DEF AtWork
  <2>3. \A j \in Jb!JobNames :
           /\ j # JobOrder[m] => /\ run'[b][j] = run[b][j]
                                 /\ batch'[b].jobs[j] = batch[b].jobs[j]
           /\ run'[b][j] = "none" => run[b][j] = "none"
    BY <1>4, <1>6, <1>8, <1>9
  <2>4. exec'[b].state = "running" /\ exec'[b].todo = SubSeq(JobOrder, m, JobCount)
    BY <1>3, <1>5, <1>11
  <2> QED BY <1>2, <1>3, <1>6, <1>10, <2>2, <2>3, <2>4, JbWorks
<1>13. JobTables'
  BY <1>6, <1>9 DEF JobsInv, JobTables
<1>14. Jb!CompletedDidItsWork'
  <2>1. ASSUME NEW a \in JobBatches, NEW j \in Jb!JobNames, run'[a][j] = "completed",
               <<a, j>> \notin called'
        PROVE  did'[a][j] = 1..JobSteps[j]
    <3>1. CASE a = b /\ j = g
      BY <1>7, <1>9, <2>1, <3>1
    <3>2. CASE a # b \/ j # g
      BY <1>6, <1>9, <2>1, <3>2 DEF JobsInv, Jb!CompletedDidItsWork
    <3> QED BY <3>1, <3>2
  <2> QED BY <2>1 DEF Jb!CompletedDidItsWork
<1>15. Jb!ProgressIsTrue'
  BY <1>6 DEF JobsInv, Jb!ProgressIsTrue
<1>16. Jb!LastRunIsNewest'
  <2>1. Moves(b)
    BY <1>2 DEF Moves
  <2>2. PointerDue(b, g)'
    <3>1. exec'[b].writes # <<>> /\ Head(exec'[b].writes) = "last"
      <4>1. <<"last", "record">> # <<>> /\ Head(<<"last", "record">>) = "last"
        OBVIOUS
      <4> QED BY <1>5, <1>11, <4>1
    <3>2. exec'[b].state = "running" /\ exec'[b].todo = exec[b].todo
      BY <1>5, <1>11
    <3>3. Jb!Writes(b, "last")'
      BY <1>2, <3>1, <3>2 DEF Jb!Writes, Jb!Running
    <3>4. Jb!Job(b)' = g
      BY <1>3, <1>4, <3>2 DEF Jb!Job
    <3> QED BY <3>3, <3>4 DEF PointerDue
  <2>3. ~Jb!Writes(b, "last")
    BY <1>1 DEF Jb!Writes
  <2>4. \A a \in JobBatches, j \in Jb!JobNames : j # g /\ PointerDue(a, j) => PointerDue(a, j)'
    BY <1>6, <2>3, JbPends
  <2>5. run'[b][g] # "none" /\ \A j \in Jb!JobNames : j # g => last'[j] = last[j]
    BY <1>6, <1>8, <1>9
  <2>6. \A a \in JobBatches, j \in Jb!JobNames : a # b \/ j # g => run'[a][j] = run[a][j]
    BY <1>9
  <2> QED BY <1>10, <2>1, <2>2, <2>4, <2>5, <2>6, JbLastMoves
<1>17. ASSUME Orderly PROVE InTurn'
  <2>1. \A a \in JobBatches : exec'[a].state = exec[a].state
    BY <1>2, <1>5, <1>6, <1>11 DEF JobsInv, JobTables
  <2>2. \A a \in JobBatches, j \in Jb!JobNames : run'[a][j] = "none" <=> run[a][j] = "none"
    <3>1. run[b][g] # "none"
      BY <1>2 DEF JobsInv, Executes
    <3> QED BY <1>8, <1>9, <3>1
  <2> QED BY <1>6, <1>17, <2>1, <2>2, JbTurnStays DEF JobsInv
<1> QED BY <1>10, <1>11, <1>12, <1>13, <1>14, <1>15, <1>16, <1>17 DEF JobsInv

LEMMA JbWritesLast == ASSUME JobsAssumption, JobsInv, NEW b \in JobBatches, Jb!WriteLast(b) PROVE JobsInv'
<1>1. Jb!Writes(b, "last")
  BY DEF Jb!WriteLast
<1>2. Jb!Running(b) /\ exec[b].state = "running" /\ exec[b].writes = <<"last", "record">>
  BY <1>1, JbWrites
<1>3. PICK m \in 1..JobCount :
        /\ exec[b].todo = SubSeq(JobOrder, m, JobCount) /\ ToldTo(b, m)
        /\ Jb!Job(b) = JobOrder[m] /\ AtWork(b, JobOrder[m])
  BY <1>2, JbRunning
<1>4. PICK g \in Jb!JobNames : g = JobOrder[m]
  BY JbOrder
<1>5. PICK w \in JobWork :
        /\ w = Jb!Written(b) /\ w.state = "running" /\ w.todo = exec[b].todo
        /\ w.status = exec[b].status /\ w.done = exec[b].done
        /\ w.writes = <<"record">>
  BY <1>1, JbWritten
<1>6. /\ last' = [last EXCEPT ![g] = [batch |-> b, status |-> w.status]]
      /\ exec' = [exec EXCEPT ![b] = w]
      /\ UNCHANGED <<run, batch, active, starting, did, raced, jobDied, stranded, called>>
  BY <1>3, <1>4, <1>5 DEF Jb!WriteLast, Jb!PutLast, Jb!Work
<1>7. /\ w.status \in Jb!Closed /\ (w.status = "completed" => w.done = 1..JobSteps[g])
      /\ <<b, g>> \in called \/ run[b][g] = w.status
  <2>1. exec[b].writes # <<>>
    BY <1>2
  <2> QED BY <1>2, <1>3, <1>4, <1>5, <2>1 DEF AtWork
<1>8. /\ last'[g] = [batch |-> b, status |-> w.status]
      /\ \A j \in Jb!JobNames : j # g => last'[j] = last[j]
      /\ last' \in [Jb!JobNames -> [batch : JobBatches \cup {NoJobBatch}, status : Jb!Statuses]]
  <2>1. w.status \in Jb!Statuses
    BY <1>7 DEF Jb!Closed, Jb!Statuses
  <2> QED BY <1>6, <2>1 DEF JobsInv, JobTables
<1>9. NothingUndone /\ (Orderly' => Orderly)
  BY <1>6 DEF NothingUndone, Orderly
<1>10. /\ exec'[b] = w /\ StartsApart' /\ \A c \in Starters : Starts(c)'
       /\ \A a \in JobBatches : a # b => Executes(a)'
  <2>1. exec[b].state # "none"
    BY <1>2
  <2> QED BY <1>6, <1>9, <2>1, JbGoes
<1>11. Executes(b)'
  <2>1. w.writes # <<>> /\ w.writes # <<"return">>
    BY <1>5
  <2>2. AtWork(b, JobOrder[m])'
    BY <1>4, <1>6, <1>7, <1>10, <2>1 DEF AtWork
  <2>3. exec'[b].state = "running" /\ exec'[b].todo = SubSeq(JobOrder, m, JobCount)
    BY <1>3, <1>5, <1>10
  <2> QED BY <1>2, <1>3, <1>6, <1>9, <2>2, <2>3, JbWorks
<1>12. JobTables'
  BY <1>6, <1>8 DEF JobsInv, JobTables
<1>13. Jb!CompletedDidItsWork' /\ Jb!ProgressIsTrue'
  BY <1>6 DEF JobsInv, Jb!CompletedDidItsWork, Jb!ProgressIsTrue
<1>14. Jb!LastRunIsNewest'
  <2>1. Moves(b)
    BY <1>2 DEF Moves
  <2>2. Excused' \/ last'[g] = [batch |-> b, status |-> run'[b][g]]
    BY <1>6, <1>7, <1>8 DEF Excused
  <2>3. \A a \in JobBatches, j \in Jb!JobNames : j # g /\ PointerDue(a, j) => PointerDue(a, j)'
    <3>1. Jb!Job(b) = g
      BY <1>3, <1>4
    <3> QED BY <1>6, <3>1, JbPends
  <2>4. run'[b][g] # "none" /\ \A j \in Jb!JobNames : j # g => last'[j] = last[j]
    BY <1>2, <1>6, <1>8 DEF JobsInv, Executes
  <2>5. \A a \in JobBatches, j \in Jb!JobNames : a # b \/ j # g => run'[a][j] = run[a][j]
    BY <1>6
  <2> QED BY <1>9, <2>1, <2>2, <2>3, <2>4, <2>5, JbLastMoves
<1>15. ASSUME Orderly PROVE InTurn'
  <2>1. \A a \in JobBatches : exec'[a].state = exec[a].state
    BY <1>2, <1>5, <1>6, <1>10 DEF JobsInv, JobTables
  <2> QED BY <1>6, <1>15, <2>1, JbTurnStays DEF JobsInv
<1> QED BY <1>9, <1>10, <1>11, <1>12, <1>13, <1>14, <1>15 DEF JobsInv

LEMMA JbWritesRecord ==
  ASSUME JobsAssumption, JobsInv, NEW b \in JobBatches, Jb!WriteRecord(b) PROVE JobsInv'
<1>1. Jb!Writes(b, "record")
  BY DEF Jb!WriteRecord
<1>2. Jb!Running(b) /\ exec[b].state = "running" /\ exec[b].writes = <<"record">>
  BY <1>1, JbWrites
<1>3. PICK m \in 1..JobCount :
        /\ exec[b].todo = SubSeq(JobOrder, m, JobCount) /\ ToldTo(b, m)
        /\ Jb!Job(b) = JobOrder[m] /\ AtWork(b, JobOrder[m])
  BY <1>2, JbRunning
<1>4. PICK g \in Jb!JobNames : g = JobOrder[m]
  BY JbOrder
<1>5. PICK w \in JobWork :
        /\ w = Jb!Written(b) /\ w.state = "running" /\ w.todo = exec[b].todo
        /\ w.status = exec[b].status /\ w.done = exec[b].done
        /\ w.writes = <<"return">>
  BY <1>1, JbWritten
<1>6. /\ w.status \in Jb!Closed /\ (w.status = "completed" => w.done = 1..JobSteps[g])
      /\ <<b, g>> \in called \/ run[b][g] = w.status
  <2>1. exec[b].writes # <<>>
    BY <1>2
  <2> QED BY <1>2, <1>3, <1>4, <1>5, <2>1 DEF AtWork
<1>7. PICK o \in JobBatch : o = batch[b]
  BY DEF JobsInv, JobTables
<1>8. PICK jobs : jobs = [o.jobs EXCEPT ![g] = w.status]
  OBVIOUS
<1>9. /\ jobs \in [Jb!JobNames -> Jb!Statuses] /\ jobs[g] = w.status
      /\ \A j \in Jb!JobNames : j # g => jobs[j] = o.jobs[j]
  <2>1. w.status \in Jb!Statuses
    BY <1>6 DEF Jb!Closed, Jb!Statuses
  <2> QED BY <1>7, <1>8, <2>1 DEF JobBatch
<1>10. PICK n \in 0..JobCount : n = Cardinality(Ended(jobs))
  <2>1. Ended(jobs) \in SUBSET Jb!JobNames
    BY DEF Ended
  <2> QED BY <2>1, JbCounts
<1>11. PICK new \in JobBatch : /\ new = [o EXCEPT !.jobs = jobs, !.index = n]
                               /\ new.jobs = jobs /\ new.index = n /\ new.status = o.status
  <2> DEFINE new == [o EXCEPT !.jobs = jobs, !.index = n]
  <2>1. new \in JobBatch /\ new.jobs = jobs /\ new.index = n /\ new.status = o.status
    BY <1>7, <1>9, <1>10 DEF JobBatch
  <2> HIDE DEF new
  <2>2. new = [o EXCEPT !.jobs = jobs, !.index = n]
    BY DEF new
  <2> QED BY <2>1, <2>2
<1>12. /\ batch' = [batch EXCEPT ![b] = new] /\ exec' = [exec EXCEPT ![b] = w]
       /\ UNCHANGED <<run, last, active, starting, did, raced, jobDied, stranded, called>>
  <2>1. \A before : Jb!Index(jobs, before) = n
    BY <1>10, JbCardinality DEF Jb!Index, Ended
  <2>2. Jb!Record(b, g, w.status)
    BY <1>3, <1>4, <1>5 DEF Jb!WriteRecord
  <2>3. batch' = [batch EXCEPT ![b] = [@ EXCEPT !.jobs = jobs, !.index = Jb!Index(jobs, @)]]
    BY <1>7, <1>8, <2>2 DEF Jb!Record
  <2>4. batch' = [batch EXCEPT ![b] = new]
    BY <1>7, <1>11, <2>1, <2>3
  <2> QED BY <1>5, <2>4 DEF Jb!WriteRecord, Jb!Work
<1>13. batch'[b] = new /\ \A a \in JobBatches : a # b => batch'[a] = batch[a]
  BY <1>12 DEF JobsInv, JobTables
<1>14. NothingUndone /\ (Orderly' => Orderly)
  BY <1>12 DEF NothingUndone, Orderly
<1>15. /\ exec'[b] = w /\ StartsApart' /\ \A c \in Starters : Starts(c)'
       /\ \A a \in JobBatches : a # b => Executes(a)'
  <2>1. exec[b].state # "none" /\ \A a \in JobBatches : a # b => run'[a] = run[a] /\ batch'[a] = batch[a]
    BY <1>2, <1>12, <1>13
  <2> QED BY <1>12, <1>14, <2>1, JbGoes
<1>16. Executes(b)'
  <2>1. w.writes # <<>>
    BY <1>5
  <2>2. AtWork(b, JobOrder[m])'
    BY <1>4, <1>6, <1>9, <1>11, <1>12, <1>13, <1>15, <2>1 DEF AtWork
  <2>3. \A j \in Jb!JobNames :
           /\ j # JobOrder[m] => /\ run'[b][j] = run[b][j]
                                 /\ batch'[b].jobs[j] = batch[b].jobs[j]
           /\ run'[b][j] = "none" => run[b][j] = "none"
    BY <1>4, <1>7, <1>9, <1>11, <1>12, <1>13
  <2>4. exec'[b].state = "running" /\ exec'[b].todo = SubSeq(JobOrder, m, JobCount)
    BY <1>3, <1>5, <1>15
  <2>5. batch'[b].status = batch[b].status
    BY <1>7, <1>11, <1>13
  <2> QED BY <1>2, <1>3, <1>14, <2>2, <2>3, <2>4, <2>5, JbWorks
<1>17. JobTables'
  BY <1>12 DEF JobsInv, JobTables
<1>18. Jb!CompletedDidItsWork'
  BY <1>12 DEF JobsInv, Jb!CompletedDidItsWork
<1>19. Jb!ProgressIsTrue'
  BY <1>10, <1>11, <1>13, JbProgress
<1>20. Jb!LastRunIsNewest'
  <2>1. ~Jb!Writes(b, "last")
    BY <1>1 DEF Jb!Writes
  <2>2. \A a \in JobBatches, j \in Jb!JobNames : PointerDue(a, j) => PointerDue(a, j)'
    BY <1>12, <2>1, JbPends
  <2> QED BY <1>12, <1>14, <2>2, JbLastStays
<1>21. ASSUME Orderly PROVE InTurn'
  <2>1. \A a \in JobBatches : exec'[a].state = exec[a].state /\ batch'[a].status = batch[a].status
    BY <1>2, <1>5, <1>7, <1>11, <1>12, <1>13, <1>15 DEF JobsInv, JobTables
  <2> QED BY <1>12, <1>21, <2>1, JbTurnStays DEF JobsInv
<1> QED BY <1>14, <1>15, <1>16, <1>17, <1>18, <1>19, <1>20, <1>21 DEF JobsInv

\* The work of a job done again, and of the next one.
LEMMA JbAgain ==
  ASSUME NEW o \in JobWork, NEW w, w = [Jb!Again(o) EXCEPT !.tries = @ + 1]
  PROVE  /\ w \in JobWork /\ w.state = o.state /\ w.todo = o.todo
         /\ w.step = 0 /\ w.done = {} /\ w.writes = <<>> /\ w.status = "none"
<1>1. PICK a : a = Jb!Again(o)
  OBVIOUS
<1>2. /\ a \in JobWork /\ a.state = o.state /\ a.todo = o.todo /\ a.step = 0 /\ a.done = {}
      /\ a.writes = <<>> /\ a.status = "none"
  BY <1>1 DEF Jb!Again, JobWork, Outcome
<1> QED BY <1>1, <1>2 DEF JobWork

LEMMA JbNext ==
  ASSUME NEW o \in JobWork, NEW rest \in Seq(Jb!JobNames), Tail(o.todo) = rest,
         NEW w, w = Jb!NextJob(o)
  PROVE  /\ w \in JobWork /\ w.state = o.state /\ w.todo = rest
         /\ w.step = 0 /\ w.done = {} /\ w.writes = <<>> /\ w.status = "none"
<1>1. PICK a : a = Jb!Again(o)
  OBVIOUS
<1>2. /\ a \in JobWork /\ a.state = o.state /\ a.todo = o.todo /\ a.step = 0 /\ a.done = {}
      /\ a.writes = <<>> /\ a.status = "none"
  BY <1>1 DEF Jb!Again, JobWork, Outcome
<1>3. w = [a EXCEPT !.todo = rest, !.tries = 0]
  BY <1>1, <1>2 DEF Jb!NextJob, JobWork
<1> QED BY <1>2, <1>3 DEF JobWork

LEMMA JbReturns == ASSUME JobsAssumption, JobsInv, NEW b \in JobBatches, Jb!Return(b) PROVE JobsInv'
<1>1. Jb!Writes(b, "return")
  BY DEF Jb!Return
<1>2. Jb!Running(b) /\ exec[b].state = "running" /\ exec[b].writes = <<"return">>
  BY <1>1, JbWrites
<1>3. PICK m \in 1..JobCount :
        /\ exec[b].todo = SubSeq(JobOrder, m, JobCount) /\ ToldTo(b, m)
        /\ AtWork(b, JobOrder[m]) /\ Tail(exec[b].todo) = SubSeq(JobOrder, m + 1, JobCount)
  BY <1>2, JbRunning
<1>4. PICK w : w = Jb!NextJob(exec[b])
  OBVIOUS
<1>4a. /\ w \in JobWork /\ w.state = "running"
       /\ w.todo = SubSeq(JobOrder, m + 1, JobCount) /\ w.step = 0 /\ w.done = {}
       /\ w.writes = <<>> /\ w.status = "none"
  <2>1. exec[b] \in JobWork /\ SubSeq(JobOrder, m + 1, JobCount) \in Seq(Jb!JobNames)
    <3>1. exec[b] \in JobWork /\ exec[b].todo \in Seq(Jb!JobNames) /\ exec[b].todo # <<>>
      BY <1>2 DEF JobsInv, JobTables, JobWork, Jb!Running
    <3>2. Tail(exec[b].todo) \in Seq(Jb!JobNames)
      BY <3>1
    <3> QED BY <1>3, <3>1, <3>2
  <2>2. PICK o \in JobWork, rest \in Seq(Jb!JobNames) :
          o = exec[b] /\ rest = SubSeq(JobOrder, m + 1, JobCount)
    BY <2>1
  <2>3. Tail(o.todo) = rest /\ w = Jb!NextJob(o)
    BY <1>3, <1>4, <2>2
  <2>4. /\ w \in JobWork /\ w.state = o.state /\ w.todo = rest
        /\ w.step = 0 /\ w.done = {} /\ w.writes = <<>> /\ w.status = "none"
    BY <2>3, JbNext
  <2> QED BY <1>2, <2>2, <2>4
<1>5. /\ exec' = [exec EXCEPT ![b] = w]
      /\ UNCHANGED <<run, last, batch, active, starting, did, raced, jobDied, stranded, called>>
  BY <1>4 DEF Jb!Return, Jb!Work, Jb!records
<1>6. NothingUndone /\ (Orderly' => Orderly)
  BY <1>5 DEF NothingUndone, Orderly
<1>7. /\ exec'[b] = w /\ StartsApart' /\ \A c \in Starters : Starts(c)'
      /\ \A a \in JobBatches : a # b => Executes(a)'
  <2>1. exec[b].state # "none"
    BY <1>2
  <2> QED BY <1>5, <1>6, <2>1, JbGoes
<1>8. Executes(b)'
  <2>1. PICK g \in Jb!JobNames : g = JobOrder[m]
    BY JbOrder
  <2>2. exec[b].writes # <<>>
    BY <1>2
  <2>3. <<b, g>> \in called \/ (batch[b].jobs[g] = run[b][g] /\ run[b][g] \in Jb!Closed)
    BY <1>2, <1>3, <2>1, <2>2 DEF AtWork
  <2>4. \A i \in 1..JobCount : i < m + 1 => i < m \/ i = m
    BY JbOrder
  <2>5. ToldTo(b, m + 1)'
    BY <1>3, <1>5, <2>1, <2>3, <2>4 DEF ToldTo
  <2> QED BY <1>2, <1>4a, <1>5, <1>7, <2>5, JbGoesOn
<1>9. JobTables'
  BY <1>4a, <1>5 DEF JobsInv, JobTables
<1>10. Jb!CompletedDidItsWork' /\ Jb!ProgressIsTrue'
  BY <1>5 DEF JobsInv, Jb!CompletedDidItsWork, Jb!ProgressIsTrue
<1>11. Jb!LastRunIsNewest'
  <2>1. ~Jb!Writes(b, "last")
    BY <1>1 DEF Jb!Writes
  <2>2. \A a \in JobBatches, j \in Jb!JobNames : PointerDue(a, j) => PointerDue(a, j)'
    BY <1>5, <2>1, JbPends
  <2> QED BY <1>5, <1>6, <2>2, JbLastStays
<1>12. ASSUME Orderly PROVE InTurn'
  <2>1. \A a \in JobBatches : exec'[a].state = exec[a].state
    BY <1>2, <1>4a, <1>5, <1>7 DEF JobsInv, JobTables
  <2> QED BY <1>5, <1>12, <2>1, JbTurnStays DEF JobsInv
<1> QED BY <1>6, <1>7, <1>8, <1>9, <1>10, <1>11, <1>12 DEF JobsInv

LEMMA JbRunnerDies == ASSUME JobsAssumption, JobsInv, NEW b \in JobBatches, Jb!RunnerDies(b) PROVE JobsInv'
<1>1. Jb!Running(b) /\ exec[b].state = "running"
  BY DEF Jb!RunnerDies, Jb!Running
<1>2. PICK m \in 1..JobCount :
        /\ exec[b].todo = SubSeq(JobOrder, m, JobCount)
        /\ Tail(exec[b].todo) = SubSeq(JobOrder, m + 1, JobCount)
  BY <1>1, JbRunning
<1>3. PICK g \in Jb!JobNames : g = JobOrder[m]
  BY JbOrder
<1>4. PICK w \in JobWork :
        /\ exec' = [exec EXCEPT ![b] = w] /\ w.state = "running"
        /\ w.todo = exec[b].todo \/ w.todo = SubSeq(JobOrder, m + 1, JobCount)
        /\ w.step = 0 /\ w.done = {} /\ w.writes = <<>> /\ w.status = "none"
  <2>1. exec[b] \in JobWork /\ SubSeq(JobOrder, m + 1, JobCount) \in Seq(Jb!JobNames)
    <3>1. exec[b] \in JobWork /\ exec[b].todo \in Seq(Jb!JobNames) /\ exec[b].todo # <<>>
      BY <1>1 DEF JobsInv, JobTables, JobWork, Jb!Running
    <3>2. Tail(exec[b].todo) \in Seq(Jb!JobNames)
      BY <3>1
    <3> QED BY <1>2, <3>1, <3>2
  <2>2. \/ exec' = [exec EXCEPT ![b] = [Jb!Again(exec[b]) EXCEPT !.tries = @ + 1]]
        \/ exec' = [exec EXCEPT ![b] = Jb!NextJob(exec[b])]
    BY DEF Jb!RunnerDies
  <2>3. CASE exec' = [exec EXCEPT ![b] = [Jb!Again(exec[b]) EXCEPT !.tries = @ + 1]]
    <3>1. PICK w : w = [Jb!Again(exec[b]) EXCEPT !.tries = @ + 1]
      OBVIOUS
    <3>2. /\ w \in JobWork /\ w.state = exec[b].state /\ w.todo = exec[b].todo /\ w.step = 0
          /\ w.done = {} /\ w.writes = <<>> /\ w.status = "none"
      BY <2>1, <3>1, JbAgain
    <3>3. exec' = [exec EXCEPT ![b] = w]
      BY <2>3, <3>1
    <3> QED BY <1>1, <3>2, <3>3
  <2>4. CASE exec' = [exec EXCEPT ![b] = Jb!NextJob(exec[b])]
    <3>1. PICK w : w = Jb!NextJob(exec[b])
      OBVIOUS
    <3>2. /\ w \in JobWork /\ w.state = exec[b].state /\ w.todo = SubSeq(JobOrder, m + 1, JobCount)
          /\ w.step = 0 /\ w.done = {} /\ w.writes = <<>> /\ w.status = "none"
      <4>1. PICK o \in JobWork, rest \in Seq(Jb!JobNames) :
              o = exec[b] /\ rest = SubSeq(JobOrder, m + 1, JobCount)
        BY <2>1
      <4>2. Tail(o.todo) = rest /\ w = Jb!NextJob(o)
        BY <1>2, <3>1, <4>1
      <4>3. /\ w \in JobWork /\ w.state = o.state /\ w.todo = rest
            /\ w.step = 0 /\ w.done = {} /\ w.writes = <<>> /\ w.status = "none"
        BY <4>2, JbNext
      <4> QED BY <4>1, <4>3
    <3>3. exec' = [exec EXCEPT ![b] = w]
      BY <2>4, <3>1
    <3> QED BY <1>1, <3>2, <3>3
  <2> QED BY <2>2, <2>3, <2>4
<1>5. /\ jobDied' = TRUE
      /\ UNCHANGED <<run, last, batch, active, starting, did, raced, stranded, called>>
  BY DEF Jb!RunnerDies, Jb!records
<1>6. NothingUndone /\ (Orderly' => Orderly)
  BY <1>5 DEF NothingUndone, Orderly
<1>7. /\ exec'[b] = w /\ StartsApart' /\ \A c \in Starters : Starts(c)'
      /\ \A a \in JobBatches : a # b => Executes(a)'
  <2>1. exec[b].state # "none"
    BY <1>1
  <2> QED BY <1>4, <1>5, <1>6, <2>1, JbGoes
<1>8. Executes(b)'
  <2>1. \A k : ToldTo(b, k)'
    BY <1>5 DEF ToldTo
  <2>2. CASE w.todo = SubSeq(JobOrder, m + 1, JobCount)
    <3>1. ToldTo(b, m + 1)'
      BY <2>1
    <3> QED BY <1>1, <1>4, <1>5, <1>7, <2>2, <3>1, JbGoesOn
  <2>3. CASE w.todo = exec[b].todo
    <3>1. AtWork(b, JobOrder[m])'
      BY <1>3, <1>4, <1>7, JbFresh
    <3>2. JobCount \in Nat /\ m \in 1..(JobCount + 1) /\ ~(m > JobCount)
      BY JbOrder
    <3>3. ToldTo(b, m)'
      BY <2>1
    <3>4. batch'[b].status # "completed" /\ \A j \in Jb!JobNames : run'[b][j] # "none"
      BY <1>1, <1>5 DEF JobsInv, Executes
    <3>5. exec'[b].state = "running" /\ exec'[b].todo = SubSeq(JobOrder, m, JobCount)
      BY <1>2, <1>4, <1>7, <2>3
    <3> QED BY <3>1, <3>2, <3>3, <3>4, <3>5 DEF Executes
  <2> QED BY <1>4, <2>2, <2>3
<1>9. JobTables'
  BY <1>4, <1>5 DEF JobsInv, JobTables
<1>10. Jb!CompletedDidItsWork' /\ Jb!ProgressIsTrue' /\ Jb!LastRunIsNewest'
  BY <1>5 DEF JobsInv, Jb!CompletedDidItsWork, Jb!ProgressIsTrue, Jb!LastRunIsNewest
<1>11. ASSUME Orderly PROVE InTurn'
  <2>1. \A a \in JobBatches : exec'[a].state = exec[a].state
    BY <1>1, <1>4, <1>7 DEF JobsInv, JobTables
  <2> QED BY <1>5, <1>11, <2>1, JbTurnStays DEF JobsInv
<1> QED BY <1>6, <1>7, <1>8, <1>9, <1>10, <1>11 DEF JobsInv

\* An execution that has no job left has told of every one.
LEMMA JbToldAll ==
  ASSUME JobsAssumption, JobsInv, NEW b \in JobBatches, exec[b].state = "running", exec[b].todo = <<>>
  PROVE  ToldTo(b, JobCount + 1)
<1>1. PICK m \in 1..(JobCount + 1) : exec[b].todo = SubSeq(JobOrder, m, JobCount) /\ ToldTo(b, m)
  BY DEF JobsInv, Executes
<1>2. JobCount \in Nat /\ JobOrder \in Seq(Jb!JobNames) /\ JobCount = Len(JobOrder)
  BY JbOrder DEF JobsAssumption, JobCount
<1>3. m = JobCount + 1
  <2>1. SUFFICES ASSUME m <= JobCount PROVE FALSE
    BY <1>2
  <2>2. \A i \in m..JobCount : JobOrder[i] \in Jb!JobNames
    BY <1>2, JbOrder
  <2>3. Len(SubSeq(JobOrder, m, JobCount)) = IF m <= JobCount THEN JobCount - m + 1 ELSE 0
    BY <1>2, <2>2, SubSeqProperties
  <2>4. Len(<<>>) = 0
    OBVIOUS
  <2> QED BY <1>1, <1>2, <2>1, <2>3, <2>4
<1> QED BY <1>1, <1>3

\* Where an execution runs and all is in turn, it is the only one.
LEMMA JbOnly ==
  ASSUME JobsInv, Orderly, NEW b \in JobBatches, exec[b].state = "running"
  PROVE  /\ \A c \in Starters : starting[c] = <<>>
         /\ \A a \in JobBatches : exec[a].state # "finalising" /\ (exec[a].state = "running" => a = b)
BY DEF JobsInv, InTurn

LEMMA JbTurnEnds ==
  ASSUME JobsInv, Orderly, UNCHANGED <<run, starting>>, \A c \in Starters : starting[c] = <<>>,
         \A a \in JobBatches : exec'[a].state # "running"
  PROVE  InTurn'
<1>1. \A a \in JobBatches : ~Moves(a)'
  BY DEF Moves
<1>2. \A a \in JobBatches : Jb!Used(a)' <=> Jb!Used(a)
  BY DEF Jb!Used
<1> QED BY <1>1, <1>2 DEF JobsInv, InTurn

LEMMA JbFinalizes == ASSUME JobsAssumption, JobsInv, NEW b \in JobBatches, Jb!Finalize(b) PROVE JobsInv'
<1>1. exec[b].state = "running" /\ exec[b].todo = <<>>
  BY DEF Jb!Finalize
<1>2. PICK new \in JobBatch : /\ new = [batch[b] EXCEPT !.status = "completed"]
                              /\ new.jobs = batch[b].jobs /\ new.index = batch[b].index
                              /\ new.status = "completed"
  BY JbClosing
<1>3. PICK o \in JobWork : o = exec[b]
  BY DEF JobsInv, JobTables
<1>4. PICK w : w = [o EXCEPT !.state = "finalising"]
  OBVIOUS
<1>5. w \in JobWork /\ w.state = "finalising" /\ w.todo = <<>>
  BY <1>1, <1>3, <1>4 DEF JobWork
<1>6. /\ batch' = [batch EXCEPT ![b] = new] /\ exec' = [exec EXCEPT ![b] = w]
      /\ UNCHANGED <<run, last, active, starting, did, raced, jobDied, stranded, called>>
  BY <1>2, <1>3, <1>4 DEF Jb!Finalize, Jb!Work, JobsInv, JobTables
<1>7. batch'[b] = new /\ \A a \in JobBatches : a # b => batch'[a] = batch[a]
  BY <1>6 DEF JobsInv, JobTables
<1>8. NothingUndone /\ (Orderly' => Orderly)
  BY <1>6 DEF NothingUndone, Orderly
<1>9. /\ exec'[b] = w /\ StartsApart' /\ \A c \in Starters : Starts(c)'
      /\ \A a \in JobBatches : a # b => Executes(a)'
  <2>1. exec[b].state # "none" /\ \A a \in JobBatches : a # b => run'[a] = run[a] /\ batch'[a] = batch[a]
    BY <1>1, <1>6, <1>7
  <2> QED BY <1>6, <1>8, <2>1, JbGoes
<1>10. Executes(b)'
  <2>1. ToldTo(b, JobCount + 1)'
    <3>1. ToldTo(b, JobCount + 1)
      BY <1>1, JbToldAll
    <3> QED BY <1>2, <1>6, <1>7, <3>1 DEF ToldTo
  <2>2. \A j \in Jb!JobNames : run'[b][j] # "none"
    BY <1>1, <1>6 DEF JobsInv, Executes
  <2> QED BY <1>5, <1>9, <2>1, <2>2 DEF Executes
<1>11. JobTables'
  BY <1>5, <1>6 DEF JobsInv, JobTables
<1>12. Jb!CompletedDidItsWork' /\ Jb!ProgressIsTrue'
  <2>1. Jb!CompletedDidItsWork'
    BY <1>6 DEF JobsInv, Jb!CompletedDidItsWork
  <2>2. batch'[b].index = Cardinality(Ended(batch'[b].jobs))
    <3>1. batch[b].index = Cardinality(Ended(batch[b].jobs))
      BY JbCardinality DEF JobsInv, Jb!ProgressIsTrue, Ended
    <3> QED BY <1>2, <1>7, <3>1
  <2>3. Jb!ProgressIsTrue'
    BY <1>7, <2>2, JbProgress
  <2> QED BY <2>1, <2>3
<1>13. Jb!LastRunIsNewest'
  <2>1. ~Jb!Writes(b, "last")
    BY <1>1 DEF Jb!Writes, Jb!Running
  <2>2. \A a \in JobBatches, j \in Jb!JobNames : PointerDue(a, j) => PointerDue(a, j)'
    BY <1>6, <2>1, JbPends
  <2> QED BY <1>6, <1>8, <2>2, JbLastStays
<1>14. ASSUME Orderly PROVE InTurn'
  <2>1. /\ \A c \in Starters : starting[c] = <<>>
        /\ \A a \in JobBatches : exec[a].state = "running" => a = b
    BY <1>1, <1>14, JbOnly
  <2>2. \A a \in JobBatches : exec'[a].state # "running"
    BY <1>5, <1>6, <1>9, <2>1 DEF JobsInv, JobTables
  <2> QED BY <1>6, <1>14, <2>1, <2>2, JbTurnEnds
<1> QED BY <1>8, <1>9, <1>10, <1>11, <1>12, <1>13, <1>14 DEF JobsInv

LEMMA JbFinalizeClears ==
  ASSUME JobsAssumption, JobsInv, NEW b \in JobBatches, Jb!FinalizeClear(b) PROVE JobsInv'
<1>1. exec[b].state = "finalising"
  BY DEF Jb!FinalizeClear
<1>2. PICK o \in JobWork : o = exec[b]
  BY DEF JobsInv, JobTables
<1>3. PICK w : w = [o EXCEPT !.state = "ended"]
  OBVIOUS
<1>4. w \in JobWork /\ w.state = "ended"
  BY <1>2, <1>3 DEF JobWork
<1>5. /\ active' = NoJobBatch /\ exec' = [exec EXCEPT ![b] = w]
      /\ UNCHANGED <<run, last, batch, starting, did, raced, jobDied, stranded, called>>
  BY <1>2, <1>3 DEF Jb!FinalizeClear, Jb!Work
<1>6. NothingUndone /\ (Orderly' => Orderly)
  BY <1>5 DEF NothingUndone, Orderly
<1>7. /\ exec'[b] = w /\ StartsApart' /\ \A c \in Starters : Starts(c)'
      /\ \A a \in JobBatches : a # b => Executes(a)'
  <2>1. exec[b].state # "none"
    BY <1>1
  <2> QED BY <1>1, <1>5, <1>6, <2>1, JbGoes
<1>8. Executes(b)'
  <2>1. /\ \A j \in Jb!JobNames : run[b][j] # "none"
        /\ batch[b].status = "completed" => ToldTo(b, JobCount + 1)
    BY <1>1 DEF JobsInv, Executes
  <2>2. ToldTo(b, JobCount + 1) => ToldTo(b, JobCount + 1)'
    BY <1>5 DEF ToldTo
  <2> QED BY <1>4, <1>5, <1>7, <2>1, <2>2 DEF Executes
<1>9. JobTables'
  BY <1>4, <1>5 DEF JobsInv, JobTables
<1>10. Jb!CompletedDidItsWork' /\ Jb!ProgressIsTrue'
  BY <1>5 DEF JobsInv, Jb!CompletedDidItsWork, Jb!ProgressIsTrue
<1>11. Jb!LastRunIsNewest'
  <2>1. ~Jb!Writes(b, "last")
    BY <1>1 DEF Jb!Writes, Jb!Running
  <2>2. \A a \in JobBatches, j \in Jb!JobNames : PointerDue(a, j) => PointerDue(a, j)'
    BY <1>5, <2>1, JbPends
  <2> QED BY <1>5, <1>6, <2>2, JbLastStays
<1>12. ASSUME Orderly PROVE InTurn'
  <2>1. /\ \A c \in Starters : starting[c] = <<>>
        /\ \A a \in JobBatches : exec[a].state # "running"
    BY <1>1, <1>12 DEF JobsInv, InTurn
  <2>2. \A a \in JobBatches : exec'[a].state # "running"
    BY <1>4, <1>5, <1>7, <2>1 DEF JobsInv, JobTables
  <2> QED BY <1>5, <1>12, <2>1, <2>2, JbTurnEnds
<1> QED BY <1>6, <1>7, <1>8, <1>9, <1>10, <1>11, <1>12 DEF JobsInv

LEMMA JbFinalizeDies ==
  ASSUME JobsAssumption, JobsInv, NEW b \in JobBatches, Jb!FinalizeDies(b) PROVE JobsInv'
<1>1. exec[b].state \in {"running", "finalising"}
  BY DEF Jb!FinalizeDies
<1>2. PICK o \in JobWork : o = exec[b]
  BY DEF JobsInv, JobTables
<1>3. PICK w : w = [o EXCEPT !.state = "ended"]
  OBVIOUS
<1>4. w \in JobWork /\ w.state = "ended"
  BY <1>2, <1>3 DEF JobWork
<1>5. /\ exec' = [exec EXCEPT ![b] = w] /\ stranded' = stranded \cup {b}
      /\ UNCHANGED <<run, last, batch, active, starting, did, raced, jobDied, called>>
  BY <1>2, <1>3 DEF Jb!FinalizeDies, Jb!records, JobsInv, JobTables
<1>6. NothingUndone /\ ~Orderly' /\ Excused'
  BY <1>5 DEF NothingUndone, Orderly, Excused
<1>7. /\ exec'[b] = w /\ StartsApart' /\ \A c \in Starters : Starts(c)'
      /\ \A a \in JobBatches : a # b => Executes(a)'
  <2>1. exec[b].state # "none"
    BY <1>1
  <2> QED BY <1>5, <1>6, <2>1, JbGoes
<1>8. Executes(b)'
  <2>1. /\ \A j \in Jb!JobNames : run[b][j] # "none"
        /\ batch[b].status = "completed" => ToldTo(b, JobCount + 1)
    BY <1>1 DEF JobsInv, Executes
  <2>2. ToldTo(b, JobCount + 1) => ToldTo(b, JobCount + 1)'
    BY <1>5 DEF ToldTo
  <2> QED BY <1>4, <1>5, <1>7, <2>1, <2>2 DEF Executes
<1>9. JobTables'
  BY <1>4, <1>5 DEF JobsInv, JobTables
<1>10. Jb!CompletedDidItsWork' /\ Jb!ProgressIsTrue' /\ Jb!LastRunIsNewest'
  BY <1>5, <1>6 DEF JobsInv, Jb!CompletedDidItsWork, Jb!ProgressIsTrue, Jb!LastRunIsNewest, Excused
<1> QED BY <1>6, <1>7, <1>8, <1>9, <1>10 DEF JobsInv

LEMMA JbCompletesRun ==
  ASSUME JobsAssumption, JobsInv, NEW b \in JobBatches, NEW g \in Jb!JobNames, NEW st \in Jb!Closed,
         Jb!CompleteRun(b, g, st)
  PROVE  JobsInv'
<1>1. /\ run[b][g] # "none" /\ run' = [run EXCEPT ![b][g] = st]
      /\ last' = [last EXCEPT ![g] = [batch |-> b, status |-> st]]
      /\ called' = called \cup {<<b, g>>}
      /\ UNCHANGED <<batch, active, starting, exec, did, raced, jobDied, stranded>>
  BY DEF Jb!CompleteRun, Jb!PutRun, Jb!PutLast
<1>2. st \in Jb!Statuses /\ st # "none"
  BY DEF Jb!Closed, Jb!Statuses
<1>3. /\ run'[b][g] = st
      /\ \A a \in JobBatches, j \in Jb!JobNames : a # b \/ j # g => run'[a][j] = run[a][j]
      /\ run' \in [JobBatches -> [Jb!JobNames -> Jb!Statuses]]
      /\ last' \in [Jb!JobNames -> [batch : JobBatches \cup {NoJobBatch}, status : Jb!Statuses]]
  BY <1>1, <1>2 DEF JobsInv, JobTables
<1>4. NothingUndone /\ (Orderly' => Orderly)
  BY <1>1 DEF NothingUndone, Orderly
<1>5. \A a \in JobBatches : RunsKept(a)
  BY <1>1, <1>2, <1>3 DEF RunsKept
<1>6. ASSUME NEW a \in JobBatches PROVE Executes(a)'
  <2>1. Executes(a) /\ exec'[a] = exec[a] /\ batch'[a] = batch[a]
    BY <1>1 DEF JobsInv
  <2> QED BY <1>4, <1>5, <2>1, JbExecutesOn
<1>7. ASSUME NEW c \in Starters PROVE Starts(c)'
  <2>1. Starts(c) /\ starting'[c] = starting[c]
    BY <1>1 DEF JobsInv
  <2>2. \A a \in JobBatches : starting[c] # <<>> /\ starting[c][1].b = a /\ exec[a] = Jb!NoWork =>
           exec'[a] = exec[a] /\ RunsKept(a) /\ batch'[a].status = batch[a].status
    BY <1>1, <1>5
  <2>3. Orderly' /\ starting[c] # <<>> => active' = active
    BY <1>1
  <2> QED BY <1>4, <2>1, <2>2, <2>3, JbStartsOn
<1>8. StartsApart'
  BY <1>1 DEF JobsInv, StartsApart
<1>9. JobTables'
  BY <1>1, <1>3 DEF JobsInv, JobTables
<1>10. Jb!CompletedDidItsWork'
  <2>1. ASSUME NEW a \in JobBatches, NEW j \in Jb!JobNames, run'[a][j] = "completed",
               <<a, j>> \notin called'
        PROVE  did'[a][j] = 1..JobSteps[j]
    <3>1. (a # b \/ j # g) /\ <<a, j>> \notin called
      BY <1>1, <2>1
    <3>2. run[a][j] = "completed" /\ did'[a][j] = did[a][j]
      BY <1>1, <1>3, <2>1, <3>1
    <3> QED BY <3>1, <3>2 DEF JobsInv, Jb!CompletedDidItsWork
  <2> QED BY <2>1 DEF Jb!CompletedDidItsWork
<1>11. Jb!ProgressIsTrue'
  BY <1>1 DEF JobsInv, Jb!ProgressIsTrue
<1>12. Jb!LastRunIsNewest'
  <2>1. called' # {}
    BY <1>1
  <2> QED BY <2>1 DEF Jb!LastRunIsNewest
<1>13. ASSUME Orderly PROVE InTurn'
  <2>1. \A a \in JobBatches, j \in Jb!JobNames : run'[a][j] = "none" <=> run[a][j] = "none"
    BY <1>5 DEF RunsKept
  <2> QED BY <1>1, <1>13, <2>1, JbTurnStays DEF JobsInv
<1> QED BY <1>4, <1>6, <1>7, <1>8, <1>9, <1>10, <1>11, <1>12, <1>13 DEF JobsInv

-----------------------------------------------------------------------------
(* All together.                                                             *)
LEMMA JbInit == JobsAssumption /\ Jb!Init => JobsInv
<1> SUFFICES ASSUME JobsAssumption, Jb!Init PROVE JobsInv
  OBVIOUS
<1>1. /\ run = [b \in JobBatches |-> Jb!Each("none")]
      /\ last = Jb!Each([batch |-> NoJobBatch, status |-> "none"])
      /\ batch = [b \in JobBatches |-> [status |-> "none", jobs |-> Jb!Each("none"), index |-> 0]]
      /\ active = NoJobBatch /\ starting = [c \in Starters |-> <<>>]
      /\ exec = [b \in JobBatches |-> Jb!NoWork] /\ did = [b \in JobBatches |-> Jb!Each({})]
      /\ raced = FALSE /\ jobDied = FALSE /\ stranded = {} /\ called = {}
  BY DEF Jb!Init
<1>2. \A b \in JobBatches, j \in Jb!JobNames : run[b][j] = "none"
  BY <1>1 DEF Jb!Each
<1>3. JobTables
  <2>1. Jb!NoWork \in JobWork
    <3>1. <<>> \in Seq(Jb!JobNames) /\ {} \in SUBSET Nat /\ <<>> \in Outcome
      BY DEF Outcome
    <3> QED BY <3>1 DEF Jb!NoWork, JobWork
  <2>2. [status |-> "none", jobs |-> Jb!Each("none"), index |-> 0] \in JobBatch
    <3>1. Jb!Each("none") \in [Jb!JobNames -> Jb!Statuses] /\ 0 \in 0..JobCount
      BY JbOrder DEF Jb!Each, Jb!Statuses
    <3> QED BY <3>1 DEF JobBatch
  <2>3. /\ Jb!Each("none") \in [Jb!JobNames -> Jb!Statuses]
        /\ Jb!Each({}) \in [Jb!JobNames -> SUBSET Nat]
        /\ last \in [Jb!JobNames -> [batch : JobBatches \cup {NoJobBatch}, status : Jb!Statuses]]
    BY <1>1 DEF Jb!Each, Jb!Statuses
  <2> QED BY <1>1, <2>1, <2>2, <2>3 DEF JobTables
<1>4. \A b \in JobBatches : exec[b] = Jb!NoWork /\ batch[b].status = "none"
  BY <1>1
<1>5. \A c \in Starters : starting[c] = <<>>
  BY <1>1
<1>6. \A b \in JobBatches : Executes(b)
  BY <1>4 DEF Executes, Jb!NoWork
<1>7. StartsApart /\ \A c \in Starters : Starts(c)
  BY <1>5 DEF StartsApart, Starts
<1>8. Jb!CompletedDidItsWork
  BY <1>2 DEF Jb!CompletedDidItsWork
<1>9. Jb!ProgressIsTrue
  <2>1. ASSUME NEW b \in JobBatches PROVE batch[b].index = Cardinality(Ended(batch[b].jobs))
    <3>1. batch[b].jobs = Jb!Each("none") /\ batch[b].index = 0
      BY <1>1
    <3>2. Ended(batch[b].jobs) = {}
      BY <3>1 DEF Ended, Jb!Each, Jb!Closed
    <3> QED BY <3>1, <3>2, FS_EmptySet
  <2> QED BY <2>1, JbCardinality DEF Jb!ProgressIsTrue, Ended
<1>10. Jb!LastRunIsNewest
  BY <1>2 DEF Jb!LastRunIsNewest
<1>11. InTurn
  <2>1. \A b \in JobBatches : exec[b].state = "none" /\ ~Moves(b)
    BY <1>4, <1>5 DEF Moves, Jb!NoWork
  <2>2. \A b \in JobBatches : ~Jb!Used(b)
    BY <1>2, <1>5 DEF Jb!Used
  <2> QED BY <1>5, <2>1, <2>2 DEF InTurn
<1> QED BY <1>3, <1>6, <1>7, <1>8, <1>9, <1>10, <1>11 DEF JobsInv

LEMMA JbStutters == JobsInv /\ UNCHANGED jobVars => JobsInv'
<1> SUFFICES ASSUME JobsInv, UNCHANGED jobVars PROVE JobsInv'
  OBVIOUS
<1> USE DEF jobVars
<1>1. JobTables' /\ StartsApart'
  BY DEF JobsInv, JobTables, StartsApart
<1>2. ASSUME NEW c \in Starters PROVE Starts(c)'
  <2>1. \A b, k : Begins(c, b, k)' <=> Begins(c, b, k)
    BY DEF Begins, Rest, QueuedTo, Orderly
  <2>2. \A b : Refused(c, b)' <=> Refused(c, b)
    BY DEF Refused
  <2>3. Starts(c)
    BY DEF JobsInv
  <2> QED BY <2>1, <2>2, <2>3 DEF Starts
<1>3. ASSUME NEW b \in JobBatches PROVE Executes(b)'
  <2>1. \A m : ToldTo(b, m)' <=> ToldTo(b, m)
    BY DEF ToldTo
  <2>2. \A j : AtWork(b, j)' <=> AtWork(b, j)
    BY DEF AtWork
  <2>3. Executes(b)
    BY DEF JobsInv
  <2> QED BY <2>1, <2>2, <2>3 DEF Executes
<1>4. Jb!CompletedDidItsWork' /\ Jb!ProgressIsTrue'
  BY DEF JobsInv, Jb!CompletedDidItsWork, Jb!ProgressIsTrue
<1>5. Jb!LastRunIsNewest'
  BY DEF JobsInv, Jb!LastRunIsNewest, Jb!Writes, Jb!Running, Jb!Job
<1>6. (Orderly => InTurn)'
  BY DEF JobsInv, Orderly, InTurn, Moves, Jb!Used
<1> QED BY <1>1, <1>2, <1>3, <1>4, <1>5, <1>6 DEF JobsInv

LEMMA JbPreserved == JobsAssumption /\ JobsInv /\ [Jb!Next]_(Jb!vars) => JobsInv'
<1> SUFFICES ASSUME JobsAssumption, JobsInv, [Jb!Next]_(Jb!vars) PROVE JobsInv'
  OBVIOUS
<1>1. CASE UNCHANGED Jb!vars
  BY <1>1, JbStutters DEF Jb!vars, Jb!records, Jb!ghosts, jobVars
<1>2. ASSUME NEW c \in Starters, NEW b \in JobBatches, Jb!StartBatch(c, b) PROVE JobsInv'
  BY <1>2, JbStartsBatch
<1>3. ASSUME NEW c \in Starters, Jb!StartStep(c) PROVE JobsInv'
  BY <1>3, JbQueuesRun, JbQueuesLast, JbPutsBatch, JbSetsActive, JbStartsExecution, JbClears
  DEF Jb!StartStep
<1>4. ASSUME NEW c \in Starters, Jb!StartFails(c) PROVE JobsInv'
  BY <1>4, JbStartFails
<1>5. ASSUME NEW c \in Starters, Jb!StartDies(c) PROVE JobsInv'
  BY <1>5, JbStartDies
<1>6. ASSUME NEW b \in JobBatches, Jb!Drive(b) PROVE JobsInv'
  BY <1>6, JbInvokes, JbWritesRun, JbWritesLast, JbWritesRecord, JbReturns, JbFinalizes,
     JbFinalizeClears
  DEF Jb!Drive
<1>7. ASSUME NEW b \in JobBatches, Jb!RunnerDies(b) PROVE JobsInv'
  BY <1>7, JbRunnerDies
<1>8. ASSUME NEW b \in JobBatches, Jb!FinalizeDies(b) PROVE JobsInv'
  BY <1>8, JbFinalizeDies
<1>9. ASSUME NEW b \in JobBatches, NEW j \in Jb!JobNames, NEW st \in Jb!Closed,
             Jb!CompleteRun(b, j, st)
      PROVE  JobsInv'
  BY <1>9, JbCompletesRun
<1> QED BY <1>1, <1>2, <1>3, <1>4, <1>5, <1>6, <1>7, <1>8, <1>9 DEF Jb!Next

LEMMA JbImplied == JobsAssumption /\ JobsInv => Jb!BatchesHold
<1> SUFFICES ASSUME JobsAssumption, JobsInv PROVE Jb!BatchesHold
  OBVIOUS
<1>1. Jb!TypeOK
  BY DEF JobsInv, JobTables, Jb!TypeOK, JobBatch, JobCount
<1>2. Jb!BatchTellsRuns
  <2>1. ASSUME NEW b \in JobBatches, NEW j \in Jb!JobNames, batch[b].status = "completed",
               ~jobDied, <<b, j>> \notin called
        PROVE  batch[b].jobs[j] = run[b][j] /\ run[b][j] \in Jb!Closed
    <3>1. ToldTo(b, JobCount + 1)
      BY <2>1 DEF JobsInv, Executes
    <3>2. PICK i \in 1..JobCount : j = JobOrder[i]
      BY JbOrder
    <3>3. i < JobCount + 1
      BY JbOrder
    <3> QED BY <2>1, <3>1, <3>2, <3>3 DEF ToldTo
  <2> QED BY <2>1 DEF Jb!BatchTellsRuns
<1>3. Jb!BatchesTakeTurns
  <2>1. SUFFICES ASSUME Orderly PROVE Jb!Cardinality(Jb!InWork \cup Jb!Starting) <= 1
    BY DEF Jb!BatchesTakeTurns, Orderly
  <2> DEFINE S == Jb!InWork \cup Jb!Starting
  <2>2. InTurn
    BY <2>1 DEF JobsInv
  <2>3. \A a, b \in S : a = b
    BY <2>2 DEF InTurn, Jb!InWork, Jb!Starting
  <2>4. Cardinality(S) <= 1
    <3> HIDE DEF S
    <3>1. CASE S = {}
      BY <3>1, FS_EmptySet
    <3>2. CASE S # {}
      <4>1. PICK b \in S : S = {b}
        BY <2>3, <3>2
      <4> QED BY <4>1, FS_Singleton
    <3> QED BY <3>1, <3>2
  <2> QED BY <2>4, JbCardinality
<1> QED BY <1>1, <1>2, <1>3 DEF JobsInv, Jb!BatchesHold

\* A batch of jobs, whatever is refused, dies or is closed by a call: a run that the
\* runner completed did each of its steps, and the progress shown is the number of jobs
\* that are over; a finished batch tells what became of its runs, where no invocation
\* died; no batch is begun while one is under way, and the last runs shown are the
\* newest, where no start overlapped another or stopped half-way, and for the second
\* no invocation died and no call came (start_batch, _record_on_batch, the runner).
THEOREM BatchesAlwaysHold == JobsAssumption => (Jb!Spec => [](Jb!BatchesHold /\ BatchesHold))
<1> SUFFICES ASSUME JobsAssumption PROVE Jb!Spec => [](Jb!BatchesHold /\ BatchesHold)
  OBVIOUS
<1>1. Jb!Init => JobsInv
  BY JbInit
<1>2. JobsInv /\ [Jb!Next]_(Jb!vars) => JobsInv'
  BY JbPreserved
<1>3. JobsInv => Jb!BatchesHold /\ BatchesHold
  BY JbImplied DEF BatchesHold
<1> QED BY <1>1, <1>2, <1>3, PTL DEF Jb!Spec
=============================================================================
