-------------------------------- MODULE Jobs --------------------------------
(***************************************************************************)
(* "Run all" of the scheduled jobs (settings): a request, or the nightly   *)
(* rule, queues a run of every job and starts an execution of the jobs     *)
(* state machine, which has the runner do one job after another and then   *)
(* finalises the batch.                                                    *)
(*                                                                         *)
(*   run[b][j]  status of the JOBRUN# record of job j in batch b           *)
(*   last[j]    the LASTRUN# pointer: a batch, and its run's status then   *)
(*   batch[b]   the JOBBATCH# record: status, entry of every job, and      *)
(*              currentIndex                                               *)
(*   active     the JOBBATCH#ACTIVE pointer                                *)
(*   start[c]   what c's start_batch has still to write: <<>> when idle    *)
(*   exec[b]    the execution: jobs still to do, and the runner's work on  *)
(*              the first: step, steps that did their work (a ghost),      *)
(*              writes to do, attempts; state is "none", "running",        *)
(*              "finalising" or "ended"                                    *)
(*   did[b][j]  ghost: steps that did their work in the attempt recorded   *)
(*   raced      ghost: start_batch overlapped another, or a finalisation   *)
(*   died       ghost: an invocation of the runner died                    *)
(*   stranded   ghost: batches whose start or whose finalisation died      *)
(*   called     ghost: runs that a caller of completeRun has closed        *)
(***************************************************************************)
EXTENDS Integers, Sequences, FiniteSets, Functions

CONSTANTS Batches, NoBatch, JobOrder, Steps, Starters, MaxAttempts, Budgets

VARIABLES run, last, batch, active, start, exec, did, raced, died, stranded, called, budget

records == <<run, last, batch, active>>
ghosts == <<did, raced, died, stranded, called>>
vars == <<records, start, exec, ghosts, budget>>

JobNames == Range(JobOrder)
Closed == {"completed", "failed"}
NoWork == [state |-> "none", todo |-> <<>>, step |-> 0, done |-> {}, writes |-> <<>>,
           status |-> "none", tries |-> 0]
Each(x) == [j \in JobNames |-> x]

Init ==
  /\ run = [b \in Batches |-> Each("none")] /\ last = Each([batch |-> NoBatch, status |-> "none"])
  /\ batch = [b \in Batches |-> [status |-> "none", jobs |-> Each("none"), index |-> 0]]
  /\ active = NoBatch /\ start = [c \in Starters |-> <<>>] /\ exec = [b \in Batches |-> NoWork]
  /\ did = [b \in Batches |-> Each({})] /\ raced = FALSE /\ died = FALSE
  /\ stranded = {} /\ called = {} /\ budget \in Budgets

-----------------------------------------------------------------------------
(* Records.                                                                  *)

\* put_job_run.
PutRun(b, j, st) == run' = [run EXCEPT ![b][j] = st]

\* put_last_job_run, after every put of a run.
PutLast(b, j, st) == last' = [last EXCEPT ![j] = [batch |-> b, status |-> st]]

\* currentIndex, derived from the entries.
Index(jobs, before) == Cardinality({j \in JobNames : jobs[j] \in Closed})

\* _record_on_batch.
Record(b, j, st) ==
  LET jobs == [batch[b].jobs EXCEPT ![j] = st]
  IN  batch' = [batch EXCEPT ![b] = [@ EXCEPT !.jobs = jobs, !.index = Index(jobs, @)]]

-----------------------------------------------------------------------------
(* start_batch.                                                              *)
Op(do, b, j) == [do |-> do, b |-> b, j |-> j]
Does(c, what) == start[c] # <<>> /\ Head(start[c]).do = what
Go(c) == start' = [start EXCEPT ![c] = Tail(@)] /\ UNCHANGED <<exec, ghosts, budget>>

\* For each job its run, then the pointer to it.
Queueing(b) ==
  [k \in 1..(2 * Len(JobOrder)) |->
     Op(IF k % 2 = 1 THEN "run" ELSE "last", b, JobOrder[(k + 1) \div 2])]
StartOps(b) ==
  LET j == JobOrder[1]
  IN  Queueing(b) \o <<Op("batch", b, j), Op("active", b, j), Op("execute", b, j)>>

Used(b) ==
  \/ \E c \in Starters : start[c] # <<>> /\ start[c][1].b = b
  \/ \E j \in JobNames : run[b][j] # "none"

\* Mutant: the guard is not looked at.
FreeAlways == \A b \in {active} : TRUE

\* The in-progress guard: the pointer, and then the batch it names.
Free == active # NoBatch => batch[active].status # "running"

StartBatch(c, b) ==
  /\ start[c] = <<>> /\ Free /\ ~Used(b) /\ \A a \in Batches : ~Used(a) => b <= a
  /\ start' = [start EXCEPT ![c] = StartOps(b)]
  /\ raced' = (\/ raced \/ \E d \in Starters : start[d] # <<>>
               \/ \E a \in Batches : exec[a].state = "finalising")
  /\ UNCHANGED <<records, exec, did, died, stranded, called, budget>>

QueueRun(c) ==
  /\ Does(c, "run") /\ PutRun(start[c][1].b, start[c][1].j, "queued")
  /\ Go(c) /\ UNCHANGED <<last, batch, active>>
QueueLast(c) ==
  /\ Does(c, "last") /\ PutLast(start[c][1].b, start[c][1].j, "queued")
  /\ Go(c) /\ UNCHANGED <<run, batch, active>>

\* The batch, in flight from the start.
PutBatch(c) ==
  /\ Does(c, "batch")
  /\ batch' = [batch EXCEPT ![start[c][1].b] =
                 [status |-> "running", jobs |-> Each("queued"), index |-> 0]]
  /\ Go(c) /\ UNCHANGED <<run, last, active>>

SetActive(c) ==
  /\ Does(c, "active") /\ active' = start[c][1].b /\ Go(c) /\ UNCHANGED <<run, last, batch>>

\* start_execution under the name of the batch, which is new each time.
StartExecution(c) ==
  /\ Does(c, "execute")
  /\ exec' = [exec EXCEPT ![start[c][1].b] = [NoWork EXCEPT !.state = "running", !.todo = JobOrder]]
  /\ start' = [start EXCEPT ![c] = <<>>]
  /\ UNCHANGED <<records, ghosts, budget>>

\* It raises: the batch is failed, and the pointer removed whoever set it.
StartFails(c) ==
  /\ Does(c, "execute") /\ budget.refusals > 0 /\ budget' = [budget EXCEPT !.refusals = @ - 1]
  /\ batch' = [batch EXCEPT ![start[c][1].b].status = "failed"]
  /\ start' = [start EXCEPT ![c] = <<Op("clear", start[c][1].b, start[c][1].j)>>]
  /\ UNCHANGED <<run, last, active, exec, ghosts>>
ClearActive(c) ==
  /\ Does(c, "clear") /\ active' = NoBatch /\ Go(c) /\ UNCHANGED <<run, last, batch>>

-----------------------------------------------------------------------------
(* The state machine and the runner.                                         *)
Running(b) == exec[b].state = "running" /\ exec[b].todo # <<>>
Job(b) == Head(exec[b].todo)
Writes(b, what) == Running(b) /\ exec[b].writes # <<>> /\ Head(exec[b].writes) = what
Work(b, w) == exec' = [exec EXCEPT ![b] = w] /\ UNCHANGED <<start, raced, died, stranded, called, budget>>
Again(w) == [w EXCEPT !.step = 0, !.done = {}, !.writes = <<>>, !.status = "none"]
NextJob(w) == [Again(w) EXCEPT !.todo = Tail(@), !.tries = 0]
Written(b) ==
  LET w == exec[b] IN
  IF Len(w.writes) = 1 THEN [w EXCEPT !.writes = <<"return">>] ELSE [w EXCEPT !.writes = Tail(@)]

Answers == [crashed : BOOLEAN, code : {"none", "ok", "error"}, key : BOOLEAN]
Worked(a) == ~a.crashed /\ a.code # "error" /\ a.key

\* FunctionError, then the envelope if there is one, then the expected key.
Accepts(a) == ~a.crashed /\ a.code # "error" /\ a.key

\* One step of the job is invoked and answers.
Invoke(b, a) ==
  /\ Running(b) /\ exec[b].writes = <<>>
  /\ LET w == exec[b]
         n == w.step + 1
         over == ~Accepts(a) \/ n = Steps[Job(b)]
     IN  Work(b, [w EXCEPT !.step = n, !.done = @ \cup (IF Worked(a) THEN {n} ELSE {}),
                           !.status = IF ~over THEN @ ELSE IF Accepts(a) THEN "completed" ELSE "failed",
                           !.writes = IF over THEN <<"run", "last", "record">> ELSE <<>>])
  /\ UNCHANGED <<records, did>>

WriteRun(b) ==
  /\ Writes(b, "run") /\ PutRun(b, Job(b), exec[b].status)
  /\ did' = [did EXCEPT ![b][Job(b)] = exec[b].done]
  /\ Work(b, Written(b)) /\ UNCHANGED <<last, batch, active>>
WriteLast(b) ==
  /\ Writes(b, "last") /\ PutLast(b, Job(b), exec[b].status)
  /\ Work(b, Written(b)) /\ UNCHANGED <<run, batch, active, did>>

\* The job's outcome on the batch.
WriteRecord(b) ==
  /\ Writes(b, "record") /\ Record(b, Job(b), exec[b].status)
  /\ Work(b, Written(b)) /\ UNCHANGED <<run, last, active, did>>
Return(b) ==
  /\ Writes(b, "return") /\ Work(b, NextJob(exec[b])) /\ UNCHANGED <<records, did>>

\* The invocation is lost: Retry runs the job again, Catch goes on to the next.
RunnerDies(b) ==
  /\ Running(b) /\ budget.deaths > 0 /\ budget' = [budget EXCEPT !.deaths = @ - 1]
  /\ LET w == exec[b]
     IN  \/ /\ w.tries < MaxAttempts
            /\ exec' = [exec EXCEPT ![b] = [Again(w) EXCEPT !.tries = @ + 1]]
         \/ exec' = [exec EXCEPT ![b] = NextJob(w)]
  /\ died' = TRUE /\ UNCHANGED <<records, start, did, raced, stranded, called>>

\* Finalize, whatever became of the jobs: the batch, then the pointer.
Finalize(b) ==
  /\ exec[b].state = "running" /\ exec[b].todo = <<>>
  /\ batch' = [batch EXCEPT ![b].status = "completed"]
  /\ Work(b, [exec[b] EXCEPT !.state = "finalising"])
  /\ UNCHANGED <<run, last, active, did>>
FinalizeClear(b) ==
  /\ exec[b].state = "finalising" /\ active' = NoBatch
  /\ Work(b, [exec[b] EXCEPT !.state = "ended"]) /\ UNCHANGED <<run, last, batch, did>>

\* Finalize is not retried, nor is a start that stops half-way.
FinalizeDies(b) ==
  /\ exec[b].state \in {"running", "finalising"} /\ exec[b].todo = <<>>
  /\ budget.deaths > 0 /\ budget' = [budget EXCEPT !.deaths = @ - 1]
  /\ exec' = [exec EXCEPT ![b].state = "ended"] /\ stranded' = stranded \cup {b}
  /\ UNCHANGED <<records, start, did, raced, died, called>>
StartDies(c) ==
  /\ start[c] # <<>> /\ budget.deaths > 0 /\ budget' = [budget EXCEPT !.deaths = @ - 1]
  /\ start' = [start EXCEPT ![c] = <<>>] /\ stranded' = stranded \cup {start[c][1].b}
  /\ UNCHANGED <<records, exec, did, raced, died, called>>

\* completeRun: any run there is, by any caller who may run the jobs.
CompleteRun(b, j, st) ==
  /\ run[b][j] # "none" /\ budget.callbacks > 0 /\ budget' = [budget EXCEPT !.callbacks = @ - 1]
  /\ PutRun(b, j, st) /\ PutLast(b, j, st)
  /\ called' = called \cup {<<b, j>>}
  /\ UNCHANGED <<batch, active, start, exec, did, raced, died, stranded>>

StartStep(c) ==
  QueueRun(c) \/ QueueLast(c) \/ PutBatch(c) \/ SetActive(c) \/ StartExecution(c) \/ ClearActive(c)
Drive(b) ==
  \/ \E a \in Answers : Invoke(b, a)
  \/ WriteRun(b) \/ WriteLast(b) \/ WriteRecord(b) \/ Return(b) \/ Finalize(b) \/ FinalizeClear(b)

Next ==
  \/ \E c \in Starters : \/ \E b \in Batches : StartBatch(c, b)
                         \/ StartStep(c) \/ StartFails(c) \/ StartDies(c)
  \/ \E b \in Batches : \/ Drive(b) \/ RunnerDies(b) \/ FinalizeDies(b)
                        \/ \E j \in JobNames, st \in Closed : CompleteRun(b, j, st)

Spec == Init /\ [][Next]_vars

\* A request goes on until it ends, and the state machine drives its execution.
Fairness == /\ \A c \in Starters : WF_vars(StartStep(c))
            /\ \A b \in Batches : WF_vars(Drive(b))
FairSpec == Spec /\ Fairness

-----------------------------------------------------------------------------
Statuses == {"none", "queued", "completed", "failed"}
TypeOK ==
  /\ run \in [Batches -> [JobNames -> Statuses]]
  /\ last \in [JobNames -> [batch : Batches \cup {NoBatch}, status : Statuses]]
  /\ batch \in [Batches -> [status : {"none", "running", "completed", "failed"},
                            jobs : [JobNames -> Statuses], index : 0..Len(JobOrder)]]
  /\ active \in Batches \cup {NoBatch} /\ stranded \subseteq Batches

\* A run is completed only if every step of the job did its work in the
\* attempt recorded (_assert_step_succeeded), unless it was closed by a call.
CompletedDidItsWork ==
  \A b \in Batches, j \in JobNames :
    run[b][j] = "completed" /\ <<b, j>> \notin called
      => did[b][j] = 1..Steps[j]

\* Progress is the number of jobs that are over, a job run again counting once
\* (_record_on_batch).
ProgressIsTrue ==
  \A b \in Batches : batch[b].index = Cardinality({j \in JobNames : batch[b].jobs[j] \in Closed})

\* A finished batch says of every job what the job's run says, unless an
\* invocation died between the two or a call closed the run.
BatchTellsRuns ==
  \A b \in Batches, j \in JobNames :
    batch[b].status = "completed" /\ ~died /\ <<b, j>> \notin called
      => batch[b].jobs[j] = run[b][j] /\ run[b][j] \in Closed

\* The last run shown is the newest one and its status (put_last_job_run),
\* between writes, unless batches overlapped or one stopped half-way.
LastRunIsNewest ==
  raced \/ died \/ stranded # {} \/ called # {} \/
  \A j \in JobNames, b \in Batches :
    (/\ run[b][j] # "none" /\ \A a \in Batches : a > b => run[a][j] = "none"
     /\ \A c \in Starters : start[c] = <<>> \/ start[c][1] # Op("last", b, j)
     /\ ~(Writes(b, "last") /\ Job(b) = j))
      => last[j] = [batch |-> b, status |-> run[b][j]]

InWork == {b \in Batches : exec[b].state = "running"}
Starting == {b \in Batches : \E c \in Starters : start[c] # <<>> /\ start[c][1].b = b}

\* A batch is started while another one is under way only if the two starts,
\* or the start and the other's finalisation, overlapped (start_batch).
BatchesTakeTurns == raced \/ stranded # {} \/ Cardinality(InWork \cup Starting) <= 1

\* All of them.
BatchesHold ==
  /\ TypeOK
  /\ CompletedDidItsWork /\ ProgressIsTrue
  /\ BatchTellsRuns /\ LastRunIsNewest /\ BatchesTakeTurns

\* A batch does not stay in flight: the pointer leaves it, whatever became of
\* its jobs (Finalize), unless its start or its finalisation died.
BatchIsReleased == []<>(active = NoBatch \/ active \in stranded)
=============================================================================
