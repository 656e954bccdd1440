---------------------------- MODULE ServiceParts -----------------------------
(* Components that owe their users progress, each with names of its own, for  *)
(* a model of several of them and for the proofs about each.                  *)
EXTENDS Parts

-----------------------------------------------------------------------------
(* The badges. *)
CONSTANTS BadgeFiles, NoBadge, BadgeCallers, BadgeConsumers, BadgeWatchdog, BadgeBudgets

VARIABLES definition, pointer, object, public, notices, badgeCall, crossed, lingering, badgeBudget

badgeVars == <<definition, pointer, object, public, notices, badgeCall, crossed, lingering,
               badgeBudget>>

Bd == INSTANCE Badges WITH
  Files <- BadgeFiles, NoFile <- NoBadge, Callers <- BadgeCallers, Consumers <- BadgeConsumers,
  Watchdog <- BadgeWatchdog, Budgets <- BadgeBudgets, call <- badgeCall, budget <- badgeBudget

\* The public bucket holds clean images only, a badge that is shown was copied before,
\* it is the image attached last, reconciliations aside, and an infected one is gone,
\* unless its purge failed (promote_badge, reconcile_badge).
BadgesHold == part = "badges" => Bd!BadgesHold

-----------------------------------------------------------------------------
(* The batch of jobs. *)
CONSTANTS JobBatches, NoJobBatch, JobOrder, JobSteps, Starters, MaxAttempts, JobBudgets

VARIABLES run, last, batch, active, starting, exec, did, raced, jobDied, stranded, called, jobBudget

jobVars == <<run, last, batch, active, starting, exec, did, raced, jobDied, stranded, called,
             jobBudget>>

Jb == INSTANCE Jobs WITH
  Batches <- JobBatches, NoBatch <- NoJobBatch, Steps <- JobSteps, Budgets <- JobBudgets,
  start <- starting, died <- jobDied, budget <- jobBudget

\* A completed run did each of its steps, a batch counts the jobs that are over and
\* agrees with its runs, the last run shown for a job is its newest, and two batches
\* are never under way at once, races aside (start_batch, _record_on_batch).
BatchesHold == part = "jobs" => Jb!BatchesHold
=============================================================================
