----------------------------- MODULE MCServices -----------------------------
(* Small instances of the components that owe their users progress: exports,  *)
(* forums and their sweep, the batch of jobs, badges.  They share no row, so  *)
(* their steps commute, and one run checks them one beside the other: the     *)
(* initial state picks the part that moves, the rest stands at one of its     *)
(* initial states.                                                            *)
EXTENDS Exports, ServiceParts, Sequences

CONSTANTS u1, g1, g2, none,        \* people, groups, no group
          p1, w1, w2,              \* forums: a post and two words
          c1, c2,                  \* concurrent requests
          reindex, counts          \* jobs of a batch

VARIABLES
  forum, channel, post, index, group, bus, claimed, call, sweep, made, doomed, forumLate,
  mixed, died, forumBudget

forumVars == <<forum, channel, post, index, group, bus, claimed, call, sweep, made, doomed,
               forumLate, mixed, died, forumBudget>>
allVars == <<part, vars, forumVars, jobVars, badgeVars>>

-----------------------------------------------------------------------------
(* One group leader's exports of each service that has them. *)
ExportFaults(f) == [starts |-> 2, faults |-> f, deaths |-> 1 - f, died |-> 0]
MCBudgets == {ExportFaults(0), ExportFaults(1)}
MCRole == [a \in Actors |-> "UserGroupLeader"]
MCFirstLed == [a \in Actors |-> g1]

(* Two requests, two groups, two forums; what one may use, the others lack. *)
ForumFaults(r, e, d) == [requests |-> r, events |-> e, deaths |-> d]
F == INSTANCE Forums WITH
  FreshForums <- {1, 2}, FreshChannels <- {1, 2, 3}, Posts <- {p1}, Words <- {w1, w2},
  Groups <- {g1, g2}, NoGroup <- none, Callers <- {c1, c2}, Batch <- 2,
  Budgets <- {ForumFaults(2, 1, 1), ForumFaults(1, 3, 0), ForumFaults(3, 1, 0),
              ForumFaults(2, 2, 0)},
  late <- forumLate, budget <- forumBudget

(* Two jobs, one of two steps.  Two requests overlap where nothing fails, and *)
(* one caller makes the requests where something does.                        *)
JobFaults(d, r, c) == [deaths |-> d, refusals |-> r, callbacks |-> c, both |-> d + r + c = 0]
MCJobOrder == <<reindex, counts>>
MCJobSteps == [j \in {reindex, counts} |-> IF j = reindex THEN 2 ELSE 1]
MCJobBudgets == {JobFaults(0, 0, 0), JobFaults(1, 0, 0), JobFaults(0, 1, 0), JobFaults(0, 0, 1)}

(* Two images, one request, one delivery and the watchdog; an edit, or a fault. *)
BadgeFaults(e, f) == [edits |-> e, faults |-> f]
MCBadgeBudgets == {BadgeFaults(1, 0), BadgeFaults(0, 1)}

-----------------------------------------------------------------------------
MCInit ==
  /\ part \in {"exports", "forums", "jobs", "badges"}
  /\ Init /\ (part # "exports" => service = "identity" /\ budget = ExportFaults(0))
  /\ F!Init /\ (part # "forums" => forumBudget = ForumFaults(2, 2, 0))
  /\ Jb!Init /\ (part # "jobs" => jobBudget = JobFaults(0, 0, 0))
  /\ Bd!Init /\ (part # "badges" => badgeBudget = BadgeFaults(1, 0))

Export == part = "exports" /\ Next
Discuss == part = "forums" /\ F!Next
RunJobs == part = "jobs" /\ Jb!Next /\ (jobBudget.both \/ starting'[c2] = <<>>)
Badge == part = "badges" /\ Bd!Next

MCNext ==
  /\ UNCHANGED part
  /\ \/ Export /\ UNCHANGED <<forumVars, jobVars, badgeVars>>
     \/ Discuss /\ UNCHANGED <<vars, jobVars, badgeVars>>
     \/ RunJobs /\ UNCHANGED <<vars, forumVars, badgeVars>>
     \/ Badge /\ UNCHANGED <<vars, forumVars, jobVars>>

(* The fairness of each part, owed only where the part moves. *)
ExportsGoOn ==
  /\ \A j \in Jobs : WF_vars(part = "exports" /\ Serve(j))
  /\ \A d \in Runs : WF_vars(part = "exports" /\ Worker(d))
  /\ \A a \in Actors : WF_vars(part = "exports" /\ Age(a))
ForumsGoOn ==
  /\ WF_forumVars(part = "forums" /\ F!SweepStart)
  /\ WF_forumVars(part = "forums" /\ (F!SweepBatch \/ F!SweepForum))
  /\ \A c \in {c1, c2} : WF_forumVars(part = "forums" /\ F!Access(c))
JobsGoOn ==
  /\ \A c \in Starters : WF_jobVars(part = "jobs" /\ Jb!StartStep(c))
  /\ \A b \in JobBatches : WF_jobVars(part = "jobs" /\ Jb!Drive(b))
BadgesGoOn ==
  /\ WF_badgeVars(part = "badges" /\ Bd!Watch)
  /\ \A p \in Bd!Procs : WF_badgeVars(part = "badges" /\ Bd!Step(p))

MCSpec == /\ MCInit /\ [][MCNext]_allVars
          /\ ExportsGoOn /\ ForumsGoOn /\ JobsGoOn /\ BadgesGoOn

-----------------------------------------------------------------------------
\* Forums are hidden exactly while their group is deleted (BR-28) and for good with a
\* group that is, the sweep leaves those of groups in which nothing was deleted, and a
\* post is found by its words until it is edited or deleted.
ForumsHold ==
  F!TypeOK /\ F!ForumsSurvive /\ F!HiddenWithGroup /\ F!HardDeletedIsUnseen /\ F!PostsAreFound
\* Marked forums are purged in the end, however often the sweep stops, the pointer
\* leaves every batch that neither start nor end killed, and no judged image stays
\* pending while it is attached (sweep, _finalize, run_watchdog).
ServicesSettle == F!PurgedIsGone /\ Jb!BatchIsReleased /\ Bd!BadgeSettles
=============================================================================
