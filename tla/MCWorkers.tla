----------------------------- MODULE MCWorkers ------------------------------
(* Small instances of what Lambda and its schedules drive: the award worker,  *)
(* the rollups of the ledger under faults, the certifications' watchdog and   *)
(* expiry sweep.  They share no row, so their steps commute, and one run      *)
(* checks them one beside the other: the initial state picks the part that    *)
(* moves, the rest stands at one of its initial states.                       *)
EXTENDS Claims, Sequences

CONSTANTS m1, g1, g2, Community,
          wide, local, w1, w2,                        \* awards and workers
          q1, i1, i2, NoId, l1,                       \* ledger entries, a leader's request
          cert, f1, byFile, byLink, sweep1, sweep2    \* claims

VARIABLES part,
  visible, lambda, idem, joined, leaders, paid, budget,
  log, ckpt, rollup, applied, marked, invocation, request, faults

awardVars == <<visible, lambda, idem, joined, leaders, paid, budget>>
ledgerVars == <<log, ckpt, rollup, applied, marked, invocation, request, faults>>
allVars == <<part, awardVars, ledgerVars, vars>>

-----------------------------------------------------------------------------
(* A community-wide attendance award that splits over the earner's groups,    *)
(* and a group award of the same earner; two workers.                         *)
MCAward ==
  [a \in {wide, local} |->
     IF a = wide THEN [member |-> m1, group |-> Community, points |-> 3, attendance |-> TRUE]
     ELSE [member |-> m1, group |-> g1, points |-> 2, attendance |-> FALSE]]

A == INSTANCE Awards WITH
  Members <- {m1}, Groups <- {g1, g2}, Awards <- {wide, local}, Award <- MCAward,
  Workers <- {w1, w2}, BatchSize <- 2,
  MaxCopies <- 1, MaxMoves <- 2, MaxCrashes <- 1, MaxErrors <- 1

(* Two entries of one member; an invocation may die twice. *)
MCScope == [c \in {l1} |-> {g1}]

P == INSTANCE PointLedger WITH
  Members <- {m1}, Groups <- {g1}, Quarters <- {q1}, Ids <- {i1, i2}, Deltas <- {5},
  Callers <- {l1}, Scope <- MCScope, BatchSize <- 2, MaxCrashes <- 2, MaxThrottles <- 0,
  lambda <- invocation, call <- request

(* One member claims one certification with a file and again with a link that *)
(* falls due on the second day.  Two sweeps run at once where no invocation   *)
(* dies (claims), and one sweep where one does (deaths).                      *)
MCFor ==
  [k \in Claims |->
     IF k = byLink THEN [cert |-> cert, member |-> m1, expires |-> 2, file |-> NoFile]
     ELSE [cert |-> cert, member |-> m1, expires |-> 0, file |-> f1]]
(* The file's falls due too (unindexed). *)
MCDue == [k \in Claims |-> [MCFor[k] EXCEPT !.expires = 2]]

ASSUME A!AwardAssumption /\ A!CommunityAssumption /\ A!BoundAssumption

-----------------------------------------------------------------------------
MCInit ==
  /\ part \in {"awards", "ledger", "claims", "deaths"}
  /\ A!Init /\ (part # "awards" => joined[m1] = <<>> /\ leaders = {})
  /\ P!Init /\ Init

PayAwards == part = "awards" /\ A!Next /\ UNCHANGED <<ledgerVars, vars>>
RollUp == part = "ledger" /\ P!Next /\ UNCHANGED <<awardVars, vars>>
Certify ==
  /\ part \in {"claims", "deaths"} /\ Next
  /\ part = "claims" => crashes' = 0
  /\ part = "deaths" => proc'[sweep2] = Idle
  /\ UNCHANGED <<awardVars, ledgerVars>>

MCNext == UNCHANGED part /\ (PayAwards \/ RollUp \/ Certify)

(* The fairness of each part, owed only where the part moves. *)
MCFairness ==
  /\ \A w \in {w1, w2} : WF_awardVars(part = "awards" /\ A!Work(w))
  /\ WF_ledgerVars(part = "ledger" /\ P!Maintain(m1))
  /\ \A w \in Watchdogs : WF_vars(part \in {"claims", "deaths"} /\ Guard(w))
  /\ WF_vars(part \in {"claims", "deaths"} /\ Sweep(sweep1))
  /\ WF_vars(part = "claims" /\ Sweep(sweep2))

MCSpec == MCInit /\ [][MCNext]_allVars /\ MCFairness

-----------------------------------------------------------------------------
\* The parts of a community-wide award add up to its value, and an award event is
\* paid at most once, however often it is delivered (split_points, AwardWorker.handle).
AwardsAddUp == A!TypeOK /\ A!PartsSumToValue /\ A!NeverPaidTwice
\* An award event leaves the queue only when it is paid, or cannot be
\* (AwardWorker.handle).
GoneMeansPaid == A!GoneMeansPaid
\* Undisturbed, every award is paid in the end (AwardWorker.handle).
EveryAwardPaid == []<>(part = "awards" => A!AwardsPaid)
\* Every ledger entry reaches the rollups (RollupMaintainer.handle).
EveryEntryApplied == P!EveryEntryApplied
\* No claim stays in scanning for good (WatchdogService.run), and every certification
\* that is due expires (ExpiryService.sweep).
ClaimsGoOn == EvidenceSettles /\ DueClaimsExpire
=============================================================================
