------------------------------- MODULE Awards -------------------------------
(***************************************************************************)
(* The automatic award pipeline of contributions-scoring: award_worker_    *)
(* handler takes batches of award events from SQS, AwardWorker.handle      *)
(* claims each event's key in the idempotency table, and ScoringService    *)
(* appends one ledger entry, or one per current group of the earner when   *)
(* the event is community-wide.                                            *)
(*                                                                         *)
(*   visible[a]  copies of award event a that SQS may deliver              *)
(*   lambda[w]   a worker invocation: its batch, the message it is at and  *)
(*               the allocations of that message still to be appended      *)
(*   idem        keys in the idempotency table (an award event IS its key) *)
(*   joined[m]   MEMBERSHIP#m/GROUP# rows in (joinedAt, groupId) order     *)
(*   leaders     members whose projected role is not a Member's            *)
(*   paid[a]     the ledger entries written for a, in order                *)
(***************************************************************************)
EXTENDS Integers, Sequences, SequencesExt, FiniteSetsExt

CONSTANTS Members, Groups, Community,
          Awards,        \* award events, by idempotencyKey
          Award,         \* Award[a] = [member, group, points, attendance]
          Workers, BatchSize,
          MaxCopies,     \* bound on duplicated deliveries
          MaxMoves,      \* bound on projection updates
          MaxCrashes, MaxErrors

AwardAssumption ==
  Award \in [Awards -> [member : Members, group : Groups \cup {Community},
                        points : Nat, attendance : BOOLEAN]]
CommunityAssumption == Community \notin Groups
BoundAssumption == BatchSize \in Nat \ {0}

VARIABLES visible, lambda, idem, joined, leaders, paid, budget

vars == <<visible, lambda, idem, joined, leaders, paid, budget>>
projection == <<joined, leaders>>

Allocation == [group : Groups, points : Int]
Idle == [pc |-> "idle", batch |-> <<>>, pos |-> 0, todo |-> <<>>]

\* A bound is a budget: an action that needs one uses it up.
Spend(what) == budget[what] > 0 /\ budget' = [budget EXCEPT ![what] = @ - 1]

Init ==
  /\ visible = [a \in Awards |-> 1]
  /\ lambda = [w \in Workers |-> Idle]
  /\ idem = {}
  /\ joined \in [Members -> {<<>>} \cup {<<g>> : g \in Groups}]
  /\ leaders \in SUBSET Members
  /\ paid = [a \in Awards |-> <<>>]
  /\ budget = [copy |-> MaxCopies, move |-> MaxMoves, crash |-> MaxCrashes, error |-> MaxErrors]

-----------------------------------------------------------------------------
(* Equal split over the earner's groups, the remainder one point at a time to *)
(* the earliest joined. *)

SplitPoints(total, groups) ==
  LET n == Len(groups)
      base == total \div n
      remainder == total - base * n
  IN  [i \in 1..n |-> [group |-> groups[i],
                       points |-> base + (IF i <= remainder THEN 1 ELSE 0)]]

Allocations(a) ==
  LET e == Award[a]
  IN  IF e.points = 0 THEN <<>>
      ELSE IF e.group # Community THEN << [group |-> e.group, points |-> e.points] >>
      ELSE IF joined[e.member] = <<>> THEN <<>>
      ELSE SplitPoints(e.points, joined[e.member])

Eligible(a) == ~ (Award[a].attendance /\ Award[a].member \in leaders)

-----------------------------------------------------------------------------
(* SQS and the worker. *)

\* The event is queued again: a redelivery by SQS, or the producer publishing
\* the same key once more.
Duplicate(a) ==
  /\ Spend("copy")
  /\ visible' = [visible EXCEPT ![a] = @ + 1]
  /\ UNCHANGED <<lambda, idem, projection, paid>>

Receive(w) ==
  /\ lambda[w].pc = "idle"
  /\ \E n \in 1..BatchSize : \E batch \in [1..n -> Awards] :
       /\ \A a \in Awards : Quantify(1..n, LAMBDA i : batch[i] = a) <= visible[a]
       /\ visible' = [a \in Awards |->
                        visible[a] - Quantify(1..n, LAMBDA i : batch[i] = a)]
       /\ lambda' = [lambda EXCEPT ![w] =
                       [pc |-> "next", batch |-> batch, pos |-> 1, todo |-> <<>>]]
  /\ UNCHANGED <<idem, projection, paid, budget>>

Working(w) == lambda[w].pc \in {"claimed", "append"}
Message(w) == lambda[w].batch[lambda[w].pos]

NextMessage(w) == lambda' = [lambda EXCEPT ![w] = [@ EXCEPT !.pc = "next", !.pos = @ + 1,
                                                            !.todo = <<>>]]

\* Mutant: the key is written without the condition.
ClaimAlways(w) ==
  /\ lambda[w].pc = "next" /\ lambda[w].pos <= Len(lambda[w].batch)
  /\ idem' = idem \cup {Message(w)}
  /\ lambda' = [lambda EXCEPT ![w].pc = "claimed"]
  /\ UNCHANGED <<visible, projection, paid, budget>>

\* Mutant: a duplicate ends the invocation.
ClaimOrStop(w) ==
  /\ lambda[w].pc = "next" /\ lambda[w].pos <= Len(lambda[w].batch)
  /\ IF Message(w) \in idem
     THEN lambda' = [lambda EXCEPT ![w] = Idle] /\ UNCHANGED idem
     ELSE /\ idem' = idem \cup {Message(w)}
          /\ lambda' = [lambda EXCEPT ![w].pc = "claimed"]
  /\ UNCHANGED <<visible, projection, paid, budget>>

\* run_once: the conditional put of the key; a key already there is skipped.
Claim(w) ==
  /\ lambda[w].pc = "next" /\ lambda[w].pos <= Len(lambda[w].batch)
  /\ IF Message(w) \in idem
     THEN NextMessage(w) /\ UNCHANGED idem
     ELSE /\ idem' = idem \cup {Message(w)}
          /\ lambda' = [lambda EXCEPT ![w].pc = "claimed"]
  /\ UNCHANGED <<visible, projection, paid, budget>>

\* Eligibility, value and attribution, read from the projection as it is now.
Resolve(w) ==
  /\ lambda[w].pc = "claimed"
  /\ LET todo == IF Eligible(Message(w)) THEN Allocations(Message(w)) ELSE <<>>
     IN  IF todo = <<>>
         THEN NextMessage(w)
         ELSE lambda' = [lambda EXCEPT ![w] = [@ EXCEPT !.pc = "append", !.todo = todo]]
  /\ UNCHANGED <<visible, idem, projection, paid, budget>>

\* append_ledger of the next allocation.
AppendEntry(w) ==
  /\ lambda[w].pc = "append"
  /\ paid' = [paid EXCEPT ![Message(w)] = Append(@, Head(lambda[w].todo))]
  /\ IF Len(lambda[w].todo) = 1
     THEN NextMessage(w)
     ELSE lambda' = [lambda EXCEPT ![w].todo = Tail(@)]
  /\ UNCHANGED <<visible, idem, projection, budget>>

\* The handler returns and SQS deletes the batch.
Return(w) ==
  /\ lambda[w].pc = "next" /\ lambda[w].pos > Len(lambda[w].batch)
  /\ lambda' = [lambda EXCEPT ![w] = Idle]
  /\ UNCHANGED <<visible, idem, projection, paid, budget>>

\* A store access raises: global_handler returns, SQS deletes the batch.
Swallow(w) ==
  /\ Working(w)
  /\ Spend("error")
  /\ lambda' = [lambda EXCEPT ![w] = Idle]
  /\ UNCHANGED <<visible, idem, projection, paid>>

\* The invocation dies: its whole batch becomes visible again.
Crash(w) ==
  /\ lambda[w].pc # "idle"
  /\ Spend("crash")
  /\ visible' = [a \in Awards |->
       visible[a] + Quantify(DOMAIN lambda[w].batch, LAMBDA i : lambda[w].batch[i] = a)]
  /\ lambda' = [lambda EXCEPT ![w] = Idle]
  /\ UNCHANGED <<idem, projection, paid>>

-----------------------------------------------------------------------------
(* MembershipConsumer keeps the projection; here it only moves on its own. *)

\* upsert_membership: the row's joinedAt becomes the latest.
ProjectJoin(m, g) ==
  /\ Spend("move")
  /\ joined' = [joined EXCEPT ![m] = Append(Remove(@, g), g)]
  /\ UNCHANGED <<visible, lambda, idem, leaders, paid>>

ProjectLeave(m, g) ==
  /\ Contains(joined[m], g)
  /\ Spend("move")
  /\ joined' = [joined EXCEPT ![m] = Remove(@, g)]
  /\ UNCHANGED <<visible, lambda, idem, leaders, paid>>

-----------------------------------------------------------------------------
Work(w) == Receive(w) \/ Claim(w) \/ Resolve(w) \/ AppendEntry(w) \/ Return(w)

Next ==
  \/ \E a \in Awards : Duplicate(a)
  \/ \E w \in Workers : Work(w) \/ Swallow(w) \/ Crash(w)
  \/ \E m \in Members, g \in Groups : ProjectJoin(m, g) \/ ProjectLeave(m, g)

Spec == Init /\ [][Next]_vars

\* Lambda polls a queue that has messages and runs an invocation to its end.
FairSpec == Spec /\ \A w \in Workers : WF_vars(Work(w))

-----------------------------------------------------------------------------
TypeOK ==
  /\ visible \in [Awards -> Nat]
  /\ \A w \in Workers : /\ lambda[w].pc \in {"idle", "next", "claimed", "append"}
                        /\ lambda[w].batch \in Seq(Awards)
                        /\ lambda[w].pos \in 0..(Len(lambda[w].batch) + 1)
                        /\ lambda[w].todo \in Seq(Allocation)
  /\ idem \subseteq Awards
  /\ joined \in [Members -> Seq(Groups)]
  /\ leaders \subseteq Members
  /\ paid \in [Awards -> Seq(Allocation)]

Total(allocations) == FoldSeq(LAMBDA x, sum : x.points + sum, 0, allocations)

\* The worker that holds a message owes exactly what the ledger still lacks:
\* no redelivery, no concurrent worker and no change of membership in the middle
\* of the appends makes the parts miss the value of the award
\* (split_points: "the per-group parts sum EXACTLY to the original value").
PartsSumToValue ==
  \A w \in Workers : lambda[w].pc = "append" =>
    Total(paid[Message(w)]) + Total(lambda[w].todo) = Award[Message(w)].points

\* However often an event is delivered it is paid at most once: never more than
\* its value, never twice to one group (BR-P6).
NeverPaidTwice ==
  \A a \in Awards : /\ Total(paid[a]) <= Award[a].points
                    /\ \A i, j \in DOMAIN paid[a] :
                         paid[a][i].group = paid[a][j].group => i = j

\* Copies of a message the queue or an invocation still holds.
Held(a) == \/ visible[a] > 0
           \/ \E w \in Workers : \E i \in DOMAIN lambda[w].batch : lambda[w].batch[i] = a

\* An award event leaves the queue only when it is paid, or cannot be.
GoneMeansPaid ==
  \A a \in Awards : ~ Held(a) /\ Eligible(a) /\ Allocations(a) # <<>> =>
    Total(paid[a]) = Award[a].points

\* A worker died or a store access failed, or the projection moved.
Disturbed == \/ budget.crash < MaxCrashes
             \/ budget.error < MaxErrors
             \/ budget.move < MaxMoves

\* Unless something of that kind happens, every award is paid in the end, in full,
\* whatever is delivered twice and whichever worker gets it (AwardWorker.handle).
AwardsPaid ==
  Disturbed \/ \A a \in Awards : Eligible(a) /\ Allocations(a) # <<>>
                                    => Total(paid[a]) = Award[a].points
EveryAwardPaid == []<>AwardsPaid
=============================================================================
