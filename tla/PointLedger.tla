---------------------------- MODULE PointLedger ----------------------------
(***************************************************************************)
(* The append-only point ledger of the contributions-scoring service, its  *)
(* stream-maintained rollups, and the manual adjustments and single-use    *)
(* reversals that leaders write into it.                                   *)
(*                                                                         *)
(*   log[m]    the MEMBER#m partition: LEDGER# rows in commit order.  The  *)
(*             table's stream delivers these inserts, in this order, so    *)
(*             the shard of m is the same sequence, read up to ckpt[m].    *)
(*   rollup    every rollup row (L1, L1-life, L2, L3).  A row is an ADDed  *)
(*             number; it is kept as the bag of ledger ids whose points    *)
(*             have been added to it.                                      *)
(*   applied   the GUARD#applied rows, written with the increments.        *)
(*   marked    the GUARD#reverse rows.                                     *)
(*   lambda    the rollup_handler invocation of each shard.                *)
(*   call      the reverseEntry request each caller has in flight.         *)
(***************************************************************************)
EXTENDS Integers, Sequences

CONSTANTS Members, Groups, Quarters,
          Ids,            \* ledger ids that new_id may still draw
          NoId,           \* "reverses": None
          Deltas,         \* points an adjustment may carry
          Callers,        \* concurrent API requests
          Scope,          \* Scope[c]: the groups c may write (CL all, UGL the led one)
          BatchSize,      \* records per stream batch
          MaxCrashes,     \* bound on Lambda crashes and timeouts
          MaxThrottles    \* bound on transactions refused without being cancelled

ASSUME IdAssumption == NoId \notin Ids
ASSUME DeltaAssumption == Deltas \subseteq Int \ {0}
ASSUME ScopeAssumption == Scope \in [Callers -> SUBSET Groups]
ASSUME BoundAssumption == BatchSize \in Nat \ {0} /\ MaxCrashes \in Nat /\ MaxThrottles \in Nat

VARIABLES log, ckpt, rollup, applied, marked, lambda, call, faults

vars == <<log, ckpt, rollup, applied, marked, lambda, call, faults>>
api == <<log, marked, call>>                      \* what API requests write
maintainer == <<ckpt, rollup, applied, lambda>>   \* what rollup_handler writes

Entry == [id : Ids, member : Members, group : Groups, quarter : Quarters,
          points : Int, reverses : Ids \cup {NoId}]

\* Every LEDGER# row of the table.
Ledger == UNION { {log[m][i] : i \in DOMAIN log[m]} : m \in Members }

-----------------------------------------------------------------------------
(* The rollup rows, and those one transaction updates. *)

RowKeys == ({"L1"} \X Members \X Groups \X Quarters)
             \cup ({"LIFE"} \X Members \X Groups)
             \cup ({"L2"} \X Groups \X Quarters)
             \cup ({"L3"} \X Quarters)

RowsOf(e) == { <<"L1", e.member, e.group, e.quarter>>,
               <<"LIFE", e.member, e.group>>,
               <<"L2", e.group, e.quarter>>,
               <<"L3", e.quarter>> }

-----------------------------------------------------------------------------
Lambda == [pc : {"idle", "loop", "txn"}, pos : Nat, end : Nat]
Call == [pc : {"idle", "found", "unreversed", "marked"}, target : Ids \cup {NoId},
         reason : BOOLEAN]
Faults == [crash : 0..MaxCrashes, throttle : 0..MaxThrottles]

Idle == [pc |-> "idle", pos |-> 0, end |-> 0]
NoCall == [pc |-> "idle", target |-> NoId, reason |-> FALSE]

Init ==
  /\ log = [m \in Members |-> <<>>]
  /\ ckpt = [m \in Members |-> 0]
  /\ rollup = [r \in RowKeys |-> [i \in Ids |-> 0]]
  /\ applied = {}
  /\ marked = {}
  /\ lambda = [m \in Members |-> Idle]
  /\ call = [c \in Callers |-> NoCall]
  /\ faults = [crash |-> 0, throttle |-> 0]

-----------------------------------------------------------------------------
(* append_ledger: a put under a fresh id, at once visible on the shard. *)

AppendLedger(e) ==
  /\ \A f \in Ledger : f.id # e.id
  /\ log' = [log EXCEPT ![e.member] = Append(@, e)]

\* AdjustmentService.adjust: validated, then one append.
Adjust(c) ==
  /\ call[c].pc = "idle"
  /\ \E i \in Ids, m \in Members, g \in Scope[c], q \in Quarters, d \in Deltas :
       AppendLedger([id |-> i, member |-> m, group |-> g, quarter |-> q,
                     points |-> d, reverses |-> NoId])
  /\ UNCHANGED <<marked, call, faults, maintainer>>

(* AdjustmentService.reverse, one step per store access. *)

Return(c) == call' = [call EXCEPT ![c] = NoCall]

\* get_ledger_entry and _authorize (404 and 403 change nothing).  Entries are
\* immutable, so the handler's copy stays what the ledger holds.
ReverseRead(c) ==
  /\ call[c].pc = "idle"
  /\ \E e \in Ledger, reason \in BOOLEAN :
       /\ e.group \in Scope[c]
       /\ call' = [call EXCEPT ![c] = [pc |-> "found", target |-> e.id, reason |-> reason]]
  /\ UNCHANGED <<log, marked, faults, maintainer>>

\* reversal_exists: ConflictError when the guard row is there.
ReverseCheck(c) ==
  /\ call[c].pc = "found"
  /\ IF call[c].target \in marked
     THEN Return(c)
     ELSE call' = [call EXCEPT ![c] = [@ EXCEPT !.pc = "unreversed"]]
  /\ UNCHANGED <<log, marked, faults, maintainer>>

\* Mutant: the guard row is put unconditionally.
ReverseMarkAnyway(c) ==
  /\ call[c].pc = "unreversed"
  /\ marked' = marked \cup {call[c].target}
  /\ call' = [call EXCEPT ![c] = [@ EXCEPT !.pc = "marked"]]
  /\ UNCHANGED <<log, faults, maintainer>>

\* mark_reversed: conditional put of the guard row.
ReverseMark(c) ==
  /\ call[c].pc = "unreversed"
  /\ IF call[c].target \in marked
     THEN Return(c) /\ UNCHANGED marked
     ELSE /\ marked' = marked \cup {call[c].target}
          /\ call' = [call EXCEPT ![c] = [@ EXCEPT !.pc = "marked"]]
  /\ UNCHANGED <<log, faults, maintainer>>

\* require_str(reason) comes after the guard was written.
ReverseRefuse(c) ==
  /\ call[c].pc = "marked" /\ ~ call[c].reason
  /\ Return(c)
  /\ UNCHANGED <<log, marked, faults, maintainer>>

\* Mutant: the reversal repeats the points instead of negating them.
ReverseWriteSameSign(c) ==
  /\ call[c].pc = "marked" /\ call[c].reason
  /\ \E e \in Ledger, i \in Ids :
       /\ e.id = call[c].target
       /\ AppendLedger([id |-> i, member |-> e.member, group |-> e.group,
                        quarter |-> e.quarter, points |-> e.points, reverses |-> e.id])
  /\ Return(c)
  /\ UNCHANGED <<marked, faults, maintainer>>

ReverseWrite(c) ==
  /\ call[c].pc = "marked" /\ call[c].reason
  /\ \E e \in Ledger, i \in Ids :
       /\ e.id = call[c].target
       /\ AppendLedger([id |-> i, member |-> e.member, group |-> e.group,
                        quarter |-> e.quarter, points |-> -e.points, reverses |-> e.id])
  /\ Return(c)
  /\ UNCHANGED <<marked, faults, maintainer>>

\* Mutant: a request that dies hands the guard back, its own or not.
ReverseDieReleasing(c) ==
  /\ call[c].pc # "idle"
  /\ faults.crash < MaxCrashes
  /\ faults' = [faults EXCEPT !.crash = @ + 1]
  /\ marked' = marked \ {call[c].target}
  /\ Return(c)
  /\ UNCHANGED <<log, maintainer>>

\* The API Lambda dies, or append_ledger raises and the answer is a 500.
ReverseDie(c) ==
  /\ call[c].pc # "idle"
  /\ faults.crash < MaxCrashes
  /\ faults' = [faults EXCEPT !.crash = @ + 1]
  /\ Return(c)
  /\ UNCHANGED <<log, marked, maintainer>>

-----------------------------------------------------------------------------
(* The stream's event source mapping and RollupMaintainer.handle. *)

Poll(m) ==
  /\ lambda[m].pc = "idle"
  /\ \E n \in 1..BatchSize :
       /\ ckpt[m] + n <= Len(log[m])
       /\ lambda' = [lambda EXCEPT ![m] =
                       [pc |-> "loop", pos |-> ckpt[m] + 1, end |-> ckpt[m] + n]]
  /\ UNCHANGED <<ckpt, rollup, applied, faults, api>>

Current(m) == log[m][lambda[m].pos]

\* transact_write_items is sent for the record at pos.
Send(m) ==
  /\ lambda[m].pc = "loop" /\ lambda[m].pos <= lambda[m].end
  /\ lambda' = [lambda EXCEPT ![m] = [@ EXCEPT !.pc = "txn"]]
  /\ UNCHANGED <<ckpt, rollup, applied, faults, api>>

NextRecord(m) ==
  lambda' = [lambda EXCEPT ![m] = [pc |-> "loop", pos |-> @.pos + 1, end |-> @.end]]

\* Mutant: the increments are not conditional on the guard row.
CommitUnguarded(m) ==
  /\ lambda[m].pc = "txn"
  /\ applied' = applied \cup {Current(m).id}
  /\ rollup' = [r \in RowKeys |->
                  IF r \in RowsOf(Current(m))
                  THEN [rollup[r] EXCEPT ![Current(m).id] = @ + 1]
                  ELSE rollup[r]]
  /\ NextRecord(m)
  /\ UNCHANGED <<ckpt, faults, api>>

\* The guard row is absent: guard and all four increments are written.
Commit(m) ==
  /\ lambda[m].pc = "txn" /\ Current(m).id \notin applied
  /\ applied' = applied \cup {Current(m).id}
  /\ rollup' = [r \in RowKeys |->
                  IF r \in RowsOf(Current(m))
                  THEN [rollup[r] EXCEPT ![Current(m).id] = @ + 1]
                  ELSE rollup[r]]
  /\ NextRecord(m)
  /\ UNCHANGED <<ckpt, faults, api>>

\* TransactionCanceled because the guard row is present.
GuardRefuses(m) ==
  /\ lambda[m].pc = "txn" /\ Current(m).id \in applied
  /\ NextRecord(m)
  /\ UNCHANGED <<ckpt, rollup, applied, faults, api>>

\* TransactionCanceled because another shard's transaction holds one of the
\* rows: apply_to_rollups returns False as it does for the guard.
Conflict(m) ==
  /\ lambda[m].pc = "txn"
  /\ \E n \in Members \ {m} :
       lambda[n].pc = "txn" /\ RowsOf(Current(m)) \cap RowsOf(Current(n)) # {}
  /\ NextRecord(m)
  /\ UNCHANGED <<ckpt, rollup, applied, faults, api>>

\* Any other error is raised through handle; global_handler turns it into a
\* return value, and the mapping checkpoints the whole batch.
Throttle(m) ==
  /\ lambda[m].pc = "txn"
  /\ faults.throttle < MaxThrottles
  /\ faults' = [faults EXCEPT !.throttle = @ + 1]
  /\ ckpt' = [ckpt EXCEPT ![m] = lambda[m].end]
  /\ lambda' = [lambda EXCEPT ![m] = Idle]
  /\ UNCHANGED <<rollup, applied, api>>

Finish(m) ==
  /\ lambda[m].pc = "loop" /\ lambda[m].pos > lambda[m].end
  /\ ckpt' = [ckpt EXCEPT ![m] = lambda[m].end]
  /\ lambda' = [lambda EXCEPT ![m] = Idle]
  /\ UNCHANGED <<rollup, applied, faults, api>>

\* Mutant: the batch is checkpointed before it is processed.
CrashCheckpointed(m) ==
  /\ lambda[m].pc # "idle"
  /\ faults.crash < MaxCrashes
  /\ faults' = [faults EXCEPT !.crash = @ + 1]
  /\ ckpt' = [ckpt EXCEPT ![m] = lambda[m].end]
  /\ lambda' = [lambda EXCEPT ![m] = Idle]
  /\ UNCHANGED <<rollup, applied, api>>

\* The invocation times out or is killed: nothing is checkpointed and the
\* mapping will deliver the batch again.
Crash(m) ==
  /\ lambda[m].pc # "idle"
  /\ faults.crash < MaxCrashes
  /\ faults' = [faults EXCEPT !.crash = @ + 1]
  /\ lambda' = [lambda EXCEPT ![m] = Idle]
  /\ UNCHANGED <<ckpt, rollup, applied, api>>

-----------------------------------------------------------------------------
Request(c) == \/ ReverseCheck(c) \/ ReverseMark(c)
              \/ ReverseRefuse(c) \/ ReverseWrite(c)

Maintain(m) == \/ Poll(m) \/ Send(m) \/ Commit(m) \/ GuardRefuses(m)
               \/ Conflict(m) \/ Finish(m)

Next ==
  \/ \E c \in Callers : Adjust(c) \/ ReverseRead(c) \/ Request(c) \/ ReverseDie(c)
  \/ \E m \in Members : Maintain(m) \/ Throttle(m) \/ Crash(m)

Spec == Init /\ [][Next]_vars

\* The mapping polls a shard that has records, and an invocation goes on
\* until it ends: Lambda owes nothing else.
Fairness == \A m \in Members : WF_vars(Maintain(m))

FairSpec == Spec /\ Fairness

-----------------------------------------------------------------------------
TypeOK ==
  /\ log \in [Members -> Seq(Entry)]
  /\ ckpt \in [Members -> Nat]
  /\ rollup \in [RowKeys -> [Ids -> Nat]]
  /\ applied \subseteq Ids
  /\ marked \subseteq Ids
  /\ lambda \in [Members -> Lambda]
  /\ call \in [Callers -> Call]
  /\ faults \in Faults

\* Every rollup row holds the points of the applied entries that belong to it,
\* each once, and nothing else: the four levels never drift apart, however often
\* the stream redelivers a record (repository.apply_to_rollups).
RollupsReconcile ==
  \A r \in RowKeys, i \in Ids :
    rollup[r][i] = IF i \in applied /\ \E e \in Ledger : e.id = i /\ r \in RowsOf(e)
                   THEN 1 ELSE 0

\* An entry is reversed at most once, whatever leaders reverse it concurrently
\* and whichever of their requests die (AdjustmentService.reverse, BR-J2).
SingleReversal ==
  \A e, f \in Ledger : e.reverses # NoId /\ e.reverses = f.reverses => e = f

\* A reversal lands in the very rollup rows of the entry it reverses and
\* cancels its points there.
ReversalCancels ==
  \A e \in Ledger : e.reverses # NoId =>
    \E f \in Ledger : /\ f.id = e.reverses
                      /\ RowsOf(f) = RowsOf(e)
                      /\ e.points + f.points = 0

\* Once a shard is read past an entry, its points are in the rollups
\* (consumers.RollupMaintainer: "Exactly-once via the atomic guard").
NothingSkipped ==
  \A m \in Members : \A p \in 1..ckpt[m] : log[m][p].id \in applied

Reversed(i) == \E e \in Ledger : e.reverses = i
Reversing(i) == \E c \in Callers : call[c].pc = "marked" /\ call[c].target = i

\* Every ledger entry reaches the rollups: again and again none is missing.
EveryEntryApplied == []<>(\A e \in Ledger : e.id \in applied)

-----------------------------------------------------------------------------
(* A reversal is an at-most-once effect keyed by the entry it reverses. *)

ReversalPhase ==
  [i \in Ids |-> IF Reversed(i) THEN "done"
                 ELSE IF i \notin marked THEN "open"
                 ELSE IF Reversing(i) THEN "claimed" ELSE "lost"]

Reversals == INSTANCE AtMostOnce WITH Keys <- Ids, phase <- ReversalPhase

\* Reversing implements the at-most-once protocol: the guard row is the claim,
\* and no request ever hands a claim back or writes without one.
ReversalsOnce == Reversals!Spec
=============================================================================
