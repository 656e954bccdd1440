------------------------- MODULE PointLedgerProofs -------------------------
(***************************************************************************)
(* Theorems about PointLedger for every set of members, groups, quarters,  *)
(* ids and callers, every batch size and every number of faults.           *)
(***************************************************************************)
EXTENDS PointLedger, TLAPS

-----------------------------------------------------------------------------
(* The inductive invariant. *)

\* new_id never draws an id twice.
IdsUnique == \A e, f \in Ledger : e.id = f.id => e = f

\* A guard row exists only for a ledger entry.
AppliedFromLedger == \A i \in applied : \E e \in Ledger : e.id = i

\* An invocation works inside its shard; a sent transaction is for a record.
LambdaInShard ==
  \A m \in Members : lambda[m].pc # "idle" =>
    /\ lambda[m].pos >= 1
    /\ lambda[m].end <= Len(log[m])
    /\ lambda[m].pc = "txn" => lambda[m].pos <= lambda[m].end

\* A reversal was written under its guard row.
ReversalsMarked == \A e \in Ledger : e.reverses # NoId => e.reverses \in marked

\* A request in flight read its target from the ledger; one that wrote the
\* guard row is the only one and its reversal is not yet in the ledger.
CallsConsistent ==
  \A c \in Callers :
    /\ call[c].pc # "idle" => \E e \in Ledger : e.id = call[c].target
    /\ call[c].pc = "marked" =>
         /\ call[c].target \in marked
         /\ \A e \in Ledger : e.reverses # call[c].target
         /\ \A d \in Callers \ {c} :
              ~ (call[d].pc = "marked" /\ call[d].target = call[c].target)

LedgerInv == IdsUnique /\ ReversalsMarked /\ CallsConsistent
               /\ SingleReversal /\ ReversalCancels

RollupInv == AppliedFromLedger /\ LambdaInShard /\ RollupsReconcile

IInv == TypeOK /\ LedgerInv /\ RollupInv

-----------------------------------------------------------------------------
\* An entry of the ledger is a well-formed entry.
LEMMA LedgerType == TypeOK => Ledger \subseteq Entry
  <1> SUFFICES ASSUME TypeOK, NEW m \in Members, NEW i \in DOMAIN log[m]
               PROVE  log[m][i] \in Entry
    BY DEF Ledger
  <1>1. log[m] \in Seq(Entry)
    BY DEF TypeOK
  <1> QED
    BY <1>1

\* The type invariant speaks only of what append_ledger may break.
LEMMA AppendKeepsShards ==
  ASSUME TypeOK, NEW e \in Entry, AppendLedger(e)
  PROVE  /\ log' \in [Members -> Seq(Entry)]
         /\ Ledger' = Ledger \cup {e}
         /\ \A m \in Members : Len(log[m]) <= Len(log'[m])
         /\ \A m \in Members : \A i \in 1..Len(log[m]) : log'[m][i] = log[m][i]
         /\ \A f \in Ledger : f.id # e.id
  <1>1. e.member \in Members
    BY DEF Entry
  <1>2. log \in [Members -> Seq(Entry)]
    BY DEF TypeOK
  <1>3. log' = [log EXCEPT ![e.member] = Append(@, e)]
    BY DEF AppendLedger
  <1>4. log' \in [Members -> Seq(Entry)]
    BY <1>1, <1>2, <1>3
  <1>5. \A m \in Members : log'[m] = IF m = e.member THEN Append(log[m], e) ELSE log[m]
    BY <1>1, <1>2, <1>3
  <1>6. \A m \in Members : /\ Len(log[m]) <= Len(log'[m])
                           /\ \A i \in 1..Len(log[m]) : log'[m][i] = log[m][i]
    <2> TAKE m \in Members
    <2>1. log[m] \in Seq(Entry)
      BY <1>2
    <2>2. CASE m = e.member
      <3>1. log'[m] = Append(log[m], e)
        BY <1>5, <2>2
      <3>2. Len(Append(log[m], e)) = Len(log[m]) + 1 /\ Len(log[m]) \in Nat
        BY <2>1
      <3>3. \A i \in 1..Len(log[m]) : Append(log[m], e)[i] = log[m][i]
        BY <2>1
      <3> QED
        BY <3>1, <3>2, <3>3
    <2>3. CASE m # e.member
      BY <1>5, <2>1, <2>3
    <2> QED
      BY <2>2, <2>3
  <1>7. Ledger' \subseteq Ledger \cup {e}
    <2> SUFFICES ASSUME NEW m \in Members, NEW i \in DOMAIN log'[m]
                 PROVE  log'[m][i] \in Ledger \cup {e}
      BY DEF Ledger
    <2>1. CASE m = e.member
      <3>1. log'[m] = Append(log[m], e) /\ log[m] \in Seq(Entry)
        BY <1>2, <1>5, <2>1
      <3>2. CASE i \in DOMAIN log[m]
        BY <3>1, <3>2 DEF Ledger
      <3>3. CASE i \notin DOMAIN log[m]
        BY <3>1, <3>3
      <3> QED
        BY <3>2, <3>3
    <2>2. CASE m # e.member
      BY <1>5, <2>2 DEF Ledger
    <2> QED
      BY <2>1, <2>2
  <1>8. Ledger \cup {e} \subseteq Ledger'
    <2>1. ASSUME NEW m \in Members, NEW i \in DOMAIN log[m]
          PROVE  log[m][i] \in Ledger'
      <3>1. log[m] \in Seq(Entry) /\ log'[m] \in Seq(Entry)
        BY <1>2, <1>4
      <3>2. i \in DOMAIN log'[m] /\ log'[m][i] = log[m][i]
        BY <1>6, <3>1
      <3> QED
        BY <3>2 DEF Ledger
    <2>2. e \in Ledger'
      <3>1. log[e.member] \in Seq(Entry) /\ log'[e.member] = Append(log[e.member], e)
        BY <1>1, <1>2, <1>5
      <3>2. Len(log[e.member]) + 1 \in DOMAIN log'[e.member]
              /\ log'[e.member][Len(log[e.member]) + 1] = e
        BY <3>1
      <3> QED
        BY <1>1, <3>2 DEF Ledger
    <2> QED
      BY <2>1, <2>2 DEF Ledger
  <1> QED
    BY <1>4, <1>6, <1>7, <1>8 DEF AppendLedger
-----------------------------------------------------------------------------
LEMMA InitIInv == Init => IInv
  <1> SUFFICES ASSUME Init PROVE IInv
    OBVIOUS
  <1>1. Ledger = {}
    BY DEF Init, Ledger
  <1>2. TypeOK
    BY BoundAssumption DEF Init, TypeOK, Lambda, Idle, Call, NoCall, Faults
  <1>3. LedgerInv
    BY <1>1 DEF Init, LedgerInv, IdsUnique, ReversalsMarked, CallsConsistent, NoCall,
                SingleReversal, ReversalCancels
  <1>4. RollupInv
    BY <1>1 DEF Init, RollupInv, AppliedFromLedger, LambdaInShard, Idle, RollupsReconcile
  <1> QED
    BY <1>2, <1>3, <1>4 DEF IInv

-----------------------------------------------------------------------------
(* The shape of the state: every action keeps TypeOK. *)

\* The record of a running transaction is a ledger entry of its shard.
LEMMA CurrentInLedger ==
  ASSUME TypeOK, LambdaInShard, NEW m \in Members, lambda[m].pc = "txn"
  PROVE  Current(m) \in Ledger /\ Current(m) \in Entry
  <1>1. lambda[m] \in Lambda /\ log[m] \in Seq(Entry)
    BY DEF TypeOK
  <1>2. lambda[m].pos \in 1..Len(log[m])
    BY <1>1 DEF LambdaInShard, Lambda
  <1> QED
    BY <1>1, <1>2 DEF Current, Ledger

\* The two appends write well-formed entries.
LEMMA NewEntryType ==
  ASSUME TypeOK, NEW e \in Ledger, NEW i \in Ids
  PROVE  [id |-> i, member |-> e.member, group |-> e.group, quarter |-> e.quarter,
          points |-> -e.points, reverses |-> e.id] \in Entry
  BY LedgerType DEF Entry

LEMMA AdjustEntryType ==
  ASSUME NEW c \in Callers, NEW i \in Ids, NEW m \in Members, NEW g \in Scope[c],
         NEW q \in Quarters, NEW d \in Deltas
  PROVE  [id |-> i, member |-> m, group |-> g, quarter |-> q,
          points |-> d, reverses |-> NoId] \in Entry
  BY ScopeAssumption, DeltaAssumption DEF Entry

\* A request in flight names a ledger id.
LEMMA TargetType ==
  ASSUME TypeOK, CallsConsistent, NEW c \in Callers, call[c].pc # "idle"
  PROVE  call[c].target \in Ids
  BY LedgerType DEF CallsConsistent, Entry

\* Counting a fault below its bound keeps the counter's type.
LEMMA FaultType ==
  ASSUME TypeOK
  PROVE  /\ faults.crash < MaxCrashes => [faults EXCEPT !.crash = @ + 1] \in Faults
         /\ faults.throttle < MaxThrottles => [faults EXCEPT !.throttle = @ + 1] \in Faults
  <1>1. PICK x \in 0..MaxCrashes, y \in 0..MaxThrottles : faults = [crash |-> x, throttle |-> y]
    BY DEF TypeOK, Faults
  <1>2. [faults EXCEPT !.crash = @ + 1] = [crash |-> x + 1, throttle |-> y]
    BY <1>1
  <1>3. [faults EXCEPT !.throttle = @ + 1] = [crash |-> x, throttle |-> y + 1]
    BY <1>1
  <1> QED
    BY <1>1, <1>2, <1>3, BoundAssumption DEF Faults

\* The records the handlers step to are well formed.
LEMMA CallType ==
  ASSUME TypeOK, NEW c \in Callers
  PROVE  /\ NoCall \in Call
         /\ [call[c] EXCEPT !.pc = "unreversed"] \in Call
         /\ [call[c] EXCEPT !.pc = "marked"] \in Call
  <1>1. call[c] \in Call
    BY DEF TypeOK
  <1>2. NoCall \in Call
    BY DEF NoCall, Call
  <1> QED
    BY <1>1, <1>2 DEF Call

LEMMA LambdaType ==
  ASSUME TypeOK, NEW m \in Members
  PROVE  /\ Idle \in Lambda
         /\ [pc |-> "loop", pos |-> lambda[m].pos + 1, end |-> lambda[m].end] \in Lambda
  <1>1. lambda[m] \in Lambda
    BY DEF TypeOK
  <1> QED
    BY <1>1 DEF Idle, Lambda

LEMMA TypeStep == IInv /\ [Next]_vars => TypeOK'
  <1> SUFFICES ASSUME TypeOK, LambdaInShard, CallsConsistent, [Next]_vars PROVE TypeOK'
    BY DEF IInv, RollupInv, LedgerInv
  <1> USE DEF TypeOK
  <1>1. ASSUME NEW c \in Callers, Adjust(c) PROVE TypeOK'
    <2>1. PICK i \in Ids, m \in Members, g \in Scope[c], q \in Quarters, d \in Deltas :
             AppendLedger([id |-> i, member |-> m, group |-> g, quarter |-> q,
                           points |-> d, reverses |-> NoId])
      BY <1>1 DEF Adjust
    <2>2. log' \in [Members -> Seq(Entry)]
      BY <2>1, AdjustEntryType, AppendKeepsShards
    <2> QED
      BY <1>1, <2>2 DEF Adjust, maintainer
  <1>2. ASSUME NEW c \in Callers, ReverseRead(c) PROVE TypeOK'
    <2>1. PICK e \in Ledger, reason \in BOOLEAN :
            call' = [call EXCEPT ![c] = [pc |-> "found", target |-> e.id, reason |-> reason]]
      BY <1>2 DEF ReverseRead
    <2>2. call' \in [Callers -> Call]
      BY <2>1, LedgerType DEF Call, Entry
    <2> QED
      BY <1>2, <2>2 DEF ReverseRead, maintainer
  <1>3. ASSUME NEW c \in Callers, ReverseCheck(c) PROVE TypeOK'
    <2>1. call[c].target \in Ids
      BY <1>3, TargetType DEF ReverseCheck
    <2>2. call' \in [Callers -> Call]
      BY <1>3, CallType DEF ReverseCheck, Return
    <2> QED
      BY <1>3, <2>2 DEF ReverseCheck, maintainer
  <1>4. ASSUME NEW c \in Callers, ReverseMark(c) PROVE TypeOK'
    <2>1. call[c].target \in Ids
      BY <1>4, TargetType DEF ReverseMark
    <2>2. call' \in [Callers -> Call]
      BY <1>4, CallType DEF ReverseMark, Return
    <2>3. marked' \subseteq Ids
      BY <1>4, <2>1 DEF ReverseMark
    <2> QED
      BY <1>4, <2>2, <2>3 DEF ReverseMark, maintainer
  <1>5. ASSUME NEW c \in Callers, ReverseRefuse(c) PROVE TypeOK'
    BY <1>5 DEF ReverseRefuse, Return, NoCall, Call, maintainer
  <1>6. ASSUME NEW c \in Callers, ReverseWrite(c) PROVE TypeOK'
    <2>1. PICK e \in Ledger, i \in Ids :
            AppendLedger([id |-> i, member |-> e.member, group |-> e.group,
                          quarter |-> e.quarter, points |-> -e.points, reverses |-> e.id])
      BY <1>6 DEF ReverseWrite
    <2>2. log' \in [Members -> Seq(Entry)]
      BY <2>1, NewEntryType, AppendKeepsShards
    <2> QED
      BY <1>6, <2>2 DEF ReverseWrite, Return, NoCall, Call, maintainer
  <1>7. ASSUME NEW c \in Callers, ReverseDie(c) PROVE TypeOK'
    BY <1>7, FaultType DEF ReverseDie, Return, NoCall, Call, maintainer
  <1>8. ASSUME NEW m \in Members, Poll(m) PROVE TypeOK'
    BY <1>8, BoundAssumption DEF Poll, Lambda, api
  <1>9. ASSUME NEW m \in Members, Send(m) PROVE TypeOK'
    BY <1>9 DEF Send, Lambda, api
  <1>10. ASSUME NEW m \in Members, Commit(m) PROVE TypeOK'
    <2>1. Current(m).id \in Ids
      BY <1>10, CurrentInLedger DEF Commit, Entry
    <2>2. rollup' \in [RowKeys -> [Ids -> Nat]]
      BY <1>10, <2>1 DEF Commit
    <2>3. applied' \subseteq Ids
      BY <1>10, <2>1 DEF Commit
    <2>4. lambda' \in [Members -> Lambda]
      BY <1>10 DEF Commit, NextRecord, Lambda
    <2> QED
      BY <1>10, <2>2, <2>3, <2>4 DEF Commit, api
  <1>11. ASSUME NEW m \in Members, GuardRefuses(m) \/ Conflict(m) PROVE TypeOK'
    <2>1. lambda' \in [Members -> Lambda]
      <3>1. NextRecord(m)
        BY <1>11 DEF GuardRefuses, Conflict
      <3> QED
        BY <3>1, LambdaType DEF NextRecord
    <2> QED
      BY <1>11, <2>1 DEF GuardRefuses, Conflict, api
  <1>12. ASSUME NEW m \in Members, Throttle(m) PROVE TypeOK'
    BY <1>12, FaultType DEF Throttle, Idle, Lambda, api
  <1>13. ASSUME NEW m \in Members, Finish(m) PROVE TypeOK'
    BY <1>13 DEF Finish, Idle, Lambda, api
  <1>14. ASSUME NEW m \in Members, Crash(m) PROVE TypeOK'
    BY <1>14, FaultType DEF Crash, Idle, Lambda, api
  <1>15. CASE UNCHANGED vars
    BY <1>15 DEF vars
  <1> QED
    BY <1>1, <1>2, <1>3, <1>4, <1>5, <1>6, <1>7, <1>8, <1>9, <1>10, <1>11, <1>12, <1>13,
       <1>14, <1>15 DEF Next, Request, Maintain

-----------------------------------------------------------------------------
(* Which steps leave the ledger and the requests alone. *)

LEMMA MaintainerKeepsApi ==
  ASSUME NEW m \in Members, Maintain(m) \/ Throttle(m) \/ Crash(m)
  PROVE  UNCHANGED api
  BY DEF Maintain, Poll, Send, Commit, GuardRefuses, Conflict, Finish, Throttle, Crash

LEMMA ApiKeepsMaintainer ==
  ASSUME NEW c \in Callers, Adjust(c) \/ ReverseRead(c) \/ Request(c) \/ ReverseDie(c)
  PROVE  UNCHANGED maintainer
  BY DEF Request, Adjust, ReverseRead, ReverseCheck, ReverseMark, ReverseRefuse,
         ReverseWrite, ReverseDie

\* LedgerInv reads log, marked and call only.
LEMMA ApiStutter == LedgerInv /\ UNCHANGED api => LedgerInv'
  <1> SUFFICES ASSUME LedgerInv, UNCHANGED api PROVE LedgerInv'
    OBVIOUS
  <1>1. log' = log /\ marked' = marked /\ call' = call
    BY DEF api
  <1>2. Ledger' = Ledger
    BY <1>1 DEF Ledger
  <1> QED
    BY <1>1, <1>2 DEF LedgerInv, IdsUnique, ReversalsMarked, CallsConsistent,
                      SingleReversal, ReversalCancels

\* A request that ends gives up nothing the other requests rely on.
LEMMA ReturnStep ==
  ASSUME TypeOK, LedgerInv, NEW c \in Callers, Return(c), log' = log, marked' = marked
  PROVE  LedgerInv'
  <1>1. Ledger' = Ledger
    BY DEF Ledger
  <1>2. \A d \in Callers : call'[d] = IF d = c THEN NoCall ELSE call[d]
    BY DEF Return, TypeOK
  <1>3. CallsConsistent'
    BY <1>1, <1>2 DEF LedgerInv, CallsConsistent, NoCall
  <1> QED
    BY <1>1, <1>3 DEF LedgerInv, IdsUnique, ReversalsMarked, SingleReversal, ReversalCancels

-----------------------------------------------------------------------------
(* The ledger and its requests. *)

LEMMA AdjustLedger ==
  ASSUME IInv, NEW c \in Callers, Adjust(c)
  PROVE  LedgerInv'
  <1> USE DEF IInv, LedgerInv
  <1>1. PICK i \in Ids, m \in Members, g \in Scope[c], q \in Quarters, d \in Deltas :
           AppendLedger([id |-> i, member |-> m, group |-> g, quarter |-> q,
                         points |-> d, reverses |-> NoId])
    BY DEF Adjust
  <1> DEFINE e == [id |-> i, member |-> m, group |-> g, quarter |-> q,
                   points |-> d, reverses |-> NoId]
  <1>2. e \in Entry
    BY AdjustEntryType
  <1>3. Ledger' = Ledger \cup {e} /\ \A f \in Ledger : f.id # i
    BY <1>1, <1>2, AppendKeepsShards
  <1>4. marked' = marked /\ call' = call
    BY DEF Adjust
  <1>5. \A x \in Callers : call[x].pc # "idle" => call[x].target # NoId
    BY TargetType, IdAssumption
  <1>6. e.reverses = NoId /\ e.id = i
    OBVIOUS
  <1> HIDE DEF e
  <1>7. IdsUnique'
    BY <1>3, <1>6 DEF IdsUnique
  <1>8. ReversalsMarked'
    BY <1>3, <1>4, <1>6 DEF ReversalsMarked
  <1>9. CallsConsistent'
    BY <1>3, <1>4, <1>5, <1>6 DEF CallsConsistent
  <1>10. SingleReversal'
    BY <1>3, <1>6 DEF SingleReversal
  <1>11. ReversalCancels'
    BY <1>3, <1>6 DEF ReversalCancels
  <1> QED
    BY <1>7, <1>8, <1>9, <1>10, <1>11

LEMMA ReadLedger ==
  ASSUME IInv, NEW c \in Callers, ReverseRead(c)
  PROVE  LedgerInv'
  <1> USE DEF IInv, LedgerInv
  <1>1. PICK e \in Ledger, reason \in BOOLEAN :
          call' = [call EXCEPT ![c] = [pc |-> "found", target |-> e.id, reason |-> reason]]
    BY DEF ReverseRead
  <1>2. log' = log /\ marked' = marked /\ Ledger' = Ledger
    BY DEF ReverseRead, Ledger
  <1>3. \A d \in Callers : call'[d] = IF d = c
                                      THEN [pc |-> "found", target |-> e.id, reason |-> reason]
                                      ELSE call[d]
    BY <1>1 DEF TypeOK
  <1>4. CallsConsistent'
    BY <1>2, <1>3 DEF CallsConsistent
  <1> QED
    BY <1>2, <1>4 DEF IdsUnique, ReversalsMarked, SingleReversal, ReversalCancels

LEMMA CheckLedger ==
  ASSUME IInv, NEW c \in Callers, ReverseCheck(c)
  PROVE  LedgerInv'
  <1> USE DEF IInv
  <1>1. log' = log /\ marked' = marked /\ Ledger' = Ledger
    BY DEF ReverseCheck, Ledger
  <1>2. CASE call[c].target \in marked
    BY <1>1, <1>2, ReturnStep DEF ReverseCheck
  <1>3. CASE call[c].target \notin marked
    <2>1. call[c].pc = "found" /\ call' = [call EXCEPT ![c] = [@ EXCEPT !.pc = "unreversed"]]
      BY <1>3 DEF ReverseCheck
    <2>2. call[c] \in Call
      BY DEF TypeOK
    <2>3. call'[c].pc = "unreversed" /\ call'[c].target = call[c].target
      BY <2>1, <2>2 DEF TypeOK, Call
    <2>4. \A d \in Callers : d # c => call'[d] = call[d]
      BY <2>1 DEF TypeOK
    <2>5. CallsConsistent'
      BY <1>1, <2>1, <2>3, <2>4 DEF LedgerInv, CallsConsistent
    <2> QED
      BY <1>1, <2>5 DEF LedgerInv, IdsUnique, ReversalsMarked, SingleReversal, ReversalCancels
  <1> QED
    BY <1>2, <1>3

\* The conditional put makes the winner the only request on this entry, and
\* no reversal of it exists because none is written without the guard row.
LEMMA MarkLedger ==
  ASSUME IInv, NEW c \in Callers, ReverseMark(c)
  PROVE  LedgerInv'
  <1> USE DEF IInv
  <1>1. log' = log /\ Ledger' = Ledger
    BY DEF ReverseMark, Ledger
  <1>2. CASE call[c].target \in marked
    BY <1>1, <1>2, ReturnStep DEF ReverseMark
  <1>3. CASE call[c].target \notin marked
    <2>1. /\ call[c].pc = "unreversed"
          /\ marked' = marked \cup {call[c].target}
          /\ call' = [call EXCEPT ![c] = [@ EXCEPT !.pc = "marked"]]
      BY <1>3 DEF ReverseMark
    <2>2. call[c] \in Call
      BY DEF TypeOK
    <2>3. call'[c].pc = "marked" /\ call'[c].target = call[c].target
      BY <2>1, <2>2 DEF TypeOK, Call
    <2>4. \A d \in Callers : d # c => call'[d] = call[d]
      BY <2>1 DEF TypeOK
    <2>5. call[c].target # NoId
      BY <2>1, TargetType, IdAssumption DEF LedgerInv
    <2>6. \A e \in Ledger : e.reverses # call[c].target
      BY <1>3, <2>5 DEF LedgerInv, ReversalsMarked
    <2>7. \A d \in Callers : call[d].pc = "marked" => call[d].target # call[c].target
      BY <1>3 DEF LedgerInv, CallsConsistent
    <2>8. CallsConsistent'
      BY <1>1, <2>1, <2>3, <2>4, <2>6, <2>7 DEF LedgerInv, CallsConsistent
    <2> QED
      BY <1>1, <2>1, <2>8 DEF LedgerInv, IdsUnique, ReversalsMarked, SingleReversal,
                              ReversalCancels
  <1> QED
    BY <1>2, <1>3

LEMMA WriteLedger ==
  ASSUME IInv, NEW c \in Callers, ReverseWrite(c)
  PROVE  LedgerInv'
  <1> USE DEF IInv, LedgerInv
  <1>1. PICK t \in Ledger, i \in Ids :
          /\ t.id = call[c].target
          /\ AppendLedger([id |-> i, member |-> t.member, group |-> t.group,
                           quarter |-> t.quarter, points |-> -t.points, reverses |-> t.id])
    BY DEF ReverseWrite
  <1> DEFINE e == [id |-> i, member |-> t.member, group |-> t.group,
                   quarter |-> t.quarter, points |-> -t.points, reverses |-> t.id]
  <1>2. e \in Entry
    BY NewEntryType
  <1>3. Ledger' = Ledger \cup {e} /\ \A f \in Ledger : f.id # i
    BY <1>1, <1>2, AppendKeepsShards
  <1>4. /\ marked' = marked
        /\ call[c].pc = "marked"
        /\ \A d \in Callers : call'[d] = IF d = c THEN NoCall ELSE call[d]
    BY DEF ReverseWrite, Return, TypeOK
  <1>5. e.reverses = call[c].target /\ e.reverses = t.id /\ e.id = i
    BY <1>1
  <1>6. RowsOf(t) = RowsOf(e)
    BY DEF RowsOf
  <1>7. t \in Entry
    BY LedgerType
  <1>8. e.points + t.points = 0
    BY <1>7 DEF Entry
  <1> HIDE DEF e
  <1>9. IdsUnique'
    BY <1>3, <1>5 DEF IdsUnique
  <1>10. ReversalsMarked'
    BY <1>3, <1>4, <1>5 DEF ReversalsMarked, CallsConsistent
  <1>11. CallsConsistent'
    <2>1. \A d \in Callers : d # c /\ call[d].pc = "marked" => call[d].target # e.reverses
      BY <1>4, <1>5 DEF CallsConsistent
    <2> QED
      BY <1>3, <1>4, <2>1 DEF CallsConsistent, NoCall
  <1>12. SingleReversal'
    <2>1. \A f \in Ledger : f.reverses # e.reverses
      BY <1>4, <1>5 DEF CallsConsistent
    <2> QED
      BY <1>3, <2>1 DEF SingleReversal
  <1>13. ReversalCancels'
    BY <1>3, <1>5, <1>6, <1>8 DEF ReversalCancels
  <1> QED
    BY <1>9, <1>10, <1>11, <1>12, <1>13

LEMMA LedgerStep == IInv /\ [Next]_vars => LedgerInv'
  <1> SUFFICES ASSUME IInv, [Next]_vars PROVE LedgerInv'
    OBVIOUS
  <1>1. ASSUME NEW c \in Callers, ReverseRefuse(c) \/ ReverseDie(c) PROVE LedgerInv'
    BY <1>1, ReturnStep DEF ReverseRefuse, ReverseDie, IInv
  <1>2. ASSUME NEW m \in Members, Maintain(m) \/ Throttle(m) \/ Crash(m) PROVE LedgerInv'
    BY <1>2, MaintainerKeepsApi, ApiStutter DEF IInv
  <1>3. CASE UNCHANGED vars
    BY <1>3, ApiStutter DEF vars, api, IInv
  <1> QED
    BY <1>1, <1>2, <1>3, AdjustLedger, ReadLedger, CheckLedger, MarkLedger, WriteLedger
    DEF Next, Request

-----------------------------------------------------------------------------
(* The rollups and their maintainer. *)

\* A new ledger entry disturbs no rollup row: its id has no guard row yet.
LEMMA AppendRollup ==
  ASSUME IInv, NEW e \in Entry, AppendLedger(e), UNCHANGED maintainer
  PROVE  RollupInv'
  <1> USE DEF IInv, RollupInv
  <1>1. Ledger' = Ledger \cup {e} /\ \A f \in Ledger : f.id # e.id
    BY AppendKeepsShards
  <1>2. \A m \in Members : Len(log[m]) <= Len(log'[m])
    BY AppendKeepsShards
  <1>3. rollup' = rollup /\ applied' = applied /\ lambda' = lambda
    BY DEF maintainer
  <1>4. AppliedFromLedger'
    BY <1>1, <1>3 DEF AppliedFromLedger
  <1>5. LambdaInShard'
    <2> SUFFICES ASSUME NEW m \in Members, lambda[m].pc # "idle"
                 PROVE  /\ lambda[m].pos >= 1
                        /\ lambda[m].end <= Len(log'[m])
                        /\ lambda[m].pc = "txn" => lambda[m].pos <= lambda[m].end
      BY <1>3 DEF LambdaInShard
    <2>1. lambda[m].end \in Nat /\ Len(log[m]) \in Nat /\ Len(log'[m]) \in Nat
      BY AppendKeepsShards DEF TypeOK, Lambda
    <2> QED
      BY <1>2, <2>1 DEF LambdaInShard
  <1>6. e.id \notin applied
    BY <1>1 DEF AppliedFromLedger
  <1>7. RollupsReconcile'
    BY <1>1, <1>3, <1>6 DEF RollupsReconcile
  <1> QED
    BY <1>4, <1>5, <1>7

\* Steps that leave ledger, guards and rows alone keep what the rows hold.
LEMMA RowsStutter ==
  ASSUME RollupInv, log' = log, applied' = applied, rollup' = rollup
  PROVE  AppliedFromLedger' /\ RollupsReconcile'
  <1>1. Ledger' = Ledger
    BY DEF Ledger
  <1> QED
    BY <1>1 DEF RollupInv, AppliedFromLedger, RollupsReconcile

\* The transaction writes the guard row and one increment per level together.
LEMMA CommitRollup ==
  ASSUME IInv, NEW m \in Members, Commit(m)
  PROVE  RollupInv'
  <1> USE DEF IInv, RollupInv
  <1> DEFINE cur == Current(m)
  <1>1. cur \in Ledger /\ cur.id \in Ids /\ cur.id \notin applied
    BY CurrentInLedger DEF Commit, Entry
  <1>2. log' = log /\ Ledger' = Ledger
    BY DEF Commit, api, Ledger
  <1>3. applied' = applied \cup {cur.id}
    BY DEF Commit
  <1>4. rollup' = [r \in RowKeys |-> IF r \in RowsOf(cur)
                                    THEN [rollup[r] EXCEPT ![cur.id] = @ + 1]
                                    ELSE rollup[r]]
    BY DEF Commit
  <1>5. lambda[m] \in Lambda /\ lambda[m].pc = "txn"
    BY DEF Commit, TypeOK
  <1>6. lambda' = [lambda EXCEPT ![m] = [pc |-> "loop", pos |-> lambda[m].pos + 1,
                                         end |-> lambda[m].end]]
    BY DEF Commit, NextRecord
  <1> HIDE DEF cur
  <1>7. AppliedFromLedger'
    BY <1>1, <1>2, <1>3 DEF AppliedFromLedger
  <1>8. LambdaInShard'
    BY <1>2, <1>5, <1>6 DEF LambdaInShard, TypeOK, Lambda
  <1>9. ASSUME NEW r \in RowKeys, NEW i \in Ids
        PROVE  rollup'[r][i] = IF i \in applied' /\ \E e \in Ledger : e.id = i /\ r \in RowsOf(e)
                               THEN 1 ELSE 0
    <2>1. rollup[r] \in [Ids -> Nat]
      BY DEF TypeOK
    <2>2. CASE i = cur.id /\ r \in RowsOf(cur)
      <3>1. rollup[r][i] = 0
        BY <1>1, <2>2 DEF RollupsReconcile
      <3>2. rollup'[r][i] = 1
        BY <1>4, <2>1, <2>2, <3>1
      <3> QED
        BY <1>1, <1>3, <2>2, <3>2
    <2>3. CASE i = cur.id /\ r \notin RowsOf(cur)
      <3>1. rollup'[r][i] = 0
        BY <1>1, <1>4, <2>3 DEF RollupsReconcile
      <3>2. \A e \in Ledger : e.id = i => e = cur
        BY <1>1, <2>3 DEF LedgerInv, IdsUnique
      <3> QED
        BY <2>3, <3>1, <3>2
    <2>4. CASE i # cur.id
      <3>1. rollup'[r][i] = rollup[r][i]
        BY <1>4, <2>1, <2>4
      <3>2. i \in applied' <=> i \in applied
        BY <1>3, <2>4
      <3> QED
        BY <3>1, <3>2 DEF RollupsReconcile
    <2> QED
      BY <2>2, <2>3, <2>4
  <1>10. RollupsReconcile'
    BY <1>2, <1>9 DEF RollupsReconcile
  <1> QED
    BY <1>7, <1>8, <1>10

\* The other steps of an invocation only move it inside its shard.
LEMMA LambdaStep ==
  ASSUME IInv, NEW m \in Members,
         Poll(m) \/ Send(m) \/ GuardRefuses(m) \/ Conflict(m) \/ Finish(m)
           \/ Throttle(m) \/ Crash(m)
  PROVE  RollupInv'
  <1> USE DEF IInv, RollupInv
  <1>1. log' = log /\ applied' = applied /\ rollup' = rollup
    BY DEF Poll, Send, GuardRefuses, Conflict, Finish, Throttle, Crash, api
  <1>2. lambda[m] \in Lambda /\ Len(log[m]) \in Nat /\ ckpt[m] \in Nat
    BY DEF TypeOK
  <1>3. CASE Poll(m)
    <2>1. PICK n \in 1..BatchSize :
            /\ ckpt[m] + n <= Len(log[m])
            /\ lambda' = [lambda EXCEPT ![m] =
                            [pc |-> "loop", pos |-> ckpt[m] + 1, end |-> ckpt[m] + n]]
      BY <1>3 DEF Poll
    <2> QED
      BY <1>1, <1>2, <2>1, RowsStutter DEF LambdaInShard, TypeOK
  <1>4. CASE Send(m)
    <2>1. /\ lambda' = [lambda EXCEPT ![m] = [@ EXCEPT !.pc = "txn"]]
          /\ lambda[m].pc = "loop" /\ lambda[m].pos <= lambda[m].end
      BY <1>4 DEF Send
    <2>2. /\ lambda'[m].pos = lambda[m].pos /\ lambda'[m].end = lambda[m].end
          /\ \A n \in Members : n # m => lambda'[n] = lambda[n]
      BY <1>2, <2>1 DEF TypeOK, Lambda
    <2> QED
      BY <1>1, <2>1, <2>2, RowsStutter DEF LambdaInShard
  <1>5. CASE GuardRefuses(m) \/ Conflict(m)
    <2>1. lambda[m].pc = "txn"
            /\ lambda' = [lambda EXCEPT ![m] = [pc |-> "loop", pos |-> lambda[m].pos + 1,
                                               end |-> lambda[m].end]]
      BY <1>5 DEF GuardRefuses, Conflict, NextRecord
    <2> QED
      BY <1>1, <1>2, <2>1, RowsStutter DEF LambdaInShard, TypeOK, Lambda
  <1>6. CASE Finish(m) \/ Throttle(m) \/ Crash(m)
    <2>1. lambda' = [lambda EXCEPT ![m] = Idle]
      BY <1>6 DEF Finish, Throttle, Crash
    <2> QED
      BY <1>1, <2>1, RowsStutter DEF LambdaInShard, TypeOK, Idle
  <1> QED
    BY <1>3, <1>4, <1>5, <1>6

\* A step that writes neither the ledger nor what the maintainer owns.
LEMMA RollupStutter ==
  ASSUME IInv, log' = log, UNCHANGED maintainer
  PROVE  RollupInv'
  <1>1. applied' = applied /\ rollup' = rollup /\ lambda' = lambda
    BY DEF maintainer
  <1> QED
    BY <1>1, RowsStutter DEF IInv, RollupInv, LambdaInShard

LEMMA RollupStep == IInv /\ [Next]_vars => RollupInv'
  <1> SUFFICES ASSUME IInv, [Next]_vars PROVE RollupInv'
    OBVIOUS
  <1>1. ASSUME NEW c \in Callers, Adjust(c) PROVE RollupInv'
    <2>1. PICK i \in Ids, m \in Members, g \in Scope[c], q \in Quarters, d \in Deltas :
             AppendLedger([id |-> i, member |-> m, group |-> g, quarter |-> q,
                           points |-> d, reverses |-> NoId])
      BY <1>1 DEF Adjust
    <2>2. UNCHANGED maintainer
      BY <1>1, ApiKeepsMaintainer
    <2> QED
      BY <2>1, <2>2, AdjustEntryType, AppendRollup
  <1>2. ASSUME NEW c \in Callers, ReverseWrite(c) PROVE RollupInv'
    <2>1. PICK e \in Ledger, i \in Ids :
            AppendLedger([id |-> i, member |-> e.member, group |-> e.group,
                          quarter |-> e.quarter, points |-> -e.points, reverses |-> e.id])
      BY <1>2 DEF ReverseWrite
    <2>2. UNCHANGED maintainer
      BY <1>2, ApiKeepsMaintainer DEF Request
    <2> QED
      BY <2>1, <2>2, NewEntryType, AppendRollup DEF IInv
  <1>3. ASSUME NEW c \in Callers,
               ReverseRead(c) \/ ReverseCheck(c) \/ ReverseMark(c) \/ ReverseRefuse(c)
                 \/ ReverseDie(c)
        PROVE  RollupInv'
    <2>1. UNCHANGED maintainer
      BY <1>3, ApiKeepsMaintainer DEF Request
    <2>2. log' = log
      BY <1>3 DEF ReverseRead, ReverseCheck, ReverseMark, ReverseRefuse, ReverseDie
    <2> QED
      BY <2>1, <2>2, RollupStutter
  <1>4. CASE UNCHANGED vars
    BY <1>4, RollupStutter DEF vars, maintainer
  <1> QED
    BY <1>1, <1>2, <1>3, <1>4, CommitRollup, LambdaStep DEF Next, Request, Maintain

-----------------------------------------------------------------------------
THEOREM Inductive == Spec => []IInv
  <1>1. IInv /\ [Next]_vars => IInv'
    BY TypeStep, LedgerStep, RollupStep DEF IInv
  <1> QED
    BY InitIInv, <1>1, PTL DEF Spec

\* The variables keep their types (the table rows, the shards' positions, the
\* requests in flight).
THEOREM TypeCorrect == Spec => []TypeOK
  BY Inductive, PTL DEF IInv

\* However often stream records are redelivered, in whatever interleaving of the
\* shards, every rollup row holds exactly the applied entries that belong to it.
THEOREM RollupsAlwaysReconcile == Spec => []RollupsReconcile
  BY Inductive, PTL DEF IInv, RollupInv

\* No interleaving of leaders' reversals writes two reversals of one entry.
THEOREM ReversedAtMostOnce == Spec => []SingleReversal
  BY Inductive, PTL DEF IInv, LedgerInv

\* A reversal always lands in the rows of its entry and cancels its points.
THEOREM ReversalsAlwaysCancel == Spec => []ReversalCancels
  BY Inductive, PTL DEF IInv, LedgerInv

-----------------------------------------------------------------------------
(* Reversing refines AtMostOnce. *)

\* Nothing a step leaves alone can change a key's phase.
LEMMA PhaseStutter ==
  ASSUME Ledger' = Ledger, marked' = marked, \A i \in Ids : Reversing(i)' <=> Reversing(i)
  PROVE  ReversalPhase' = ReversalPhase
  BY DEF ReversalPhase, Reversed

\* A step that changes one key's phase by a permitted move is a step of AtMostOnce.
LEMMA OneMove ==
  ASSUME NEW k \in Ids, NEW to \in Reversals!Phases,
         <<ReversalPhase[k], to>> \in Reversals!Moves,
         ReversalPhase'[k] = to,
         \A i \in Ids \ {k} : ReversalPhase'[i] = ReversalPhase[i]
  PROVE  Reversals!Next
  <1>1. ReversalPhase' = [ReversalPhase EXCEPT ![k] = to]
    BY DEF ReversalPhase
  <1> QED
    BY <1>1 DEF Reversals!Next, Reversals!Move

\* A request that ends without writing frees its claim for good, if it had one.
LEMMA ReturnMoves ==
  ASSUME IInv, NEW c \in Callers, call[c].pc # "idle", Return(c),
         log' = log, marked' = marked
  PROVE  [Reversals!Next]_ReversalPhase
  <1> USE DEF IInv, LedgerInv
  <1>1. Ledger' = Ledger
    BY DEF Ledger
  <1>2. \A d \in Callers : call'[d] = IF d = c THEN NoCall ELSE call[d]
    BY DEF Return, TypeOK
  <1>3. CASE call[c].pc # "marked"
    <2>1. \A i \in Ids : Reversing(i)' <=> Reversing(i)
      BY <1>2, <1>3 DEF Reversing, NoCall
    <2> QED
      BY <1>1, <2>1, PhaseStutter
  <1>4. CASE call[c].pc = "marked"
    <2>0. PICK k \in Ids : k = call[c].target
      BY TargetType
    <2>1. k \in marked /\ ~ Reversed(k)
      BY <1>4, <2>0 DEF CallsConsistent, Reversed
    <2>2. Reversing(k) /\ ~ Reversing(k)'
      BY <1>2, <1>4, <2>0 DEF Reversing, CallsConsistent, NoCall
    <2>3. \A i \in Ids \ {k} : Reversing(i)' <=> Reversing(i)
      BY <1>2, <2>0 DEF Reversing, NoCall
    <2>4. ReversalPhase[k] = "claimed" /\ ReversalPhase'[k] = "lost"
      BY <1>1, <2>0, <2>1, <2>2 DEF ReversalPhase, Reversed
    <2>5. \A i \in Ids \ {k} : ReversalPhase'[i] = ReversalPhase[i]
      BY <1>1, <2>3 DEF ReversalPhase, Reversed
    <2> QED
      BY <2>4, <2>5, OneMove DEF Reversals!Phases, Reversals!Moves
  <1> QED
    BY <1>3, <1>4

LEMMA MarkMoves ==
  ASSUME IInv, NEW c \in Callers, ReverseMark(c)
  PROVE  [Reversals!Next]_ReversalPhase
  <1> USE DEF IInv, LedgerInv
  <1>1. log' = log /\ Ledger' = Ledger /\ call[c].pc = "unreversed"
    BY DEF ReverseMark, Ledger
  <1>0. PICK k \in Ids : k = call[c].target
    BY <1>1, TargetType
  <1>2. CASE k \in marked
    BY <1>0, <1>1, <1>2, ReturnMoves DEF ReverseMark
  <1>3. CASE k \notin marked
    <2>1. /\ marked' = marked \cup {k}
          /\ call' = [call EXCEPT ![c] = [@ EXCEPT !.pc = "marked"]]
      BY <1>0, <1>3 DEF ReverseMark
    <2>2. call[c] \in Call
      BY DEF TypeOK
    <2>3. call'[c].pc = "marked" /\ call'[c].target = k
      BY <1>0, <2>1, <2>2 DEF TypeOK, Call
    <2>4. \A d \in Callers : d # c => call'[d] = call[d]
      BY <2>1 DEF TypeOK
    <2>5. k # NoId
      BY IdAssumption
    <2>6. ~ Reversed(k) /\ ~ Reversed(k)'
      BY <1>1, <1>3, <2>5 DEF Reversed, ReversalsMarked
    <2>7. Reversing(k)'
      BY <2>3 DEF Reversing
    <2>8. \A i \in Ids \ {k} : Reversing(i)' <=> Reversing(i)
      BY <1>1, <2>3, <2>4 DEF Reversing
    <2>9. ReversalPhase[k] = "open" /\ ReversalPhase'[k] = "claimed"
      BY <1>3, <2>1, <2>5, <2>6, <2>7 DEF ReversalPhase
    <2>10. \A i \in Ids \ {k} : ReversalPhase'[i] = ReversalPhase[i]
      BY <1>1, <2>1, <2>8 DEF ReversalPhase, Reversed
    <2> QED
      BY <2>9, <2>10, OneMove DEF Reversals!Phases, Reversals!Moves
  <1> QED
    BY <1>2, <1>3

LEMMA WriteMoves ==
  ASSUME IInv, NEW c \in Callers, ReverseWrite(c)
  PROVE  [Reversals!Next]_ReversalPhase
  <1> USE DEF IInv, LedgerInv
  <1>0. PICK k \in Ids : k = call[c].target
    BY TargetType DEF ReverseWrite
  <1>1. PICK t \in Ledger, n \in Ids :
          /\ t.id = k
          /\ AppendLedger([id |-> n, member |-> t.member, group |-> t.group,
                           quarter |-> t.quarter, points |-> -t.points, reverses |-> t.id])
    BY <1>0 DEF ReverseWrite
  <1> DEFINE e == [id |-> n, member |-> t.member, group |-> t.group,
                   quarter |-> t.quarter, points |-> -t.points, reverses |-> t.id]
  <1>2. Ledger' = Ledger \cup {e}
    BY <1>1, NewEntryType, AppendKeepsShards
  <1>3. e.reverses = k
    BY <1>1
  <1> HIDE DEF e
  <1>4. /\ marked' = marked /\ call[c].pc = "marked"
        /\ \A d \in Callers : call'[d] = IF d = c THEN NoCall ELSE call[d]
    BY DEF ReverseWrite, Return, TypeOK
  <1>5. k \in marked /\ ~ Reversed(k) /\ Reversing(k)
    BY <1>0, <1>4 DEF CallsConsistent, Reversed, Reversing
  <1>6. \A i \in Ids \ {k} : (Reversing(i)' <=> Reversing(i)) /\ (Reversed(i)' <=> Reversed(i))
    BY <1>0, <1>2, <1>3, <1>4 DEF Reversing, Reversed, NoCall
  <1>7. Reversed(k)'
    BY <1>2, <1>3 DEF Reversed
  <1>8. ReversalPhase[k] = "claimed" /\ ReversalPhase'[k] = "done"
    BY <1>5, <1>7 DEF ReversalPhase
  <1>9. \A i \in Ids \ {k} : ReversalPhase'[i] = ReversalPhase[i]
    BY <1>4, <1>6 DEF ReversalPhase
  <1> QED
    BY <1>8, <1>9, OneMove DEF Reversals!Phases, Reversals!Moves

\* Reading and checking claim nothing.
LEMMA ReadMoves ==
  ASSUME IInv, NEW c \in Callers, Adjust(c) \/ ReverseRead(c) \/ ReverseCheck(c)
  PROVE  [Reversals!Next]_ReversalPhase
  <1> USE DEF IInv, LedgerInv
  <1>1. CASE Adjust(c)
    <2>1. PICK i \in Ids, m \in Members, g \in Scope[c], q \in Quarters, d \in Deltas :
             AppendLedger([id |-> i, member |-> m, group |-> g, quarter |-> q,
                           points |-> d, reverses |-> NoId])
      BY <1>1 DEF Adjust
    <2>2. Ledger' = Ledger \cup {[id |-> i, member |-> m, group |-> g, quarter |-> q,
                                  points |-> d, reverses |-> NoId]}
      BY <2>1, AdjustEntryType, AppendKeepsShards
    <2>3. \A k \in Ids : Reversed(k)' <=> Reversed(k)
      BY <2>2, IdAssumption DEF Reversed
    <2>4. marked' = marked /\ call' = call
      BY <1>1 DEF Adjust
    <2> QED
      BY <2>3, <2>4 DEF ReversalPhase, Reversing
  <1>2. CASE ReverseRead(c)
    <2>1. log' = log /\ marked' = marked /\ Ledger' = Ledger /\ call[c].pc = "idle"
      BY <1>2 DEF ReverseRead, Ledger
    <2>2. \A d \in Callers : IF d = c THEN call'[d].pc = "found" ELSE call'[d] = call[d]
      BY <1>2 DEF ReverseRead, TypeOK
    <2>3. \A i \in Ids : Reversing(i)' <=> Reversing(i)
      BY <2>1, <2>2 DEF Reversing
    <2> QED
      BY <2>1, <2>3, PhaseStutter
  <1>3. CASE ReverseCheck(c)
    <2>1. log' = log /\ marked' = marked /\ Ledger' = Ledger /\ call[c].pc = "found"
      BY <1>3 DEF ReverseCheck, Ledger
    <2>2. CASE call[c].target \in marked
      BY <1>3, <2>1, <2>2, ReturnMoves DEF ReverseCheck
    <2>3. CASE call[c].target \notin marked
      <3>1. call' = [call EXCEPT ![c] = [@ EXCEPT !.pc = "unreversed"]] /\ call[c] \in Call
        BY <1>3, <2>3 DEF ReverseCheck, TypeOK
      <3>2. call'[c].pc = "unreversed" /\ \A d \in Callers : d # c => call'[d] = call[d]
        BY <3>1 DEF TypeOK, Call
      <3>3. \A i \in Ids : Reversing(i)' <=> Reversing(i)
        BY <2>1, <3>2 DEF Reversing
      <3> QED
        BY <2>1, <3>3, PhaseStutter
    <2> QED
      BY <2>2, <2>3
  <1> QED
    BY <1>1, <1>2, <1>3

\* Reversing an entry is an at-most-once effect: the guard row is its claim, and
\* neither concurrent requests nor their deaths hand a claim back or reuse it.
THEOREM ReversalRefines == Spec => ReversalsOnce
  <1>1. Init => Reversals!Init
    BY DEF Init, Reversals!Init, ReversalPhase, Reversed, Ledger
  <1>2. IInv /\ [Next]_vars => [Reversals!Next]_ReversalPhase
    <2> SUFFICES ASSUME IInv, [Next]_vars PROVE [Reversals!Next]_ReversalPhase
      OBVIOUS
    <2>1. ASSUME NEW c \in Callers, ReverseRefuse(c) \/ ReverseDie(c)
          PROVE  [Reversals!Next]_ReversalPhase
      BY <2>1, ReturnMoves DEF ReverseRefuse, ReverseDie
    <2>2. ASSUME UNCHANGED api PROVE [Reversals!Next]_ReversalPhase
      <3>1. Ledger' = Ledger /\ marked' = marked /\ call' = call
        BY <2>2 DEF api, Ledger
      <3> QED
        BY <3>1, PhaseStutter DEF Reversing
    <2>3. ASSUME NEW m \in Members, Maintain(m) \/ Throttle(m) \/ Crash(m)
          PROVE  [Reversals!Next]_ReversalPhase
      BY <2>2, <2>3, MaintainerKeepsApi
    <2>4. CASE UNCHANGED vars
      BY <2>2, <2>4 DEF vars, api
    <2> QED
      BY <2>1, <2>3, <2>4, ReadMoves, MarkMoves, WriteMoves DEF Next, Request
  <1> QED
    BY Inductive, <1>1, <1>2, PTL DEF Spec, ReversalsOnce, Reversals!Spec
=============================================================================
