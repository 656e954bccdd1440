------------------------- MODULE SubmissionsProofs -------------------------
(***************************************************************************)
(* Theorems about Submissions for every set of members, groups, activities,*)
(* submissions, requests and consumers, and every number of moves, copies, *)
(* crashes and store errors.                                               *)
(***************************************************************************)
EXTENDS Submissions, TLAPS

-----------------------------------------------------------------------------
(* The inductive invariant. *)

Processes == Callers \cup Consumers
Steps == {"idle", "valid", "approved", "credited", "rejected", "deactivate", "delete",
          "sweep", "purge", "left"}
Calls == [pc : Steps, on : Subs \cup Activities \cup Leaves \cup {"nothing"},
          todo : SUBSET Subs]
Budgets == [move : 0..MaxMoves, copy : 0..MaxCopies, crash : 0..MaxCrashes,
            error : 0..MaxErrors]

\* What TypeOK leaves out: the records of the invocations, and what is left of the bounds.
Shape ==
  /\ TypeOK
  /\ call \in [Processes -> Calls]
  /\ budget \in Budgets
  /\ \A c \in Callers : call[c].pc # "left"
  /\ \A p \in Processes : call[p].todo # {} => call[p].pc \in {"sweep", "purge"}

\* A request that has checked a submission is the only one to put it, and it is new.
PutsAreNew ==
  \A c \in Callers : call[c].pc = "valid" =>
    /\ status[call[c].on] = "none"
    /\ \A d \in Callers \ {c} : ~ (call[d].pc = "valid" /\ call[d].on = call[c].on)

\* One request at most is between the approval of a submission and its entry.
OneApprover ==
  \A c \in Callers : call[c].pc = "approved" =>
    \A d \in Callers \ {c} : ~ (call[d].pc = "approved" /\ call[d].on = call[c].on)

\* What a request is about to announce has happened.
AboutToTell ==
  \A c \in Callers :
    /\ call[c].pc = "credited" => credited[call[c].on] = 1
    /\ call[c].pc = "rejected" => status[call[c].on] = "Rejected"

Decided == PutsAreNew /\ OneApprover /\ CreditedOnlyOnce
Told == AboutToTell /\ NoticesAreTrue

IInv == Shape /\ Decided /\ Told /\ ApprovedHasEntry

-----------------------------------------------------------------------------
LEMMA InitIInv == Init => IInv
  <1> SUFFICES ASSUME Init PROVE IInv
    OBVIOUS
  <1>1. Shape
    BY ClaimsAssumption, BoundAssumption
    DEF Init, Shape, TypeOK, Idle, Calls, Steps, Processes, Budgets, Status
  <1>2. Decided /\ Told /\ ApprovedHasEntry
    BY DEF Init, Idle, Decided, PutsAreNew, OneApprover, CreditedOnlyOnce, Approving,
           Told, AboutToTell, NoticesAreTrue, ApprovedHasEntry
  <1> QED
    BY <1>1, <1>2 DEF IInv

\* The record of the invocation p becomes the one it enters, the others are left alone.
LEMMA EnterStep ==
  ASSUME Shape, NEW p \in Processes, NEW pc \in Steps,
         NEW on \in Subs \cup Activities \cup Leaves \cup {"nothing"}, NEW todo \in SUBSET Subs,
         Enter(p, pc, on, todo)
  PROVE  /\ call' \in [Processes -> Calls]
         /\ call'[p].pc = pc /\ call'[p].on = on /\ call'[p].todo = todo
         /\ \A q \in Processes \ {p} : call'[q] = call[q]
  BY DEF Shape, Calls, Enter

\* An invocation that returns is idle.
LEMMA ReturnStep ==
  ASSUME Shape, NEW p \in Processes, Return(p)
  PROVE  /\ call' \in [Processes -> Calls]
         /\ call'[p].pc = "idle" /\ call'[p].todo = {}
         /\ \A q \in Processes \ {p} : call'[q] = call[q]
  BY DEF Shape, Calls, Return, Idle, Steps

\* A cascade goes on to the next submission.
LEMMA TickStep ==
  ASSUME Shape, NEW p \in Processes, NEW s \in Subs, Tick(p, s)
  PROVE  /\ call' \in [Processes -> Calls]
         /\ call'[p].pc = call[p].pc /\ call'[p].on = call[p].on
         /\ call'[p].todo = call[p].todo \ {s}
         /\ \A q \in Processes \ {p} : call'[q] = call[q]
  BY DEF Shape, Calls, Tick

LEMMA ShapeStep == Shape /\ [Next]_vars => Shape'
  <1> SUFFICES ASSUME Shape, [Next]_vars PROVE Shape'
    OBVIOUS
  <1> USE DEF Shape, TypeOK, submission, identity
  <1>a. /\ Callers \subseteq Processes /\ Consumers \subseteq Processes
        /\ \A c \in Callers : c \notin Consumers
    BY ProcessAssumption DEF Processes
  <1>1. ASSUME NEW s \in Subs, Withdraw(s) PROVE Shape'
    BY <1>1 DEF Withdraw, Transition, Status
  <1>2. ASSUME NEW c \in Callers, NEW s \in Subs,
               SubmitCheck(c, s) \/ Approve(c, s) \/ Reject(c, s)
        PROVE  Shape'
    <2>1. PICK pc \in {"valid", "approved", "rejected"} : Enter(c, pc, s, {})
      BY <1>2 DEF SubmitCheck, Approve, Reject
    <2>2. pc \in Steps
      BY DEF Steps
    <2> QED
      BY <1>2, <1>a, <2>1, <2>2, EnterStep
      DEF SubmitCheck, Approve, Reject, Transition, Status
  <1>3. ASSUME NEW c \in Callers, NEW a \in Activities, Deactivate(c, a) \/ Delete(c, a)
        PROVE  Shape'
    <2>1. PICK pc \in {"deactivate", "delete"} : Enter(c, pc, a, {})
      BY <1>3 DEF Deactivate, Delete
    <2>2. pc \in Steps
      BY DEF Steps
    <2> QED
      BY <1>3, <1>a, <2>1, <2>2, EnterStep DEF Deactivate, Delete
  <1>4. ASSUME NEW a \in Activities, Reactivate(a) PROVE Shape'
    BY <1>4 DEF Reactivate
  <1>5. ASSUME NEW c \in Callers, Request(c) PROVE Shape'
    <2>1. CASE SubmitPut(c)
      <3>1. call[c].on \in Subs
        BY <2>1 DEF SubmitPut
      <3>2. status' \in [Subs -> Status]
        BY <2>1, <3>1 DEF SubmitPut, Status
      <3> QED
        BY <1>a, <2>1, <3>2, ReturnStep DEF SubmitPut
    <2>2. CASE Credit(c)
      <3>1. CASE Return(c) /\ UNCHANGED credited
        BY <1>a, <2>2, <3>1, ReturnStep DEF Credit
      <3>2. CASE call' = [call EXCEPT ![c].pc = "credited"]
                   /\ credited' = [credited EXCEPT ![call[c].on] = @ + 1]
        <4>1. /\ call[c] \in Calls
              /\ [call[c] EXCEPT !.pc = "credited"]
                   = [pc |-> "credited", on |-> call[c].on, todo |-> call[c].todo]
          BY <1>a DEF Calls
        <4>2. Enter(c, "credited", call[c].on, call[c].todo)
          BY <3>2, <4>1 DEF Enter
        <4>3. /\ call[c].on \in Subs /\ call[c].todo = {}
              /\ "credited" \in Steps
          BY <1>a, <2>2 DEF Credit, Steps
        <4>4. /\ call' \in [Processes -> Calls]
              /\ call'[c].pc = "credited" /\ call'[c].on = call[c].on /\ call'[c].todo = {}
              /\ \A q \in Processes \ {c} : call'[q] = call[q]
          BY <1>a, <4>2, <4>3, EnterStep
        <4> QED
          BY <1>a, <2>2, <3>2, <4>3, <4>4 DEF Credit
      <3> QED
        BY <2>2, <3>1, <3>2 DEF Credit
    <2>3. CASE Notify(c)
      BY <1>a, <2>3, ReturnStep DEF Notify, Publish
    <2>4. CASE ListActivity(c)
      <3>1. PICK pc \in {"purge", "sweep"}, todo \in SUBSET Subs :
              Enter(c, pc, call[c].on, todo)
        BY <2>4 DEF ListActivity
      <3>2. pc \in Steps
        BY DEF Steps
      <3> QED
        BY <1>a, <2>4, <3>1, <3>2, EnterStep DEF ListActivity
    <2>5. CASE EndCascade(c)
      BY <1>a, <2>5, ReturnStep DEF EndCascade
    <2> QED
      BY <1>5, <2>1, <2>2, <2>3, <2>4, <2>5 DEF Request
  <1>6. ASSUME NEW p \in Processes, NEW s \in Subs, RejectNext(p, s) \/ SkipNext(p, s)
        PROVE  Shape'
    <2>1. Tick(p, s)
      BY <1>6 DEF RejectNext, SkipNext
    <2>2. budget' \in Budgets
      BY <1>6, BoundAssumption DEF RejectNext, SkipNext, Spend, Budgets
    <2> QED
      BY <1>6, <1>a, <2>1, <2>2, TickStep
      DEF RejectNext, SkipNext, Transition, Publish, Status
  <1>7. ASSUME NEW m \in Members, NEW g \in Groups, Join(m, g) \/ Leave(m, g) PROVE Shape'
    BY <1>7, BoundAssumption DEF Join, Leave, Leaves, Spend, Budgets
  <1>8. ASSUME NEW e \in idem, Redeliver(e) PROVE Shape'
    BY <1>8, BoundAssumption DEF Redeliver, Spend, Budgets
  <1>9. ASSUME NEW w \in Consumers, NEW e \in queue, Consume(w, e) PROVE Shape'
    <2>1. CASE UNCHANGED call
      BY <1>9, <2>1 DEF Consume
    <2>2. CASE Enter(w, "left", e, {})
      <3>1. e \in Leaves /\ "left" \in Steps
        BY DEF Steps
      <3>2. /\ call' \in [Processes -> Calls]
            /\ call'[w].pc = "left" /\ call'[w].on = e /\ call'[w].todo = {}
            /\ \A q \in Processes \ {w} : call'[q] = call[q]
        BY <1>a, <2>2, <3>1, EnterStep
      <3> QED
        BY <1>9, <1>a, <3>1, <3>2 DEF Consume
    <2> QED
      BY <1>9, <2>1, <2>2 DEF Consume
  <1>10. ASSUME NEW w \in Consumers, ListMember(w) \/ EndConsume(w) PROVE Shape'
    <2>1. CASE EndConsume(w)
      BY <1>a, <2>1, ReturnStep DEF EndConsume
    <2>2. CASE ListMember(w)
      <3>1. PICK todo \in SUBSET Subs : Enter(w, "sweep", call[w].on, todo)
        BY <2>2 DEF ListMember
      <3> QED
        BY <1>a, <2>2, <3>1, EnterStep DEF ListMember, Steps
    <2> QED
      BY <1>10, <2>1, <2>2
  <1>11. ASSUME NEW p \in Processes, Die(p) PROVE Shape'
    <2>1. budget' \in Budgets
      BY <1>11, BoundAssumption DEF Die, Spend, Budgets
    <2> QED
      BY <1>11, <1>a, <2>1, ReturnStep DEF Die
  <1>12. CASE UNCHANGED vars
    BY <1>12 DEF vars
  <1> QED
    BY <1>1, <1>2, <1>3, <1>4, <1>5, <1>6, <1>7, <1>8, <1>9, <1>10, <1>11, <1>12
    DEF Next, Work, Processes

-----------------------------------------------------------------------------
(* What most actions leave alone. *)

Deciding == {"valid", "approved", "credited", "rejected"}

SameCall(c) == call'[c].pc = call[c].pc /\ call'[c].on = call[c].on

\* No submission changes, no request takes one up, and one that is about to write
\* an entry only stops by dying.
Quiet ==
  /\ UNCHANGED submission
  /\ \A c \in Callers : call'[c].pc \in Deciding => SameCall(c)
  /\ \A c \in Callers : call[c].pc = "approved" => SameCall(c) \/ budget'.crash < MaxCrashes
  /\ \A a \in Activities : activity[a] = "deleted" => activity'[a] = "deleted"
  /\ budget'.crash <= budget.crash

\* The steps that are not quiet.
Decides(s) ==
  \/ Withdraw(s)
  \/ \E c \in Callers : SubmitCheck(c, s) \/ Approve(c, s) \/ Reject(c, s)
  \/ \E p \in Processes : RejectNext(p, s)
Goes(c) == SubmitPut(c) \/ Credit(c) \/ Notify(c)

LEMMA QuietStep ==
  Shape /\ [Next]_vars => Quiet \/ (\E s \in Subs : Decides(s)) \/ (\E c \in Callers : Goes(c))
  <1> SUFFICES ASSUME Shape, [Next]_vars,
                      ~ \E s \in Subs : Decides(s), ~ \E c \in Callers : Goes(c)
               PROVE  Quiet
    OBVIOUS
  <1> USE DEF Quiet, SameCall, submission, identity
  <1>a. /\ Callers \subseteq Processes /\ Consumers \subseteq Processes
        /\ \A c \in Callers : c \notin Consumers
        /\ activity \in [Activities -> {"active", "inactive", "deleted"}]
        /\ budget \in Budgets /\ budget.crash \in 0..MaxCrashes
    BY ProcessAssumption DEF Processes, Shape, TypeOK, Budgets
  <1>1. ASSUME NEW p \in Processes, NEW pc \in Steps \ Deciding,
               NEW on \in Subs \cup Activities \cup Leaves \cup {"nothing"}, NEW todo \in SUBSET Subs,
               Enter(p, pc, on, todo), call[p].pc # "approved",
               UNCHANGED <<submission, budget>>,
               \A a \in Activities : activity[a] = "deleted" => activity'[a] = "deleted"
        PROVE  Quiet
    <2>1. call'[p].pc = pc /\ \A d \in Callers \ {p} : call'[d] = call[d]
      BY <1>1, <1>a, EnterStep
    <2> QED
      BY <1>1, <1>a, <2>1, BoundAssumption DEF Deciding
  <1>2. ASSUME NEW c \in Callers, NEW a \in Activities, Deactivate(c, a) \/ Delete(c, a)
        PROVE  Quiet
    <2>1. PICK pc \in {"deactivate", "delete"} : Enter(c, pc, a, {})
      BY <1>2 DEF Deactivate, Delete
    <2>2. pc \in Steps \ Deciding
      BY DEF Steps, Deciding
    <2>3. \A b \in Activities : activity[b] = "deleted" => activity'[b] = "deleted"
      BY <1>2, <1>a DEF Deactivate, Delete
    <2> QED
      BY <1>1, <1>2, <1>a, <2>1, <2>2, <2>3 DEF Deactivate, Delete
  <1>3. ASSUME NEW c \in Callers, ListActivity(c) PROVE Quiet
    <2>1. PICK pc \in {"purge", "sweep"}, todo \in SUBSET Subs : Enter(c, pc, call[c].on, todo)
      BY <1>3 DEF ListActivity
    <2>2. pc \in Steps \ Deciding /\ call[c].on \in Activities
      BY <1>3 DEF Steps, Deciding, ListActivity, Shape, TypeOK
    <2> QED
      BY <1>1, <1>3, <1>a, <2>1, <2>2 DEF ListActivity
  <1>4. ASSUME NEW p \in Processes, Return(p), call[p].pc # "approved", UNCHANGED <<submission, budget>>,
               \A a \in Activities : activity[a] = "deleted" => activity'[a] = "deleted"
        PROVE  Quiet
    BY <1>4, <1>a, ReturnStep, BoundAssumption DEF Deciding
  <1>5. ASSUME NEW c \in Callers, EndCascade(c) PROVE Quiet
    BY <1>4, <1>5, <1>a DEF EndCascade
  <1>6. ASSUME NEW w \in Consumers, NEW e \in queue, Consume(w, e) PROVE Quiet
    <2>1. "left" \in Steps \ Deciding /\ e \in Leaves
      BY DEF Steps, Deciding, Shape, TypeOK
    <2>2. CASE UNCHANGED call
      BY <1>6, <1>a, <2>2, BoundAssumption DEF Consume
    <2>3. CASE Enter(w, "left", e, {})
      BY <1>1, <1>6, <1>a, <2>1, <2>3 DEF Consume
    <2> QED
      BY <1>6, <2>2, <2>3 DEF Consume
  <1>7. ASSUME NEW w \in Consumers, ListMember(w) \/ EndConsume(w) PROVE Quiet
    <2>1. CASE EndConsume(w)
      BY <1>4, <1>a, <2>1 DEF EndConsume
    <2>2. CASE ListMember(w)
      <3>1. PICK todo \in SUBSET Subs : Enter(w, "sweep", call[w].on, todo)
        BY <2>2 DEF ListMember
      <3>2. "sweep" \in Steps \ Deciding /\ call[w].on \in Leaves
        BY <2>2 DEF Steps, Deciding, ListMember, Shape, TypeOK
      <3> QED
        BY <1>1, <1>a, <2>2, <3>1, <3>2 DEF ListMember
    <2> QED
      BY <1>7, <2>1, <2>2
  <1>8. ASSUME NEW p \in Processes, NEW s \in Subs, SkipNext(p, s) PROVE Quiet
    <2>1. /\ call'[p].pc = call[p].pc /\ call'[p].on = call[p].on
          /\ \A d \in Callers \ {p} : call'[d] = call[d]
      BY <1>8, <1>a, TickStep DEF SkipNext
    <2>2. budget'.crash = budget.crash
      BY <1>8, <1>a DEF SkipNext, Spend, Budgets
    <2> QED
      BY <1>8, <1>a, <2>1, <2>2, BoundAssumption DEF SkipNext
  <1>9. ASSUME NEW p \in Processes, Die(p) PROVE Quiet
    <2>1. call'[p].pc = "idle" /\ \A d \in Callers \ {p} : call'[d] = call[d]
      BY <1>9, <1>a, ReturnStep DEF Die
    <2>2. budget'.crash = budget.crash - 1
      BY <1>9, <1>a DEF Die, Spend, Budgets
    <2> QED
      BY <1>9, <1>a, <2>1, <2>2, BoundAssumption DEF Die, Deciding
  <1>10. ASSUME UNCHANGED <<submission, call>>, budget'.crash = budget.crash,
                \A a \in Activities : activity[a] = "deleted" => activity'[a] = "deleted"
         PROVE  Quiet
    BY <1>10, <1>a, BoundAssumption
  <1>11. ASSUME \/ \E m \in Members, g \in Groups : Join(m, g) \/ Leave(m, g)
                \/ \E e \in idem : Redeliver(e)
         PROVE  Quiet
    <2>1. budget'.crash = budget.crash
      BY <1>11, <1>a DEF Join, Leave, Redeliver, Spend, Budgets
    <2> QED
      BY <1>10, <1>11, <2>1 DEF Join, Leave, Redeliver
  <1>12. ASSUME NEW a \in Activities, Reactivate(a) PROVE Quiet
    BY <1>10, <1>12, <1>a DEF Reactivate
  <1>13. CASE UNCHANGED vars
    BY <1>10, <1>13 DEF vars
  <1> QED
    BY <1>2, <1>3, <1>5, <1>6, <1>7, <1>8, <1>9, <1>11, <1>12, <1>13
    DEF Next, Request, Work, Processes, Decides, Goes

-----------------------------------------------------------------------------
(* The invariants under the steps that are not quiet. *)

\* The request c is at pc for s now, and the other requests are where they were.
Becomes(c, pc, s) ==
  call'[c].pc = pc /\ call'[c].on = s /\ \A d \in Callers \ {c} : SameCall(d)

\* What each of those steps does to the table of requests.
LEMMA CallSteps ==
  ASSUME Shape, NEW c \in Callers, NEW s \in Subs
  PROVE  /\ SubmitCheck(c, s) => Becomes(c, "valid", s)
         /\ Approve(c, s) => Becomes(c, "approved", s)
         /\ Reject(c, s) => Becomes(c, "rejected", s)
         /\ SubmitPut(c) \/ Notify(c) => Becomes(c, "idle", "nothing")
         /\ Credit(c) => \/ Becomes(c, "idle", "nothing") /\ UNCHANGED credited
                              /\ activity[For[call[c].on].activity] = "deleted"
                         \/ Becomes(c, "credited", call[c].on)
                              /\ credited' = [credited EXCEPT ![call[c].on] = @ + 1]
         /\ \A p \in Processes : RejectNext(p, s) => \A d \in Callers : SameCall(d)
  <1> USE DEF Becomes, SameCall
  <1>a. Callers \subseteq Processes /\ {"valid", "approved", "rejected"} \subseteq Steps
    BY DEF Processes, Steps
  <1>1. SubmitCheck(c, s) => Becomes(c, "valid", s)
    BY <1>a, EnterStep DEF SubmitCheck
  <1>2. Approve(c, s) => Becomes(c, "approved", s)
    BY <1>a, EnterStep DEF Approve
  <1>3. Reject(c, s) => Becomes(c, "rejected", s)
    BY <1>a, EnterStep DEF Reject
  <1>4. Return(c) => Becomes(c, "idle", "nothing")
    BY <1>a DEF Return, Idle, Shape, Calls
  <1>5. SubmitPut(c) \/ Notify(c) => Becomes(c, "idle", "nothing")
    BY <1>4 DEF SubmitPut, Notify
  <1>6. call' = [call EXCEPT ![c].pc = "credited"] => Becomes(c, "credited", call[c].on)
    BY <1>a DEF Shape, Calls
  <1>7. Credit(c) => \/ Becomes(c, "idle", "nothing") /\ UNCHANGED credited
                          /\ activity[For[call[c].on].activity] = "deleted"
                     \/ Becomes(c, "credited", call[c].on)
                          /\ credited' = [credited EXCEPT ![call[c].on] = @ + 1]
    BY <1>4, <1>6 DEF Credit
  <1>8. \A p \in Processes : RejectNext(p, s) => \A d \in Callers : SameCall(d)
    BY <1>a, TickStep DEF RejectNext
  <1> QED
    BY <1>1, <1>2, <1>3, <1>5, <1>7, <1>8

\* Where the requests are that the invariants speak of.
LEMMA CallersType ==
  Shape => /\ status \in [Subs -> Status] /\ credited \in [Subs -> Nat]
           /\ notices \in [Subs -> SUBSET {"approved", "rejected"}]
           /\ \A c \in Callers : call[c].pc \in Deciding => call[c].on \in Subs
  BY DEF Shape, TypeOK, Deciding

\* An entry is there, or about to be written, only for an approved submission.
LEMMA Counted ==
  ASSUME Shape, Decided, NEW s \in Subs
  PROVE  /\ Approving(s) => credited[s] = 0 /\ status[s] = "Approved"
         /\ status[s] # "Approved" => credited[s] = 0 /\ ~ Approving(s)
         /\ credited[s] \in {0, 1}
  <1>1. credited[s] \in Nat
    BY CallersType
  <1>2. credited[s] + (IF Approving(s) THEN 1 ELSE 0) <= (IF status[s] = "Approved" THEN 1 ELSE 0)
    BY DEF Decided, CreditedOnlyOnce
  <1> QED
    BY <1>1, <1>2

LEMMA DecidedStep == Shape /\ Decided /\ [Next]_vars => Decided'
  <1> SUFFICES ASSUME Shape, Decided, [Next]_vars PROVE Decided'
    OBVIOUS
  <1> USE CallSteps, CallersType
      DEF Decided, PutsAreNew, OneApprover, CreditedOnlyOnce, Approving, Becomes, SameCall, Deciding
  <1>1. CASE Quiet
    BY <1>1 DEF Quiet, submission
  <1>2. ASSUME NEW s \in Subs, NEW c \in Callers, SubmitCheck(c, s) PROVE Decided'
    BY <1>2 DEF SubmitCheck, submission
  <1>3. ASSUME NEW s \in Subs, NEW c \in Callers, Approve(c, s) PROVE Decided'
    <2>1. credited[s] = 0 /\ ~ Approving(s)
      BY <1>3 DEF Approve, Transition
    <2>2. /\ status[s] = "Pending" /\ status' = [status EXCEPT ![s] = "Approved"]
          /\ Becomes(c, "approved", s) /\ UNCHANGED credited
      BY <1>3 DEF Approve, Transition
    <2>3. PutsAreNew'
      BY <2>2
    <2>4. OneApprover'
      BY <2>1, <2>2
    <2>5. CreditedOnlyOnce'
      BY <2>1, <2>2
    <2> QED
      BY <2>3, <2>4, <2>5
  <1>4. ASSUME NEW s \in Subs, NEW c \in Callers, Reject(c, s) PROVE Decided'
    <2>1. /\ status[s] = "Pending" /\ status' = [status EXCEPT ![s] = "Rejected"]
          /\ Becomes(c, "rejected", s) /\ UNCHANGED credited
      BY <1>4 DEF Reject, Transition
    <2>2. PutsAreNew'
      BY <2>1
    <2>3. OneApprover'
      BY <2>1
    <2>4. CreditedOnlyOnce'
      BY <2>1
    <2> QED
      BY <2>2, <2>3, <2>4
  <1>5. ASSUME NEW s \in Subs, NEW p \in Processes, RejectNext(p, s) PROVE Decided'
    BY <1>5 DEF RejectNext, Transition
  <1>6. ASSUME NEW s \in Subs, Withdraw(s) PROVE Decided'
    BY <1>6 DEF Withdraw, Transition
  <1>7. ASSUME NEW c \in Callers, SubmitPut(c) PROVE Decided'
    <2> DEFINE s == call[c].on
    <2>1. /\ s \in Subs /\ status[s] = "none" /\ credited[s] = 0 /\ ~ Approving(s)
          /\ status' = [status EXCEPT ![s] = "Pending"]
          /\ Becomes(c, "idle", "nothing") /\ UNCHANGED credited
          /\ \A d \in Callers \ {c} : ~ (call[d].pc = "valid" /\ call[d].on = s)
      <3>1. s \in Subs
        BY <1>7 DEF SubmitPut
      <3>2. status[s] = "none"
        BY <1>7 DEF SubmitPut
      <3>3. credited[s] = 0 /\ ~ Approving(s)
        BY <3>1, <3>2, Counted
      <3>4. \A d \in Callers \ {c} : ~ (call[d].pc = "valid" /\ call[d].on = s)
        BY <1>7 DEF SubmitPut
      <3>5. /\ status' = [status EXCEPT ![s] = "Pending"]
            /\ Becomes(c, "idle", "nothing") /\ UNCHANGED credited
        BY <1>7, <3>1 DEF SubmitPut
      <3> QED
        BY <3>1, <3>2, <3>3, <3>4, <3>5
    <2> HIDE DEF s
    <2>2. PutsAreNew'
      BY <2>1
    <2>3. OneApprover'
      BY <2>1
    <2>4. CreditedOnlyOnce'
      BY <2>1
    <2> QED
      BY <2>2, <2>3, <2>4
  <1>8. ASSUME NEW c \in Callers, Credit(c) PROVE Decided'
    <2> DEFINE s == call[c].on
    <2>1. s \in Subs /\ Approving(s) /\ credited[s] = 0 /\ status[s] = "Approved"
      <3>1. s \in Subs /\ Approving(s)
        BY <1>8 DEF Credit
      <3> QED
        BY <3>1, Counted
    <2>2. UNCHANGED status
      BY <1>8 DEF Credit
    <2>3. CASE Becomes(c, "idle", "nothing") /\ UNCHANGED credited
      BY <2>2, <2>3
    <2>4. CASE Becomes(c, "credited", s) /\ credited' = [credited EXCEPT ![s] = @ + 1]
      <3>1. \A d \in Callers : ~ (call'[d].pc = "approved" /\ call'[d].on = s)
        BY <1>8, <2>4 DEF Credit
      <3> QED
        BY <2>1, <2>2, <2>4, <3>1
    <2> QED
      BY <1>8, <2>1, <2>3, <2>4
  <1>9. ASSUME NEW c \in Callers, Notify(c) PROVE Decided'
    BY <1>9 DEF Notify
  <1> QED
    BY <1>1, <1>2, <1>3, <1>4, <1>5, <1>6, <1>7, <1>8, <1>9, QuietStep DEF Decides, Goes

\* A decided submission stays decided.
LEMMA Stands ==
  ASSUME Shape, Decided, [Next]_vars, NEW s \in Subs,
         status[s] \in {"Approved", "Rejected", "Withdrawn"}
  PROVE  status'[s] = status[s]
  <1> USE CallersType DEF Deciding
  <1>1. CASE Quiet
    BY <1>1 DEF Quiet, submission
  <1>2. ASSUME NEW r \in Subs, Decides(r) PROVE status'[s] = status[s]
    BY <1>2 DEF Decides, Withdraw, SubmitCheck, Approve, Reject, RejectNext, Transition, submission
  <1>3. ASSUME NEW c \in Callers, Goes(c) PROVE status'[s] = status[s]
    BY <1>3 DEF Goes, SubmitPut, Credit, Notify, Decided, PutsAreNew
  <1> QED
    BY <1>1, <1>2, <1>3, QuietStep

LEMMA ToldStep == Shape /\ Decided /\ Told /\ [Next]_vars => Told'
  <1> SUFFICES ASSUME Shape, Decided, Told, [Next]_vars PROVE Told'
    OBVIOUS
  <1> USE CallSteps, CallersType
      DEF Told, AboutToTell, NoticesAreTrue, Becomes, SameCall, Deciding
  <1>1. CASE Quiet
    BY <1>1 DEF Quiet, submission
  \* Whatever became of a submission stays.
  <1>2. ASSUME NEW s \in Subs
        PROVE  status[s] = "Rejected" => status'[s] = "Rejected"
    BY Stands
  <1>3. ASSUME UNCHANGED <<credited, notices>>,
               \A c \in Callers : call'[c].pc \in {"credited", "rejected"} => SameCall(c)
        PROVE  Told'
    BY <1>2, <1>3
  <1>4. ASSUME NEW s \in Subs, NEW c \in Callers, SubmitCheck(c, s) \/ Approve(c, s) PROVE Told'
    BY <1>3, <1>4 DEF SubmitCheck, Approve, submission
  <1>5. ASSUME NEW s \in Subs, NEW c \in Callers, Reject(c, s) PROVE Told'
    <2>1. /\ status' = [status EXCEPT ![s] = "Rejected"] /\ UNCHANGED <<credited, notices>>
          /\ Becomes(c, "rejected", s)
      BY <1>5 DEF Reject, Transition
    <2> QED
      BY <1>2, <2>1
  <1>6. ASSUME NEW s \in Subs, NEW p \in Processes, RejectNext(p, s) PROVE Told'
    <2>1. CASE UNCHANGED <<status, notices>>
      BY <1>3, <1>6, <2>1 DEF RejectNext
    <2>2. CASE Transition(s, "Rejected") /\ Publish(s, "rejected")
      <3>1. /\ status' = [status EXCEPT ![s] = "Rejected"] /\ UNCHANGED credited
            /\ notices' = [notices EXCEPT ![s] = @ \cup {"rejected"}]
            /\ \A d \in Callers : SameCall(d)
        BY <1>6, <2>2 DEF RejectNext, Transition, Publish
      <3> QED
        BY <1>2, <3>1
    <2> QED
      BY <1>6, <2>1, <2>2 DEF RejectNext
  <1>7. ASSUME NEW s \in Subs, Withdraw(s) PROVE Told'
    BY <1>3, <1>7 DEF Withdraw
  <1>8. ASSUME NEW c \in Callers, SubmitPut(c) PROVE Told'
    BY <1>3, <1>8 DEF SubmitPut
  <1>9. ASSUME NEW c \in Callers, Credit(c) PROVE Told'
    <2> DEFINE s == call[c].on
    <2>1. s \in Subs /\ credited[s] = 0 /\ UNCHANGED <<status, notices>>
      <3>1. s \in Subs /\ Approving(s)
        BY <1>9 DEF Credit, Approving
      <3> QED
        BY <1>9, <3>1, Counted DEF Credit
    <2>2. CASE Becomes(c, "idle", "nothing") /\ UNCHANGED credited
      BY <1>3, <2>1, <2>2
    <2>3. CASE Becomes(c, "credited", s) /\ credited' = [credited EXCEPT ![s] = @ + 1]
      <3> HIDE DEF s
      <3> QED
        BY <2>1, <2>3
    <2> QED
      BY <1>9, <2>1, <2>2, <2>3
  <1>10. ASSUME NEW c \in Callers, Notify(c) PROVE Told'
    <2> DEFINE s == call[c].on
    <2>1. /\ s \in Subs /\ UNCHANGED <<status, credited>> /\ Becomes(c, "idle", "nothing")
          /\ \/ credited[s] = 1 /\ notices' = [notices EXCEPT ![s] = @ \cup {"approved"}]
             \/ status[s] = "Rejected" /\ notices' = [notices EXCEPT ![s] = @ \cup {"rejected"}]
      BY <1>10 DEF Notify, Publish
    <2> HIDE DEF s
    <2> QED
      BY <2>1
  <1> QED
    BY <1>1, <1>4, <1>5, <1>6, <1>7, <1>8, <1>9, <1>10, QuietStep DEF Decides, Goes

\* The entry of an approval is written unless the request died or the activity went.
LEMMA EntryStep ==
  Shape /\ Decided /\ ApprovedHasEntry /\ [Next]_vars => ApprovedHasEntry'
  <1> SUFFICES ASSUME Shape, Decided, ApprovedHasEntry, [Next]_vars, NEW s \in Subs,
                      status'[s] = "Approved"
               PROVE  \/ credited'[s] = 1 \/ Approving(s)'
                      \/ activity'[For[s].activity] = "deleted" \/ budget'.crash < MaxCrashes
    BY DEF ApprovedHasEntry
  <1> USE CallSteps, CallersType, ForAssumption DEF Becomes, SameCall, Deciding, Approving
  <1>0. For[s].activity \in Activities
    BY DEF Shape
  \* What has been written, and what excuses that it has not, stays.
  <1>1. ASSUME status[s] = "Approved", ~ Approving(s),
               credited'[s] = credited[s],
               \A a \in Activities : activity[a] = "deleted" => activity'[a] = "deleted",
               budget.crash < MaxCrashes => budget'.crash < MaxCrashes
        PROVE  credited'[s] = 1 \/ activity'[For[s].activity] = "deleted"
                 \/ budget'.crash < MaxCrashes
    BY <1>0, <1>1 DEF ApprovedHasEntry
  <1>2. CASE Quiet
    <2>1. status[s] = "Approved" /\ UNCHANGED credited
      BY <1>2 DEF Quiet, submission
    <2>2. budget.crash < MaxCrashes => budget'.crash < MaxCrashes
      <3>1. budget.crash \in Int /\ budget'.crash \in Int /\ MaxCrashes \in Int
        BY ShapeStep, BoundAssumption DEF Shape, Budgets
      <3> QED
        BY <1>2, <3>1 DEF Quiet
    <2>3. Approving(s) => Approving(s)' \/ budget'.crash < MaxCrashes
      BY <1>2 DEF Quiet
    <2> QED
      BY <1>1, <1>2, <2>1, <2>2, <2>3 DEF Quiet
  \* Every other step leaves the activities and the bounds alone.
  <1>3. ASSUME status[s] = "Approved", UNCHANGED <<credited, activity, budget>>,
               \A c \in Callers : call[c].pc = "approved" => SameCall(c)
        PROVE  \/ credited'[s] = 1 \/ Approving(s)'
               \/ activity'[For[s].activity] = "deleted" \/ budget'.crash < MaxCrashes
    BY <1>1, <1>3
  <1>4. ASSUME NEW r \in Subs, NEW c \in Callers, SubmitCheck(c, r) \/ Reject(c, r)
        PROVE  \/ credited'[s] = 1 \/ Approving(s)'
               \/ activity'[For[s].activity] = "deleted" \/ budget'.crash < MaxCrashes
    <2>1. status[s] = "Approved" /\ UNCHANGED <<credited, activity, budget>>
      BY <1>4 DEF SubmitCheck, Reject, Transition, submission
    <2>2. \A d \in Callers : call[d].pc = "approved" => SameCall(d)
      BY <1>4 DEF SubmitCheck, Reject
    <2> QED
      BY <1>3, <2>1, <2>2
  <1>5. ASSUME NEW r \in Subs, NEW c \in Callers, Approve(c, r)
        PROVE  \/ credited'[s] = 1 \/ Approving(s)'
               \/ activity'[For[s].activity] = "deleted" \/ budget'.crash < MaxCrashes
    <2>1. /\ s = r \/ status[s] = "Approved"
          /\ UNCHANGED <<credited, activity, budget>>
          /\ call[c].pc = "idle"
      BY <1>5 DEF Approve, Transition
    <2>2. CASE s = r
      BY <1>5, <2>2
    <2>3. CASE s # r
      BY <1>3, <1>5, <2>1, <2>3
    <2> QED
      BY <2>2, <2>3
  <1>6. ASSUME NEW r \in Subs,
               Withdraw(r) \/ \E p \in Processes : RejectNext(p, r)
        PROVE  \/ credited'[s] = 1 \/ Approving(s)'
               \/ activity'[For[s].activity] = "deleted" \/ budget'.crash < MaxCrashes
    <2>1. status[s] = "Approved" /\ UNCHANGED <<credited, activity, budget>>
      BY <1>6 DEF Withdraw, RejectNext, Transition
    <2>2. \A d \in Callers : SameCall(d)
      BY <1>6 DEF Withdraw
    <2> QED
      BY <1>3, <2>1, <2>2
  <1>7. ASSUME NEW c \in Callers, SubmitPut(c) \/ Notify(c)
        PROVE  \/ credited'[s] = 1 \/ Approving(s)'
               \/ activity'[For[s].activity] = "deleted" \/ budget'.crash < MaxCrashes
    <2>1. status[s] = "Approved" /\ UNCHANGED <<credited, activity, budget>>
      BY <1>7 DEF SubmitPut, Notify
    <2>2. \A d \in Callers : call[d].pc = "approved" => SameCall(d)
      BY <1>7 DEF SubmitPut, Notify
    <2> QED
      BY <1>3, <2>1, <2>2
  <1>8. ASSUME NEW c \in Callers, Credit(c)
        PROVE  \/ credited'[s] = 1 \/ Approving(s)'
               \/ activity'[For[s].activity] = "deleted" \/ budget'.crash < MaxCrashes
    <2>1. /\ status[s] = "Approved" /\ UNCHANGED <<activity, budget>>
          /\ call[c].pc = "approved" /\ call[c].on \in Subs
          /\ \A d \in Callers \ {c} : SameCall(d)
      BY <1>8 DEF Credit
    <2>2. CASE call[c].on = s
      <3>1. credited[s] = 0
        BY <2>1, <2>2, Counted
      <3> QED
        BY <1>8, <2>1, <2>2, <3>1
    <2>3. CASE call[c].on # s
      <3>1. credited'[s] = credited[s]
        BY <1>8, <2>1, <2>3
      <3>2. Approving(s) => Approving(s)'
        BY <2>1, <2>3
      <3> QED
        BY <1>1, <2>1, <3>1, <3>2
    <2> QED
      BY <2>2, <2>3
  <1> QED
    BY <1>2, <1>4, <1>5, <1>6, <1>7, <1>8, QuietStep DEF Decides, Goes

-----------------------------------------------------------------------------
THEOREM Inductive == Spec => []IInv
  <1>1. IInv /\ [Next]_vars => IInv'
    BY ShapeStep, DecidedStep, ToldStep, EntryStep DEF IInv
  <1> QED
    BY InitIInv, <1>1, PTL DEF Spec

\* The rows and the requests in flight keep their types.
THEOREM TypeCorrect == Spec => []TypeOK
  BY Inductive, PTL DEF IInv, Shape

\* Whatever leaders, cascades and members do to a submission at the same time, it is
\* credited at most once and only when approved, and an approval gets its entry unless
\* the request dies or the activity is deleted in between (transition_submission, approve).
THEOREM CreditAlwaysFollows == Spec => []CreditFollowsApproval
  BY Inductive, PTL DEF IInv, Decided, CreditFollowsApproval

\* What is announced of a submission is what became of it (_notify_decision).
THEOREM NoticesAlwaysTrue == Spec => []NoticesAreTrue
  BY Inductive, PTL DEF IInv, Told

\* No step of anybody takes a decision back (409 on race).
THEOREM DecisionsAlwaysStand == Spec => DecisionStands
  <1>1. IInv /\ [Next]_vars =>
          [\A s \in Subs : status[s] \in {"Approved", "Rejected", "Withdrawn"}
                             => status'[s] = status[s]]_vars
    BY Stands DEF IInv
  <1> QED
    BY Inductive, <1>1, PTL DEF Spec, DecisionStands
=============================================================================
