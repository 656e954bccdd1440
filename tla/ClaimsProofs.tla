---------------------------- MODULE ClaimsProofs ----------------------------
(***************************************************************************)
(* Proofs about certification claims, for any certifications, members,     *)
(* files, claims and invocations: slots and counters agree with the        *)
(* claims, nothing is granted on a file that is not clean, evidence        *)
(* converges whichever of verdict and submission comes first, and every    *)
(* notice is true and sent once.                                           *)
(***************************************************************************)
EXTENDS Claims, FiniteSetTheorems, TLAPS

Granted == {"Approved", "Revoked", "Expired"}
Statuses == Live \cup {"none", "Rejected", "Withdrawn", "Revoked", "Expired"}
Scans == {"None", "PendingScan", "Clean", "Quarantined"}
ClaimRow == [status : Statuses, scan : Scans, noticed : BOOLEAN]
SlotRow == [claim : Claims \cup {NoClaim}, approved : BOOLEAN]
FileRow == [verdict : Scans \ {"None"}, owner : Claims \cup {NoClaim}, seen : BOOLEAN]
OnClaim == {"create", "link", "reconcile", "pointer", "stamp", "review", "tell"}
OnFile == {"judged", "owner"}
Listed == [claim : Claims, what : {"scan", "expire", "notice"}]
Invocation == [pc : OnClaim \cup OnFile \cup {"idle"}, on : Claims \cup {NoClaim},
               arg : {"none"} \cup Scans \cup Events \cup Files, todo : SUBSET Listed]

\* What an invocation works on.
Aimed(p) ==
  /\ proc[p].pc \in OnClaim => proc[p].on \in Claims
  /\ proc[p].pc \in OnFile => proc[p].arg \in Files
  /\ proc[p].pc = "create" => proc[p].arg \in Scans
  /\ proc[p].pc = "tell" => proc[p].arg \in Events
  /\ proc[p].pc \in {"link", "pointer", "stamp"} => For[proc[p].on].file # NoFile

Types ==
  /\ claim \in [Claims -> ClaimRow]
  /\ window \in [Claims -> {"none", "SCANWATCH", "EXPIRY"}]
  /\ slot \in [Certs \X Members -> SlotRow]
  /\ held \in [Certs -> Int]
  /\ file \in [Files -> FileRow]
  /\ told \in [Claims -> [Events -> Nat]]
  /\ proc \in [Procs -> Invocation]
  /\ crashes \in Nat
  /\ \A p \in Procs : Aimed(p)

\* Only evidence is scanned: a claim by link has no scan status but "None".
Scanned ==
  \A k \in Claims :
    /\ claim[k].scan # "None" =>
         For[k].file # NoFile /\ claim[k].scan \in {"PendingScan", Verdict(k)}
    /\ claim[k].status # "none" /\ For[k].file # NoFile => claim[k].scan # "None"
    /\ claim[k].status \in Granted => claim[k].scan \in {"None", "Clean"}

-----------------------------------------------------------------------------
(* What the helpers do to the invocations. *)

Alone(p) == \A q \in Procs : q # p => proc'[q] = proc[q]

LEMMA ForTyped ==
  ASSUME NEW k \in Claims
  PROVE  /\ SlotOf(k) \in Certs \X Members /\ For[k].cert \in Certs
         /\ For[k].file \in Files \cup {NoFile} /\ For[k].expires \in Nat
         /\ For[k].file # NoFile => For[k].file \in Files
BY ForAssumption DEF ForAssumption, SlotOf

LEMMA IdleTyped == Idle \in Invocation /\ Idle.pc = "idle" /\ Idle.on = NoClaim
BY DEF Idle, Invocation

LEMMA GotoStep ==
  ASSUME Types, NEW p \in Procs, NEW pc \in OnClaim \cup OnFile \cup {"idle"},
         NEW k \in Claims \cup {NoClaim}, Goto(p, pc, k)
  PROVE  /\ proc' \in [Procs -> Invocation] /\ Alone(p)
         /\ proc'[p].pc = pc /\ proc'[p].on = k
         /\ proc'[p].arg = proc[p].arg /\ proc'[p].todo = proc[p].todo
<1>1. proc[p] \in Invocation /\ proc \in [Procs -> Invocation]  BY DEF Types
<1>2. proc' = [proc EXCEPT ![p].pc = pc, ![p].on = k]  BY DEF Goto
<1> HIDE DEF OnClaim, OnFile
<1>3. QED BY <1>1, <1>2 DEF Invocation, Alone

LEMMA DoneStep ==
  ASSUME Types, NEW p \in Procs, Done(p)
  PROVE  /\ proc' \in [Procs -> Invocation] /\ Alone(p)
         /\ proc'[p].pc = "idle" /\ proc'[p].on = NoClaim /\ proc'[p].todo = proc[p].todo
<1>1. proc[p] \in Invocation /\ proc \in [Procs -> Invocation]  BY DEF Types
<1>2. [Idle EXCEPT !.todo = proc[p].todo] \in Invocation  BY <1>1 DEF Idle, Invocation
<1>3. QED BY <1>1, <1>2 DEF Done, Alone, Idle

LEMMA TellStep ==
  ASSUME Types, NEW p \in Procs, NEW k \in Claims, NEW e \in Events, Tell(p, k, e)
  PROVE  /\ proc' \in [Procs -> Invocation] /\ Alone(p)
         /\ proc'[p].pc = "tell" /\ proc'[p].on = k /\ proc'[p].arg = e
<1>1. proc[p] \in Invocation /\ proc \in [Procs -> Invocation]  BY DEF Types
<1>2. proc' = [proc EXCEPT ![p].pc = "tell", ![p].on = k, ![p].arg = e]  BY DEF Tell
<1>3. QED BY <1>1, <1>2 DEF Invocation, Alone, OnClaim

LEMMA TakeStep ==
  ASSUME Types, NEW p \in Procs, NEW k \in Claims, NEW w \in {"scan", "expire", "notice"},
         NEW pc \in {"reconcile", "tell"}, NEW a \in {"none"} \cup Events,
         Take(p, Row(k, w), pc, a)
  PROVE  /\ proc' \in [Procs -> Invocation] /\ Alone(p)
         /\ proc'[p].pc = pc /\ proc'[p].on = k /\ proc'[p].arg = a
<1>1. proc[p] \in Invocation /\ proc \in [Procs -> Invocation]  BY DEF Types
<1>2. Row(k, w).claim = k  BY DEF Row
<1>3. [pc |-> pc, on |-> k, arg |-> a, todo |-> proc[p].todo \ {Row(k, w)}] \in Invocation
  BY <1>1 DEF Invocation, OnClaim
<1>4. QED BY <1>1, <1>2, <1>3 DEF Take, Alone

LEMMA DropStep ==
  ASSUME Types, NEW p \in Procs, NEW row, Drop(p, row)
  PROVE  /\ proc' \in [Procs -> Invocation] /\ Alone(p)
         /\ proc'[p].pc = proc[p].pc /\ proc'[p].on = proc[p].on /\ proc'[p].arg = proc[p].arg
<1>1. proc[p] \in Invocation /\ proc \in [Procs -> Invocation]  BY DEF Types
<1>2. proc' = [proc EXCEPT ![p].todo = proc[p].todo \ {row}]  BY DEF Drop
<1>3. QED BY <1>1, <1>2 DEF Invocation, Alone

\* An invocation that begins with a row of its own.
LEMMA BeginStep ==
  ASSUME Types, NEW p \in Procs, NEW r \in Invocation, proc' = [proc EXCEPT ![p] = r]
  PROVE  proc' \in [Procs -> Invocation] /\ Alone(p) /\ proc'[p] = r
BY DEF Types, Alone

-----------------------------------------------------------------------------
(* Types. *)

\* The steps, without the service they belong to.
Simple ==
  \/ \E p \in Callers :
       \/ \E k \in Claims : SubmitCheck(p, k) \/ Review(p, k) \/ Revoke(p, k)
       \/ SubmitCreate(p) \/ SubmitLink(p) \/ Approve(p) \/ Reject(p) \/ Conflict(p)
  \/ \E p \in Consumers :
       \/ \E f \in Files : ScanRead(p, f)
       \/ \E k \in Claims : SystemReject(p, k)
       \/ ScanVerdict(p) \/ ScanOwner(p)
  \/ \E p \in Procs :
       \/ ReadClaim(p) \/ ReadPointer(p) \/ Stamp(p) \/ Publish(p) \/ Die(p)
       \/ WatchList(p) \/ SweepList(p)
       \/ \E k \in Claims : Watch(p, k) \/ Expire(p, k) \/ Notice(p, k)
  \/ \E k \in Claims : Withdraw(k)
  \/ Tick

LEMMA EveryStepIsSimple == Next => Simple
BY DEF Next, Request, Reconcile, Consume, Guard, Sweep, Simple, Procs

LEMMA InitTypes == Init => Types
<1> SUFFICES ASSUME Init PROVE Types  OBVIOUS
<1>1. claim \in [Claims -> ClaimRow]
  BY DEF Init, ClaimRow, Statuses, Scans
<1>2. slot \in [Certs \X Members -> SlotRow]  BY DEF Init, SlotRow
<1>3. file \in [Files -> FileRow]  BY DEF Init, FileRow, Scans
<1>4. proc \in [Procs -> Invocation] /\ \A p \in Procs : proc[p].pc = "idle"
  BY IdleTyped DEF Init
<1>5. \A p \in Procs : Aimed(p)  BY <1>4 DEF Aimed, OnClaim, OnFile
<1>6. told \in [Claims -> [Events -> Nat]] /\ held \in [Certs -> Int] /\ crashes \in Nat
      /\ window \in [Claims -> {"none", "SCANWATCH", "EXPIRY"}]
  BY DEF Init
<1>7. QED BY <1>1, <1>2, <1>3, <1>4, <1>5, <1>6 DEF Types

LEMMA ToApprovedTypes ==
  ASSUME Types, NEW k \in Claims, ToApproved(k)
  PROVE  /\ claim' \in [Claims -> ClaimRow] /\ held' \in [Certs -> Int]
         /\ window' \in [Claims -> {"none", "SCANWATCH", "EXPIRY"}]
         /\ slot' \in [Certs \X Members -> SlotRow]
<1>1. claim' \in [Claims -> ClaimRow]  BY DEF ToApproved, Types, ClaimRow, Statuses, Live
<1>2. held' \in [Certs -> Int]  BY ForTyped DEF ToApproved, Types
<1>3. window' \in [Claims -> {"none", "SCANWATCH", "EXPIRY"}]  BY DEF ToApproved, Types
<1>4. slot' \in [Certs \X Members -> SlotRow]  BY ForTyped DEF ToApproved, Types, SlotRow
<1>5. QED BY <1>1, <1>2, <1>3, <1>4

LEMMA ToTerminalTypes ==
  ASSUME Types, NEW k \in Claims, NEW old, NEW new \in Statuses, ToTerminal(k, old, new)
  PROVE  /\ claim' \in [Claims -> ClaimRow] /\ held' \in [Certs -> Int]
         /\ window' \in [Claims -> {"none", "SCANWATCH", "EXPIRY"}]
         /\ slot' \in [Certs \X Members -> SlotRow]
<1>1. claim' \in [Claims -> ClaimRow]  BY DEF ToTerminal, Types, ClaimRow
<1>2. held' \in [Certs -> Int]  BY ForTyped DEF ToTerminal, Types
<1>3. window' \in [Claims -> {"none", "SCANWATCH", "EXPIRY"}]  BY DEF ToTerminal, Types
<1>4. [claim |-> NoClaim, approved |-> FALSE] \in SlotRow  BY DEF SlotRow
<1>5. slot' \in [Certs \X Members -> SlotRow]  BY <1>4, ForTyped DEF ToTerminal, Types
<1>6. QED BY <1>1, <1>2, <1>3, <1>5

LEMMA ToTerminalEffect ==
  ASSUME Types, NEW k \in Claims, NEW old, NEW new \in Statuses, ToTerminal(k, old, new)
  PROVE  /\ claim[k].status = old /\ claim'[k].status = new
         /\ claim'[k].scan = claim[k].scan /\ claim'[k].noticed = claim[k].noticed
         /\ \A i \in Claims : i # k => claim'[i] = claim[i]
<1>1. claim' = [claim EXCEPT ![k].status = new] /\ claim[k].status = old  BY DEF ToTerminal
<1>2. claim[k] \in ClaimRow  BY DEF Types
<1>3. QED BY <1>1, <1>2 DEF Types, ClaimRow

LEMMA AimedStays ==
  ASSUME Types, NEW p \in Procs, Alone(p), Aimed(p)'
  PROVE  \A q \in Procs : Aimed(q)'
BY DEF Alone, Aimed, Types

LEMMA StepTypes == ASSUME Types, Scanned, Simple PROVE Types'
<1> DEFINE RowTypes == /\ claim' \in [Claims -> ClaimRow] /\ held' \in [Certs -> Int]
                       /\ window' \in [Claims -> {"none", "SCANWATCH", "EXPIRY"}]
                       /\ slot' \in [Certs \X Members -> SlotRow]
\* It is enough that the rows are typed and the invocation that moves is aimed.
<1>0. ASSUME NEW p \in Procs, RowTypes, proc' \in [Procs -> Invocation], Alone(p), Aimed(p)',
             file' \in [Files -> FileRow], told' \in [Claims -> [Events -> Nat]], crashes' \in Nat
      PROVE  Types'
  BY <1>0, AimedStays DEF Types
<1>a. ASSUME UNCHANGED rows PROVE RowTypes  BY <1>a DEF rows, Types
<1>b. ASSUME UNCHANGED <<file, told, crashes>>
      PROVE  file' \in [Files -> FileRow] /\ told' \in [Claims -> [Events -> Nat]] /\ crashes' \in Nat
  BY <1>b DEF Types
<1>c. Callers \subseteq Procs /\ Consumers \subseteq Procs  BY DEF Procs
<1>d. \A p \in Procs : proc[p] \in Invocation /\ Aimed(p)  BY DEF Types
<1> HIDE DEF RowTypes
<1>1. ASSUME NEW p \in Callers, NEW k \in Claims, SubmitCheck(p, k) PROVE Types'
  <2> DEFINE a == IF For[k].file = NoFile THEN "None" ELSE file[For[k].file].verdict
             r == [Idle EXCEPT !.pc = "create", !.on = k, !.arg = a]
  <2>1. a \in Scans  BY ForTyped DEF Types, FileRow, Scans
  <2>2. proc' = [proc EXCEPT ![p] = r]  BY <1>1 DEF SubmitCheck
  <2> HIDE DEF a
  <2>3. r \in Invocation /\ r.pc = "create" /\ r.on = k /\ r.arg = a
    BY <2>1 DEF Idle, Invocation, OnClaim
  <2> HIDE DEF r
  <2>4. proc' \in [Procs -> Invocation] /\ Alone(p) /\ proc'[p] = r
    BY <1>c, <2>2, <2>3, BeginStep
  <2>5. Aimed(p)'  BY <2>1, <2>3, <2>4 DEF Aimed, OnFile
  <2>6. QED BY <1>0, <1>1, <1>a, <1>b, <1>c, <2>4, <2>5 DEF SubmitCheck
<1>2. ASSUME NEW p \in Callers, SubmitCreate(p) PROVE Types'
  <2>1. PICK k \in Claims : k = proc[p].on  BY <1>2, <1>c, <1>d DEF SubmitCreate, Aimed, OnClaim
  <2>2. proc[p].arg \in Scans  BY <1>2, <1>c, <1>d DEF SubmitCreate, Aimed
  <2>3. claim' \in [Claims -> ClaimRow]
    <3>1. "Pending" \in Statuses  BY DEF Statuses, Live
    <3>2. [claim EXCEPT ![k].status = "Pending", ![k].scan = proc[p].arg] \in [Claims -> ClaimRow]
      BY <2>2, <3>1 DEF Types, ClaimRow
    <3>3. QED BY <1>2, <2>1, <3>2 DEF SubmitCreate, Types
  <2>4. slot' \in [Certs \X Members -> SlotRow]
    BY <1>2, <2>1, ForTyped DEF SubmitCreate, Types, SlotRow
  <2>5. RowTypes  BY <1>2, <2>1, <2>3, <2>4 DEF SubmitCreate, Types, RowTypes
  <2>6. CASE Goto(p, "link", k) /\ For[k].file # NoFile
    <3>1. proc' \in [Procs -> Invocation] /\ Alone(p) /\ proc'[p].pc = "link" /\ proc'[p].on = k
      BY <1>c, <2>6, GotoStep DEF OnClaim
    <3>2. Aimed(p)'  BY <2>6, <3>1 DEF Aimed, OnFile
    <3>3. QED BY <1>0, <1>2, <1>b, <1>c, <2>5, <3>1, <3>2 DEF SubmitCreate
  <2>7. CASE Done(p)
    <3>1. proc' \in [Procs -> Invocation] /\ Alone(p) /\ proc'[p].pc = "idle"
      BY <1>c, <2>7, DoneStep
    <3>2. Aimed(p)'  BY <3>1 DEF Aimed, OnClaim, OnFile
    <3>3. QED BY <1>0, <1>2, <1>b, <1>c, <2>5, <3>1, <3>2 DEF SubmitCreate
  <2>8. QED BY <1>2, <2>1, <2>6, <2>7 DEF SubmitCreate
<1>3. ASSUME NEW p \in Callers, SubmitLink(p) PROVE Types'
  <2>1. PICK k \in Claims : k = proc[p].on
    BY <1>3, <1>c, <1>d DEF SubmitLink, Aimed, OnClaim
  <2>2. For[k].file \in Files  BY <1>3, <1>c, <1>d, <2>1, ForTyped DEF SubmitLink, Aimed
  <2>3. proc' \in [Procs -> Invocation] /\ Alone(p) /\ proc'[p].pc = "reconcile" /\ proc'[p].on = k
    BY <1>3, <1>c, <2>1, GotoStep DEF SubmitLink, OnClaim
  <2>4. Aimed(p)'  BY <2>3 DEF Aimed, OnFile
  <2>5. file' \in [Files -> FileRow]  BY <1>3, <2>1, <2>2 DEF SubmitLink, Types, FileRow
  <2>6. QED BY <1>0, <1>3, <1>a, <1>c, <2>3, <2>4, <2>5 DEF SubmitLink, Types
<1>4. ASSUME NEW p \in Procs, ReadClaim(p) PROVE Types'
  <2>1. PICK k \in Claims : k = proc[p].on  BY <1>4, <1>d DEF ReadClaim, Aimed, OnClaim
  <2>2. CASE Goto(p, "pointer", k) /\ claim[k].scan = "PendingScan"
    <3>1. proc' \in [Procs -> Invocation] /\ Alone(p) /\ proc'[p].pc = "pointer" /\ proc'[p].on = k
      BY <2>2, GotoStep DEF OnClaim
    <3>2. Aimed(p)'  BY <2>2, <3>1 DEF Aimed, OnFile, Scanned
    <3>3. QED BY <1>0, <1>4, <1>a, <1>b, <3>1, <3>2 DEF ReadClaim
  <2>3. CASE Done(p)
    <3>1. proc' \in [Procs -> Invocation] /\ Alone(p) /\ proc'[p].pc = "idle"  BY <2>3, DoneStep
    <3>2. Aimed(p)'  BY <3>1 DEF Aimed, OnClaim, OnFile
    <3>3. QED BY <1>0, <1>4, <1>a, <1>b, <3>1, <3>2 DEF ReadClaim
  <2>4. QED BY <1>4, <2>1, <2>2, <2>3 DEF ReadClaim
<1>5. ASSUME NEW p \in Procs, ReadPointer(p) PROVE Types'
  <2>1. PICK k \in Claims : k = proc[p].on  BY <1>5, <1>d DEF ReadPointer, Aimed, OnClaim
  <2>2. CASE Goto(p, "stamp", k)
    <3>1. proc' \in [Procs -> Invocation] /\ Alone(p) /\ proc'[p].pc = "stamp" /\ proc'[p].on = k
      BY <2>2, GotoStep DEF OnClaim
    <3>2. For[k].file # NoFile  BY <1>5, <1>d, <2>1 DEF ReadPointer, Aimed
    <3>3. Aimed(p)'  BY <3>1, <3>2 DEF Aimed, OnFile
    <3>4. QED BY <1>0, <1>5, <1>a, <1>b, <3>1, <3>3 DEF ReadPointer
  <2>3. CASE Done(p)
    <3>1. proc' \in [Procs -> Invocation] /\ Alone(p) /\ proc'[p].pc = "idle"  BY <2>3, DoneStep
    <3>2. Aimed(p)'  BY <3>1 DEF Aimed, OnClaim, OnFile
    <3>3. QED BY <1>0, <1>5, <1>a, <1>b, <3>1, <3>2 DEF ReadPointer
  <2>4. QED BY <1>5, <2>1, <2>2, <2>3 DEF ReadPointer
<1>6. ASSUME NEW p \in Procs, Stamp(p) PROVE Types'
  <2>1. PICK k \in Claims : k = proc[p].on  BY <1>6, <1>d DEF Stamp, Aimed, OnClaim
  <2>2. Verdict(k) \in Scans
    BY <1>6, <1>d, <2>1, ForTyped DEF Stamp, Aimed, Verdict, Types, FileRow, Scans
  <2>3. claim' \in [Claims -> ClaimRow]  BY <1>6, <2>1, <2>2 DEF Stamp, Types, ClaimRow
  <2>4. RowTypes  BY <1>6, <2>1, <2>3 DEF Stamp, Types, RowTypes
  <2>5. proc' \in [Procs -> Invocation] /\ Alone(p) /\ proc'[p].pc = "idle"
    BY <1>6, DoneStep DEF Stamp
  <2>6. Aimed(p)'  BY <2>5 DEF Aimed, OnClaim, OnFile
  <2>7. QED BY <1>0, <1>6, <1>b, <2>4, <2>5, <2>6 DEF Stamp
<1>7. ASSUME NEW p \in Consumers, NEW f \in Files, ScanRead(p, f) PROVE Types'
  <2> DEFINE r == [Idle EXCEPT !.pc = "judged", !.on = file[f].owner, !.arg = f]
  <2>1. proc' = [proc EXCEPT ![p] = r]  BY <1>7 DEF ScanRead
  <2>2. r \in Invocation /\ r.pc = "judged" /\ r.arg = f
    BY DEF Idle, Invocation, OnFile, Types, FileRow
  <2> HIDE DEF r
  <2>3. proc' \in [Procs -> Invocation] /\ Alone(p) /\ proc'[p] = r
    BY <1>c, <2>1, <2>2, BeginStep
  <2>4. Aimed(p)'  BY <2>2, <2>3 DEF Aimed, OnClaim
  <2>5. file' \in [Files -> FileRow]  BY <1>7 DEF ScanRead, Types, FileRow
  <2>6. QED BY <1>0, <1>7, <1>a, <1>c, <2>3, <2>4, <2>5 DEF ScanRead, Types
<1>8. ASSUME NEW p \in Consumers, ScanVerdict(p) PROVE Types'
  <2>1. PICK f \in Files : f = proc[p].arg  BY <1>8, <1>c, <1>d DEF ScanVerdict, Aimed, OnFile
  <2>2. proc' \in [Procs -> Invocation] /\ Alone(p) /\ proc'[p].pc = "owner" /\ proc'[p].arg = f
    BY <1>8, <1>c, <1>d, <2>1, GotoStep DEF ScanVerdict, OnFile, Invocation
  <2>3. Aimed(p)'  BY <2>2 DEF Aimed, OnClaim
  <2>4. file' \in [Files -> FileRow]
    <3>1. PICK v \in {"Clean", "Quarantined"} : file' = [file EXCEPT ![f].verdict = v]
      BY <1>8, <2>1 DEF ScanVerdict
    <3>2. v \in Scans \ {"None"}  BY DEF Scans
    <3>3. QED BY <3>1, <3>2 DEF Types, FileRow
  <2>5. QED BY <1>0, <1>8, <1>a, <1>c, <2>2, <2>3, <2>4 DEF ScanVerdict, Types
<1>9. ASSUME NEW p \in Consumers, ScanOwner(p) PROVE Types'
  <2>1. PICK f \in Files : f = proc[p].arg  BY <1>9, <1>c, <1>d DEF ScanOwner, Aimed, OnFile
  <2>2. CASE Done(p)
    <3>1. proc' \in [Procs -> Invocation] /\ Alone(p) /\ proc'[p].pc = "idle"
      BY <1>c, <2>2, DoneStep
    <3>2. Aimed(p)'  BY <3>1 DEF Aimed, OnClaim, OnFile
    <3>3. QED BY <1>0, <1>9, <1>a, <1>b, <1>c, <3>1, <3>2 DEF ScanOwner
  <2>3. CASE file[f].owner # NoClaim /\ Goto(p, "reconcile", file[f].owner)
    <3>1. file[f].owner \in Claims  BY <2>3 DEF Types, FileRow
    <3>2. /\ proc' \in [Procs -> Invocation] /\ Alone(p) /\ proc'[p].pc = "reconcile"
          /\ proc'[p].on = file[f].owner
      BY <1>c, <2>3, <3>1, GotoStep DEF OnClaim
    <3>3. Aimed(p)'  BY <3>1, <3>2 DEF Aimed, OnFile
    <3>4. QED BY <1>0, <1>9, <1>a, <1>b, <1>c, <3>2, <3>3 DEF ScanOwner
  <2>4. QED BY <1>9, <2>1, <2>2, <2>3 DEF ScanOwner
<1>10. ASSUME NEW p \in Procs, NEW k \in Claims, NEW e \in Events, RowTypes, Tell(p, k, e),
              UNCHANGED <<file, told, crashes>>
       PROVE  Types'
  <2>1. /\ proc' \in [Procs -> Invocation] /\ Alone(p) /\ proc'[p].pc = "tell"
        /\ proc'[p].on = k /\ proc'[p].arg = e
    BY <1>10, TellStep
  <2>2. Aimed(p)'  BY <2>1 DEF Aimed, OnFile
  <2>3. QED BY <1>0, <1>10, <1>b, <2>1, <2>2
<1>11. ASSUME NEW p \in Procs, NEW k \in Claims, SystemReject(p, k) \/ Revoke(p, k) PROVE Types'
  <2>1. RowTypes
    BY <1>11, ToTerminalTypes DEF SystemReject, Revoke, Statuses, RowTypes
  <2>2. QED BY <1>10, <1>11, <2>1 DEF SystemReject, Revoke, Events
<1>12. ASSUME NEW p \in Callers, Approve(p) \/ Reject(p) PROVE Types'
  <2>1. PICK k \in Claims : k = proc[p].on
    BY <1>12, <1>c, <1>d DEF Approve, Reject, Aimed, OnClaim
  <2>2. RowTypes
    BY <1>12, <2>1, ToTerminalTypes, ToApprovedTypes DEF Approve, Reject, Statuses, RowTypes
  <2>3. QED BY <1>10, <1>12, <1>c, <2>1, <2>2 DEF Approve, Reject, Events
<1>13. ASSUME NEW k \in Claims, Withdraw(k) PROVE Types'
  <2>1. RowTypes  BY <1>13, ToTerminalTypes DEF Withdraw, Statuses, RowTypes
  <2>2. UNCHANGED <<file, told, proc, crashes>>  BY <1>13 DEF Withdraw
  <2>3. QED BY <2>1, <2>2 DEF Types, RowTypes, Aimed
<1>14. ASSUME NEW p \in Callers, NEW k \in Claims, Review(p, k) PROVE Types'
  <2>1. proc' \in [Procs -> Invocation] /\ Alone(p) /\ proc'[p].pc = "review" /\ proc'[p].on = k
    BY <1>14, <1>c, GotoStep DEF Review, OnClaim
  <2>2. Aimed(p)'  BY <2>1 DEF Aimed, OnFile
  <2>3. QED BY <1>0, <1>14, <1>a, <1>b, <1>c, <2>1, <2>2 DEF Review
<1>15. ASSUME NEW p \in Callers, Conflict(p) PROVE Types'
  <2>1. proc' \in [Procs -> Invocation] /\ Alone(p) /\ proc'[p].pc = "idle"
    BY <1>15, <1>c, DoneStep DEF Conflict
  <2>2. Aimed(p)'  BY <2>1 DEF Aimed, OnClaim, OnFile
  <2>3. QED BY <1>0, <1>15, <1>a, <1>b, <1>c, <2>1, <2>2 DEF Conflict
<1>16. ASSUME NEW p \in Procs, Publish(p) PROVE Types'
  <2>1. proc[p].on \in Claims /\ proc[p].arg \in Events
    BY <1>16, <1>d DEF Publish, Aimed, OnClaim
  <2>2. told' \in [Claims -> [Events -> Nat]]  BY <1>16, <2>1 DEF Publish, Types
  <2>3. proc' \in [Procs -> Invocation] /\ Alone(p) /\ proc'[p].pc = "idle"
    BY <1>16, DoneStep DEF Publish
  <2>4. Aimed(p)'  BY <2>3 DEF Aimed, OnClaim, OnFile
  <2>5. QED BY <1>0, <1>16, <1>a, <2>2, <2>3, <2>4 DEF Publish, Types
<1>17. ASSUME NEW p \in Procs, WatchList(p) \/ SweepList(p) PROVE Types'
  <2>1. PICK todo \in SUBSET Listed : proc' = [proc EXCEPT ![p].todo = todo]
    <3>1. CASE WatchList(p)
      <4>1. {Row(k, "scan") : k \in {i \in Claims : window[i] = "SCANWATCH"}} \in SUBSET Listed
        BY DEF Row, Listed
      <4>2. QED BY <3>1, <4>1 DEF WatchList
    <3>2. CASE SweepList(p)
      <4> DEFINE due == {k \in Claims : Due(k) /\ claim[k].status = "Approved"}
                 todo == {Row(k, "expire") : k \in {i \in due : For[i].expires <= today}}
                           \cup {Row(k, "notice") : k \in {i \in due : For[i].expires > today
                                                                      /\ ~ claim[i].noticed}}
      <4>1. todo \in SUBSET Listed  BY DEF Row, Listed
      <4>2. proc' = [proc EXCEPT ![p].todo = todo]  BY <3>2 DEF SweepList
      <4>3. QED BY <4>1, <4>2
    <3>3. QED BY <1>17, <3>1, <3>2
  <2>2. /\ proc' \in [Procs -> Invocation] /\ Alone(p) /\ proc'[p].pc = proc[p].pc
        /\ proc'[p].on = proc[p].on /\ proc'[p].arg = proc[p].arg
    BY <2>1, <1>d DEF Types, Invocation, Alone
  <2>3. Aimed(p)'  BY <1>d, <2>2 DEF Aimed
  <2>4. QED BY <1>0, <1>17, <1>a, <1>b, <2>2, <2>3 DEF WatchList, SweepList
<1>18. ASSUME NEW p \in Procs, NEW k \in Claims, Watch(p, k) PROVE Types'
  <2>1. proc' \in [Procs -> Invocation] /\ Alone(p) /\ proc'[p].pc = "reconcile" /\ proc'[p].on = k
    BY <1>18, TakeStep DEF Watch
  <2>2. Aimed(p)'  BY <2>1 DEF Aimed, OnFile
  <2>3. QED BY <1>0, <1>18, <1>a, <1>b, <2>1, <2>2 DEF Watch
<1>19. ASSUME NEW p \in Procs, NEW k \in Claims, Expire(p, k) \/ Notice(p, k) PROVE Types'
  <2>1. RowTypes
    <3>1. CASE ToTerminal(k, "Approved", "Expired")
      BY <3>1, ToTerminalTypes DEF Statuses, RowTypes
    <3>2. CASE UNCHANGED rows  BY <1>a, <3>2
    <3>3. CASE Notice(p, k)
      <4>1. claim' \in [Claims -> ClaimRow]  BY <3>3 DEF Notice, Types, ClaimRow
      <4>2. QED BY <3>3, <4>1 DEF Notice, Types, RowTypes
    <3>4. QED BY <1>19, <3>1, <3>2, <3>3 DEF Expire
  <2>2. \/ \E e \in Events, w \in {"expire", "notice"} : Take(p, Row(k, w), "tell", e)
        \/ \E w \in {"expire", "notice"} : Drop(p, Row(k, w))
    BY <1>19 DEF Expire, Notice, Events
  <2>3. proc' \in [Procs -> Invocation] /\ Alone(p) /\ Aimed(p)'
    <3>1. CASE \E e \in Events, w \in {"expire", "notice"} : Take(p, Row(k, w), "tell", e)
      <4>1. PICK e \in Events, w \in {"expire", "notice"} : Take(p, Row(k, w), "tell", e)
        BY <3>1
      <4>2. /\ proc' \in [Procs -> Invocation] /\ Alone(p) /\ proc'[p].pc = "tell"
            /\ proc'[p].on = k /\ proc'[p].arg = e
        BY <4>1, TakeStep
      <4>3. QED BY <4>2 DEF Aimed, OnFile
    <3>2. CASE \E w \in {"expire", "notice"} : Drop(p, Row(k, w))
      <4>1. /\ proc' \in [Procs -> Invocation] /\ Alone(p)
            /\ proc'[p].pc = proc[p].pc /\ proc'[p].on = proc[p].on /\ proc'[p].arg = proc[p].arg
        BY <3>2, DropStep
      <4>2. QED BY <1>d, <4>1 DEF Aimed
    <3>3. QED BY <2>2, <3>1, <3>2
  <2>4. QED BY <1>0, <1>19, <1>b, <2>1, <2>3 DEF Expire, Notice
<1>20. ASSUME NEW p \in Procs, Die(p) PROVE Types'
  <2>1. proc' \in [Procs -> Invocation] /\ Alone(p) /\ proc'[p] = Idle
    BY <1>20, IdleTyped, BeginStep DEF Die
  <2>2. Aimed(p)'  BY <2>1, IdleTyped DEF Aimed, OnClaim, OnFile
  <2>3. QED BY <1>0, <1>20, <1>a, <2>1, <2>2 DEF Die, Types
<1>21. ASSUME Tick PROVE Types'
  BY <1>21 DEF Tick, rows, Types, Aimed
<1>22. QED
  BY <1>c, <1>1, <1>2, <1>3, <1>4, <1>5, <1>6, <1>7, <1>8, <1>9, <1>11, <1>12, <1>13, <1>14,
     <1>15, <1>16, <1>17, <1>18, <1>19, <1>20, <1>21 DEF Simple

-----------------------------------------------------------------------------
(* Slots and counters. *)

\* Who is about to create a claim is the only one, and the claim is not there yet.
Creators ==
  \A p \in Procs : proc[p].pc = "create" =>
    /\ p \in Callers /\ claim[proc[p].on].status = "none"
    /\ \A q \in Procs : proc[q].pc = "create" /\ proc[q].on = proc[p].on => q = p

Slots ==
  /\ \A k \in Claims :
       /\ claim[k].status \in Live <=> slot[SlotOf(k)].claim = k
       /\ claim[k].status \in Live => slot[SlotOf(k)].approved = (claim[k].status = "Approved")
  /\ \A x \in Certs \X Members : slot[x].claim = NoClaim => ~slot[x].approved

Approvals(c) == {k \in Claims : For[k].cert = c /\ claim[k].status = "Approved"}
Counters == \A c \in Certs : held[c] = Cardinality(Approvals(c))

NoNewCreator ==
  \A q \in Procs : proc'[q].pc = "create" => proc[q].pc = "create" /\ proc'[q].on = proc[q].on

\* The transitions out of Pending and Approved.
Ends(k) ==
  \/ ToTerminal(k, "Pending", "Rejected") \/ ToTerminal(k, "Pending", "Withdrawn")
  \/ ToTerminal(k, "Approved", "Revoked") \/ ToTerminal(k, "Approved", "Expired")

\* What a step can do to the rows and to who creates.
RowStep ==
  \/ UNCHANGED <<slot, held>> /\ (\A k \in Claims : claim'[k].status = claim[k].status)
     /\ NoNewCreator
  \/ \E p \in Callers, k \in Claims : SubmitCheck(p, k)
  \/ \E p \in Callers : SubmitCreate(p)
  \/ \E k \in Claims : (ToApproved(k) \/ Ends(k)) /\ NoNewCreator

LEMMA StepsOfRows == ASSUME Types, Types', Simple PROVE RowStep
<1> DEFINE Same == UNCHANGED <<slot, held>> /\ \A k \in Claims : claim'[k].status = claim[k].status
<1>c. Callers \subseteq Procs /\ Consumers \subseteq Procs  BY DEF Procs
<1>d. \A p \in Procs : Aimed(p) /\ proc[p] \in Invocation  BY DEF Types
<1>e. ASSUME NEW p \in Procs, Alone(p), proc'[p].pc # "create" PROVE NoNewCreator
  BY <1>e DEF Alone, NoNewCreator
<1>f. ASSUME NEW p \in Procs, Done(p) PROVE NoNewCreator  BY <1>e, <1>f, DoneStep
<1>g. ASSUME NEW p \in Procs, NEW k \in Claims, NEW e \in Events, Tell(p, k, e) PROVE NoNewCreator
  BY <1>e, <1>g, TellStep
<1>h. ASSUME NEW p \in Procs, NEW k \in Claims \cup {NoClaim},
             NEW pc \in {"link", "reconcile", "pointer", "stamp", "review", "owner"}, Goto(p, pc, k)
      PROVE  NoNewCreator
  BY <1>e, <1>h, GotoStep DEF OnClaim, OnFile
<1>i. ASSUME UNCHANGED rows PROVE Same  BY <1>i DEF rows
<1>j. ASSUME NEW p \in Procs, NEW k \in Claims, NEW w \in {"scan", "expire", "notice"},
             NEW pc \in {"reconcile", "tell"}, NEW a \in {"none"} \cup Events,
             Take(p, Row(k, w), pc, a)
      PROVE  NoNewCreator
  BY <1>e, <1>j, TakeStep
<1>k. ASSUME NEW p \in Procs, NEW row, Drop(p, row) PROVE NoNewCreator
  BY <1>k, DropStep DEF Alone, NoNewCreator
<1> HIDE DEF Same
<1>0. ASSUME Same, NoNewCreator PROVE RowStep  BY <1>0 DEF Same, RowStep
<1>1. ASSUME NEW p \in Callers, NEW k \in Claims, Review(p, k) PROVE RowStep
  BY <1>0, <1>1, <1>c, <1>h, <1>i DEF Review
<1>2. ASSUME NEW p \in Procs, NEW k \in Claims, Revoke(p, k) \/ SystemReject(p, k) PROVE RowStep
  BY <1>2, <1>g DEF Revoke, SystemReject, Ends, Events, RowStep
<1>3. ASSUME NEW p \in Callers, SubmitLink(p) PROVE RowStep
  BY <1>0, <1>3, <1>c, <1>d, <1>h, <1>i DEF SubmitLink, Aimed, OnClaim
<1>4. ASSUME NEW p \in Callers, Approve(p) \/ Reject(p) PROVE RowStep
  <2>1. proc[p].on \in Claims  BY <1>4, <1>c, <1>d DEF Approve, Reject, Aimed, OnClaim
  <2>2. QED BY <1>4, <1>c, <1>g, <2>1 DEF Approve, Reject, Ends, Events, RowStep
<1>5. ASSUME NEW p \in Callers, Conflict(p) PROVE RowStep
  BY <1>0, <1>5, <1>c, <1>f, <1>i DEF Conflict
<1>6. ASSUME NEW p \in Consumers, NEW f \in Files, ScanRead(p, f) PROVE RowStep
  <2>1. Alone(p) /\ proc'[p].pc = "judged"
    BY <1>6, <1>c DEF ScanRead, Types, Alone, Idle
  <2>2. QED BY <1>0, <1>6, <1>c, <1>e, <1>i, <2>1 DEF ScanRead
<1>7. ASSUME NEW p \in Consumers, ScanVerdict(p) PROVE RowStep
  BY <1>0, <1>7, <1>c, <1>d, <1>h, <1>i DEF ScanVerdict, Invocation
<1>8. ASSUME NEW p \in Consumers, ScanOwner(p) PROVE RowStep
  <2>1. file[proc[p].arg].owner \in Claims \cup {NoClaim}
    BY <1>8, <1>c, <1>d DEF ScanOwner, Aimed, OnFile, Types, FileRow
  <2>2. QED BY <1>0, <1>8, <1>c, <1>f, <1>h, <1>i, <2>1 DEF ScanOwner
<1>9. ASSUME NEW p \in Procs, ReadClaim(p) \/ ReadPointer(p) PROVE RowStep
  <2>1. proc[p].on \in Claims  BY <1>9, <1>d DEF ReadClaim, ReadPointer, Aimed, OnClaim
  <2>2. QED BY <1>0, <1>9, <1>f, <1>h, <1>i, <2>1 DEF ReadClaim, ReadPointer
<1>10. ASSUME NEW p \in Procs, Stamp(p) PROVE RowStep
  <2>1. Same  BY <1>10 DEF Stamp, Same, Types, ClaimRow
  <2>2. QED BY <1>0, <1>10, <1>f, <2>1 DEF Stamp
<1>11. ASSUME NEW p \in Procs, Publish(p) PROVE RowStep
  BY <1>0, <1>11, <1>f, <1>i DEF Publish
<1>12. ASSUME NEW p \in Procs, Die(p) PROVE RowStep
  <2>1. Alone(p) /\ proc'[p].pc = "idle"  BY <1>12 DEF Die, Types, Alone, Idle
  <2>2. QED BY <1>0, <1>12, <1>e, <1>i, <2>1 DEF Die
<1>13. ASSUME NEW p \in Procs, WatchList(p) \/ SweepList(p) PROVE RowStep
  <2>1. NoNewCreator  BY <1>13 DEF WatchList, SweepList, NoNewCreator, Types, Invocation
  <2>2. QED BY <1>0, <1>13, <1>i, <2>1 DEF WatchList, SweepList
<1>14. ASSUME NEW p \in Procs, NEW k \in Claims, Watch(p, k) PROVE RowStep
  BY <1>0, <1>14, <1>i, <1>j DEF Watch
<1>15. ASSUME NEW p \in Procs, NEW k \in Claims, Expire(p, k) PROVE RowStep
  <2>1. CASE ToTerminal(k, "Approved", "Expired") /\ Take(p, Row(k, "expire"), "tell", "Expired")
    BY <1>j, <2>1 DEF Ends, Events, RowStep
  <2>2. CASE Drop(p, Row(k, "expire")) /\ UNCHANGED rows  BY <1>0, <1>i, <1>k, <2>2
  <2>3. QED BY <1>15, <2>1, <2>2 DEF Expire
<1>16. ASSUME NEW p \in Procs, NEW k \in Claims, Notice(p, k) PROVE RowStep
  <2>1. Same  BY <1>16 DEF Notice, Same, Types, ClaimRow
  <2>2. NoNewCreator  BY <1>16, <1>j, <1>k DEF Notice, Events
  <2>3. QED BY <1>0, <2>1, <2>2
<1>17. ASSUME NEW k \in Claims, Withdraw(k) PROVE RowStep
  BY <1>17 DEF Withdraw, Ends, NoNewCreator, RowStep
<1>18. ASSUME Tick PROVE RowStep
  BY <1>0, <1>18, <1>i DEF Tick, NoNewCreator
<1>19. QED
  BY <1>c, <1>1, <1>2, <1>3, <1>4, <1>5, <1>6, <1>7, <1>8, <1>9, <1>10, <1>11, <1>12, <1>13,
     <1>14, <1>15, <1>16, <1>17, <1>18 DEF Simple, RowStep

LEMMA InitSlots == Init => Creators /\ Slots /\ Counters
<1> SUFFICES ASSUME Init PROVE Creators /\ Slots /\ Counters  OBVIOUS
<1>1. Creators  BY DEF Init, Creators, Idle
<1>2. Slots  BY ForTyped, NoneAssumption DEF Init, Slots, Live, NoneAssumption
<1>3. Counters
  <2>1. \A c \in Certs : Approvals(c) = {}  BY DEF Init, Approvals
  <2>2. QED BY <2>1, FS_EmptySet DEF Init, Counters
<1>4. QED BY <1>1, <1>2, <1>3

LEMMA StepCreators == ASSUME Types, Types', Creators, RowStep PROVE Creators'
<1>d. \A p \in Procs : proc[p].pc = "create" => proc[p].on \in Claims
  BY DEF Types, Aimed, OnClaim
<1>0. ASSUME NoNewCreator,
             \A k \in Claims : claim[k].status = "none" => claim'[k].status = "none"
      PROVE  Creators'
  BY <1>0, <1>d DEF Creators, NoNewCreator
<1>1. ASSUME NEW p \in Callers, NEW k \in Claims, SubmitCheck(p, k) PROVE Creators'
  <2>1. p \in Procs  BY DEF Procs
  <2>2. /\ Alone(p) /\ proc'[p].pc = "create" /\ proc'[p].on = k
        /\ UNCHANGED claim /\ claim[k].status = "none" /\ \A q \in Callers : proc[q].on # k
    BY <1>1, <2>1 DEF SubmitCheck, rows, Types, Alone, Idle
  <2>3. QED BY <2>1, <2>2 DEF Creators, Alone
<1>2. ASSUME NEW p \in Callers, SubmitCreate(p) PROVE Creators'
  <2>1. p \in Procs  BY DEF Procs
  <2>2. PICK k \in Claims : k = proc[p].on /\ proc[p].pc = "create"
    BY <1>2, <1>d, <2>1 DEF SubmitCreate
  <2>3. \A i \in Claims : i # k => claim'[i] = claim[i]  BY <1>2, <2>2 DEF SubmitCreate, Types
  <2>4. Alone(p) /\ proc'[p].pc # "create"
    <3>1. Goto(p, "link", k) \/ Done(p)  BY <1>2, <2>2 DEF SubmitCreate
    <3>2. CASE Goto(p, "link", k)  BY <2>1, <3>2, GotoStep DEF OnClaim
    <3>3. CASE Done(p)  BY <2>1, <3>3, DoneStep
    <3>4. QED BY <3>1, <3>2, <3>3
  <2>5. QED BY <1>d, <2>1, <2>2, <2>3, <2>4 DEF Creators, Alone
<1>3. ASSUME NEW k \in Claims, ToApproved(k) \/ Ends(k), NoNewCreator PROVE Creators'
  <2>1. \A i \in Claims : claim[i].status = "none" => claim'[i].status = "none"
    BY <1>3 DEF ToApproved, Ends, ToTerminal, Types
  <2>2. QED BY <1>0, <1>3, <2>1
<1>4. QED BY <1>0, <1>1, <1>2, <1>3 DEF RowStep

LEMMA StepSlots == ASSUME Types, Types', Creators, Slots, RowStep PROVE Slots'
<1> USE NoneAssumption DEF NoneAssumption
<1>0. \A k \in Claims : SlotOf(k) \in Certs \X Members  BY ForTyped
<1>1. ASSUME UNCHANGED slot, \A k \in Claims : claim'[k].status = claim[k].status PROVE Slots'
  BY <1>1 DEF Slots
<1>2. ASSUME NEW p \in Callers, SubmitCreate(p) PROVE Slots'
  <2>1. p \in Procs  BY DEF Procs
  <2>2. PICK k \in Claims : k = proc[p].on /\ proc[p].pc = "create"
    BY <1>2, <2>1 DEF SubmitCreate, Types, Aimed, OnClaim
  <2>3. CASE slot[SlotOf(k)].claim = NoClaim
    <3>1. /\ claim'[k].status = "Pending" /\ \A i \in Claims : i # k => claim'[i] = claim[i]
          /\ slot' = [slot EXCEPT ![SlotOf(k)].claim = k]
      BY <1>2, <2>2, <2>3 DEF SubmitCreate, Types
    <3>2. /\ slot'[SlotOf(k)].claim = k /\ slot'[SlotOf(k)].approved = slot[SlotOf(k)].approved
          /\ \A x \in Certs \X Members : x # SlotOf(k) => slot'[x] = slot[x]
      BY <1>0, <3>1 DEF Types, SlotRow
    <3>3. slot[SlotOf(k)].approved = FALSE  BY <1>0, <2>3 DEF Slots, Types, SlotRow
    <3>4. ASSUME NEW i \in Claims
          PROVE  /\ claim'[i].status \in Live <=> slot'[SlotOf(i)].claim = i
                 /\ claim'[i].status \in Live =>
                      slot'[SlotOf(i)].approved = (claim'[i].status = "Approved")
      <4>1. CASE i = k  BY <1>0, <4>1, <2>3, <3>1, <3>2, <3>3 DEF Slots, Live
      <4>2. CASE i # k /\ SlotOf(i) = SlotOf(k)  BY <1>0, <4>2, <2>3, <3>1, <3>2, <3>3 DEF Slots, Live
      <4>3. CASE SlotOf(i) # SlotOf(k)
        <5>1. i # k /\ slot'[SlotOf(i)] = slot[SlotOf(i)] /\ claim'[i] = claim[i]
          BY <1>0, <4>3, <2>3, <3>1, <3>2, <3>3
        <5>2. QED BY <5>1 DEF Slots
      <4>4. QED BY <4>1, <4>2, <4>3
    <3>5. \A x \in Certs \X Members : slot'[x].claim = NoClaim => ~slot'[x].approved
      BY <1>0, <2>3, <3>1, <3>2, <3>3 DEF Slots
    <3>6. QED BY <3>4, <3>5 DEF Slots
  <2>4. CASE slot[SlotOf(k)].claim # NoClaim
    BY <1>1, <1>2, <2>2, <2>4 DEF SubmitCreate
  <2>5. QED BY <2>3, <2>4
<1>3. ASSUME NEW k \in Claims, ToApproved(k) PROVE Slots'
  <2>1. /\ claim[k].status = "Pending" /\ claim'[k].status = "Approved"
        /\ \A i \in Claims : i # k => claim'[i] = claim[i]
        /\ slot' = [slot EXCEPT ![SlotOf(k)].approved = TRUE]
    BY <1>3 DEF ToApproved, Types
  <2>2. /\ slot'[SlotOf(k)].claim = slot[SlotOf(k)].claim /\ slot'[SlotOf(k)].approved = TRUE
        /\ \A x \in Certs \X Members : x # SlotOf(k) => slot'[x] = slot[x]
    BY <1>0, <2>1 DEF Types, SlotRow
  <2>3. slot[SlotOf(k)].claim = k  BY <2>1 DEF Slots, Live
  <2>4. ASSUME NEW i \in Claims
        PROVE  /\ claim'[i].status \in Live <=> slot'[SlotOf(i)].claim = i
               /\ claim'[i].status \in Live =>
                    slot'[SlotOf(i)].approved = (claim'[i].status = "Approved")
    <3>1. CASE i = k  BY <1>0, <3>1, <2>1, <2>2, <2>3 DEF Slots, Live
    <3>2. CASE i # k /\ SlotOf(i) = SlotOf(k)
      <4>1. slot[SlotOf(i)].claim = k /\ claim'[i] = claim[i] /\ claim[i].status \notin Live
        BY <2>1, <2>3, <3>2 DEF Slots
      <4>2. slot'[SlotOf(i)].claim \in {k, NoClaim}  BY <2>2, <2>3, <3>2
      <4>3. QED BY <3>2, <4>1, <4>2
    <3>3. CASE SlotOf(i) # SlotOf(k)
      <4>1. i # k /\ slot'[SlotOf(i)] = slot[SlotOf(i)] /\ claim'[i] = claim[i]
        BY <1>0, <3>3, <2>1, <2>2, <2>3
      <4>2. QED BY <4>1 DEF Slots
    <3>4. QED BY <3>1, <3>2, <3>3
  <2>5. \A x \in Certs \X Members : slot'[x].claim = NoClaim => ~slot'[x].approved
    BY <1>0, <2>1, <2>2, <2>3 DEF Slots
  <2>6. QED BY <2>4, <2>5 DEF Slots
<1>4. ASSUME NEW k \in Claims, Ends(k) PROVE Slots'
  <2>1. /\ claim[k].status \in Live /\ claim'[k].status \notin Live
        /\ \A i \in Claims : i # k => claim'[i] = claim[i]
        /\ slot' = [slot EXCEPT ![SlotOf(k)] = [claim |-> NoClaim, approved |-> FALSE]]
    <3>1. {"Rejected", "Withdrawn", "Revoked", "Expired"} \subseteq Statuses  BY DEF Statuses
    <3>2. \E old \in {"Pending", "Approved"}, new \in {"Rejected", "Withdrawn", "Revoked", "Expired"} :
            ToTerminal(k, old, new)
      BY <1>4 DEF Ends
    <3>3. PICK old \in {"Pending", "Approved"}, new \in {"Rejected", "Withdrawn", "Revoked", "Expired"} :
            ToTerminal(k, old, new)
      BY <3>2
    <3>4. /\ claim[k].status = old /\ claim'[k].status = new
          /\ \A i \in Claims : i # k => claim'[i] = claim[i]
      BY <3>1, <3>3, ToTerminalEffect
    <3>5. QED BY <3>3, <3>4 DEF ToTerminal, Live
  <2>2. /\ slot'[SlotOf(k)].claim = NoClaim /\ ~slot'[SlotOf(k)].approved
        /\ \A x \in Certs \X Members : x # SlotOf(k) => slot'[x] = slot[x]
    BY <1>0, <2>1 DEF Types
  <2>3. slot[SlotOf(k)].claim = k  BY <2>1 DEF Slots
  <2>4. ASSUME NEW i \in Claims
        PROVE  /\ claim'[i].status \in Live <=> slot'[SlotOf(i)].claim = i
               /\ claim'[i].status \in Live =>
                    slot'[SlotOf(i)].approved = (claim'[i].status = "Approved")
    <3>1. CASE i = k
      <4>1. SlotOf(k) \in Certs \X Members /\ slot'[SlotOf(k)].claim = NoClaim /\ k # NoClaim
        BY <1>0, <2>2
      <4>2. QED BY <2>1, <3>1, <4>1
    <3>2. CASE i # k /\ SlotOf(i) = SlotOf(k)
      <4>1. slot[SlotOf(i)].claim = k /\ claim'[i] = claim[i] /\ claim[i].status \notin Live
        BY <2>1, <2>3, <3>2 DEF Slots
      <4>2. slot'[SlotOf(i)].claim \in {k, NoClaim}  BY <2>2, <2>3, <3>2
      <4>3. QED BY <3>2, <4>1, <4>2
    <3>3. CASE SlotOf(i) # SlotOf(k)
      <4>1. i # k /\ slot'[SlotOf(i)] = slot[SlotOf(i)] /\ claim'[i] = claim[i]
        BY <1>0, <3>3, <2>1, <2>2, <2>3
      <4>2. QED BY <4>1 DEF Slots
    <3>4. QED BY <3>1, <3>2, <3>3
  <2>5. \A x \in Certs \X Members : slot'[x].claim = NoClaim => ~slot'[x].approved
    BY <1>0, <2>1, <2>2, <2>3 DEF Slots
  <2>6. QED BY <2>4, <2>5 DEF Slots
<1>5. ASSUME NEW p \in Callers, NEW k \in Claims, SubmitCheck(p, k) PROVE Slots'
  BY <1>1, <1>5 DEF SubmitCheck, rows
<1>6. QED BY <1>1, <1>2, <1>3, <1>4, <1>5 DEF RowStep

LEMMA StepCounters == ASSUME Types, Types', Creators, Counters, RowStep PROVE Counters'
<1>0. \A c \in Certs : IsFiniteSet(Approvals(c)) /\ Approvals(c) \subseteq Claims
  <2>1. \A c \in Certs : Approvals(c) \subseteq Claims  BY DEF Approvals
  <2>2. QED BY <2>1, FS_Subset, FiniteAssumption DEF FiniteAssumption
<1>1. ASSUME UNCHANGED held, \A k \in Claims : claim'[k].status = "Approved" <=> claim[k].status = "Approved"
      PROVE  Counters'
  <2>1. \A c \in Certs : Approvals(c)' = Approvals(c)  BY <1>1 DEF Approvals
  <2>2. QED BY <1>1, <2>1 DEF Counters
\* One claim more, or one less, among those of its certification.
<1>2. ASSUME NEW k \in Claims, ToApproved(k) PROVE Counters'
  <2>1. /\ claim[k].status = "Pending" /\ claim'[k].status = "Approved"
        /\ \A i \in Claims : i # k => claim'[i] = claim[i]
        /\ held' = [held EXCEPT ![For[k].cert] = @ + 1]
    BY <1>2 DEF ToApproved, Types
  <2>2. For[k].cert \in Certs  BY ForTyped
  <2>3. SUFFICES ASSUME NEW c \in Certs PROVE held'[c] = Cardinality(Approvals(c)')
    BY DEF Counters
  <2>4. CASE c = For[k].cert
    <3>1. Approvals(c)' = Approvals(c) \cup {k} /\ k \notin Approvals(c)
      BY <2>1, <2>4 DEF Approvals
    <3>2. Cardinality(Approvals(c)') = Cardinality(Approvals(c)) + 1
      BY <1>0, <3>1, FS_AddElement
    <3>3. QED BY <2>1, <2>2, <2>4, <3>2 DEF Counters, Types
  <2>5. CASE c # For[k].cert
    <3>1. Approvals(c)' = Approvals(c)  BY <2>1, <2>5 DEF Approvals
    <3>2. QED BY <2>1, <2>5, <3>1 DEF Counters, Types
  <2>6. QED BY <2>4, <2>5
<1>3. ASSUME NEW k \in Claims, ToTerminal(k, "Approved", "Revoked") \/ ToTerminal(k, "Approved", "Expired")
      PROVE  Counters'
  <2>1. /\ claim[k].status = "Approved" /\ claim'[k].status # "Approved"
        /\ \A i \in Claims : i # k => claim'[i] = claim[i]
        /\ held' = [held EXCEPT ![For[k].cert] = @ - 1]
    <3>1. PICK new \in {"Revoked", "Expired"} : ToTerminal(k, "Approved", new)  BY <1>3
    <3>2. new \in Statuses  BY DEF Statuses
    <3>3. QED BY <3>1, <3>2, ToTerminalEffect DEF ToTerminal
  <2>2. For[k].cert \in Certs  BY ForTyped
  <2>3. SUFFICES ASSUME NEW c \in Certs PROVE held'[c] = Cardinality(Approvals(c)')
    BY DEF Counters
  <2>4. CASE c = For[k].cert
    <3>1. Approvals(c)' = Approvals(c) \ {k} /\ k \in Approvals(c)
      BY <2>1, <2>4 DEF Approvals
    <3>2. Cardinality(Approvals(c)') = Cardinality(Approvals(c)) - 1
      BY <1>0, <3>1, FS_RemoveElement
    <3>3. QED BY <2>1, <2>2, <2>4, <3>2 DEF Counters, Types
  <2>5. CASE c # For[k].cert
    <3>1. Approvals(c)' = Approvals(c)  BY <2>1, <2>5 DEF Approvals
    <3>2. QED BY <2>1, <2>5, <3>1 DEF Counters, Types
  <2>6. QED BY <2>4, <2>5
<1>4. ASSUME NEW k \in Claims, ToTerminal(k, "Pending", "Rejected") \/ ToTerminal(k, "Pending", "Withdrawn")
      PROVE  Counters'
  <2>1. PICK new \in {"Rejected", "Withdrawn"} : ToTerminal(k, "Pending", new)  BY <1>4
  <2>2. new \in Statuses  BY DEF Statuses
  <2>3. /\ claim[k].status = "Pending" /\ claim'[k].status = new
        /\ \A i \in Claims : i # k => claim'[i] = claim[i]
    BY <2>1, <2>2, ToTerminalEffect
  <2>4. UNCHANGED held  BY <2>1 DEF ToTerminal
  <2>5. QED BY <1>1, <2>3, <2>4
<1>5. ASSUME NEW p \in Callers, SubmitCreate(p) PROVE Counters'
  <2>1. p \in Procs  BY DEF Procs
  <2>2. PICK k \in Claims : k = proc[p].on /\ claim[k].status = "none"
    BY <1>5, <2>1 DEF SubmitCreate, Types, Aimed, OnClaim, Creators
  <2>3. QED BY <1>1, <1>5, <2>2 DEF SubmitCreate, Types
<1>6. ASSUME NEW p \in Callers, NEW k \in Claims, SubmitCheck(p, k) PROVE Counters'
  BY <1>1, <1>6 DEF SubmitCheck, rows
<1>7. QED BY <1>1, <1>2, <1>3, <1>4, <1>5, <1>6 DEF RowStep, Ends

-----------------------------------------------------------------------------
(* Evidence: what is known of a file when a claim is read, stamped and decided. *)

\* What an invocation has read still holds when it writes.
Careful(p) ==
  /\ proc[p].pc = "create" =>
       IF For[proc[p].on].file = NoFile THEN proc[p].arg = "None"
       ELSE proc[p].arg \in {"PendingScan", Verdict(proc[p].on)}
  /\ proc[p].pc = "link" => claim[proc[p].on].status # "none"
  /\ proc[p].pc = "stamp" => Verdict(proc[p].on) # "PendingScan"
  /\ proc[p].pc = "review" =>
       claim[proc[p].on].status # "none" /\ claim[proc[p].on].scan \in {"None", "Clean"}
  /\ proc[p].pc = "judged" =>
       file[proc[p].arg].verdict = "PendingScan" /\ file[proc[p].arg].seen

\* One invocation at most is about to judge a file.
Judges ==
  /\ \A p, q \in Procs : proc[p].pc = "judged" /\ proc[q].pc = "judged"
                         /\ proc[p].arg = proc[q].arg => p = q
  /\ \A f \in Files : file[f].verdict # "PendingScan" => file[f].seen

\* A file is owned by the claim it is the evidence of, which was created before.
Owned ==
  \A f \in Files : file[f].owner # NoClaim =>
    For[file[f].owner].file = f /\ claim[file[f].owner].status # "none"

Evidence == Scanned /\ (\A p \in Procs : Careful(p)) /\ Judges /\ Owned

\* The steps that change what is known of a file or of a claim.
EvidenceStep ==
  \/ UNCHANGED file /\ \A k \in Claims : claim'[k].status = claim[k].status
                                        /\ claim'[k].scan = claim[k].scan
                                        /\ (claim[k].noticed => claim'[k].noticed)
  \/ UNCHANGED file /\ \E k \in Claims : Ends(k)
  \/ \E p \in Callers : SubmitCreate(p) \/ SubmitLink(p) \/ Approve(p)
  \/ \E p \in Procs : Stamp(p)
  \/ \E p \in Consumers : ScanVerdict(p) \/ \E f \in Files : ScanRead(p, f)

LEMMA StepsOfEvidence == ASSUME Types, Types', Simple PROVE EvidenceStep
<1> DEFINE Same == UNCHANGED file /\ \A k \in Claims : claim'[k].status = claim[k].status
                                                     /\ claim'[k].scan = claim[k].scan
                                                     /\ (claim[k].noticed => claim'[k].noticed)
<1>0. ASSUME UNCHANGED <<claim, file>> PROVE Same  BY <1>0
<1>1. ASSUME NEW p \in Procs, NEW k \in Claims, Notice(p, k) PROVE Same
  BY <1>1 DEF Notice, Types, ClaimRow
<1>2. ASSUME NEW p \in Procs, NEW k \in Claims, Expire(p, k) PROVE EvidenceStep
  BY <1>2 DEF Expire, rows, Ends, EvidenceStep
<1>3. ASSUME NEW p \in Procs, NEW k \in Claims, Revoke(p, k) \/ SystemReject(p, k) PROVE EvidenceStep
  BY <1>3 DEF Revoke, SystemReject, Ends, EvidenceStep
<1>4. ASSUME NEW p \in Callers, Reject(p) PROVE EvidenceStep
  <2>1. proc[p].on \in Claims  BY <1>4 DEF Reject, Types, Aimed, OnClaim, Procs
  <2>2. QED BY <1>4, <2>1 DEF Reject, Ends, EvidenceStep
<1>5. ASSUME NEW k \in Claims, Withdraw(k) PROVE EvidenceStep
  BY <1>5 DEF Withdraw, Ends, EvidenceStep
<1>6. ASSUME NEW p \in Procs, \/ ReadClaim(p) \/ ReadPointer(p) \/ Publish(p) \/ Die(p) \/ Conflict(p)
                              \/ WatchList(p) \/ SweepList(p) \/ ScanOwner(p)
                              \/ \E k \in Claims : SubmitCheck(p, k) \/ Review(p, k) \/ Watch(p, k)
      PROVE  Same
  <2>1. UNCHANGED <<claim, file>>
    BY <1>6 DEF ReadClaim, ReadPointer, Publish, Die, Conflict, WatchList, SweepList, ScanOwner,
                SubmitCheck, Review, Watch, rows
  <2>2. QED BY <1>0, <2>1
<1>7. Tick => Same  BY <1>0 DEF Tick, rows
<1> HIDE DEF Same
<1>8. Callers \subseteq Procs /\ Consumers \subseteq Procs  BY DEF Procs
<1>9. Same => EvidenceStep  BY DEF Same, EvidenceStep
<1>10. ASSUME NEW p \in Callers,
              \/ \E k \in Claims : SubmitCheck(p, k) \/ Review(p, k) \/ Revoke(p, k)
              \/ SubmitCreate(p) \/ SubmitLink(p) \/ Approve(p) \/ Reject(p) \/ Conflict(p)
       PROVE  EvidenceStep
  BY <1>3, <1>4, <1>6, <1>8, <1>9, <1>10 DEF EvidenceStep
<1>11. ASSUME NEW p \in Consumers,
              \/ \E f \in Files : ScanRead(p, f)
              \/ \E k \in Claims : SystemReject(p, k)
              \/ ScanVerdict(p) \/ ScanOwner(p)
       PROVE  EvidenceStep
  BY <1>3, <1>6, <1>8, <1>9, <1>11 DEF EvidenceStep
<1>12. ASSUME NEW p \in Procs,
              \/ ReadClaim(p) \/ ReadPointer(p) \/ Stamp(p) \/ Publish(p) \/ Die(p)
              \/ WatchList(p) \/ SweepList(p)
              \/ \E k \in Claims : Watch(p, k) \/ Expire(p, k) \/ Notice(p, k)
       PROVE  EvidenceStep
  BY <1>1, <1>2, <1>6, <1>9, <1>12 DEF EvidenceStep
<1>13. QED BY <1>5, <1>7, <1>9, <1>10, <1>11, <1>12 DEF Simple

LEMMA InitEvidence == Init => Evidence
<1> SUFFICES ASSUME Init PROVE Evidence  OBVIOUS
<1>1. Scanned  BY DEF Init, Scanned, Granted
<1>2. \A p \in Procs : Careful(p)  BY DEF Init, Careful, Idle
<1>3. Judges /\ Owned  BY DEF Init, Judges, Owned, Idle
<1>4. QED BY <1>1, <1>2, <1>3 DEF Evidence

\* The effects of the steps that touch a claim's scan status or a file.
LEMMA CreateEffect ==
  ASSUME Types, NEW p \in Callers, SubmitCreate(p)
  PROVE  \E k \in Claims :
           /\ proc[p].pc = "create" /\ k = proc[p].on /\ UNCHANGED file
           /\ \A i \in Claims : i # k => claim'[i] = claim[i]
           /\ \/ claim'[k] = claim[k]
              \/ claim'[k].status = "Pending" /\ claim'[k].scan = proc[p].arg
<1>1. PICK k \in Claims : k = proc[p].on /\ proc[p].pc = "create"
  BY DEF SubmitCreate, Types, Aimed, OnClaim, Procs
<1>2. \/ claim' = claim
      \/ claim' = [claim EXCEPT ![k].status = "Pending", ![k].scan = proc[p].arg]
  BY <1>1 DEF SubmitCreate
<1>3. claim[k] \in ClaimRow  BY DEF Types
<1>4. /\ \A i \in Claims : i # k => claim'[i] = claim[i]
      /\ claim'[k] = claim[k] \/ (claim'[k].status = "Pending" /\ claim'[k].scan = proc[p].arg)
  <2>1. CASE claim' = claim  BY <2>1
  <2>2. CASE claim' = [claim EXCEPT ![k].status = "Pending", ![k].scan = proc[p].arg]
    BY <1>3, <2>2 DEF Types, ClaimRow
  <2>3. QED BY <1>2, <2>1, <2>2
<1>5. UNCHANGED file  BY DEF SubmitCreate
<1>6. QED BY <1>1, <1>4, <1>5

LEMMA StampEffect ==
  ASSUME Types, NEW p \in Procs, Stamp(p)
  PROVE  \E k \in Claims :
           /\ proc[p].pc = "stamp" /\ k = proc[p].on /\ UNCHANGED file
           /\ For[k].file \in Files
           /\ \A i \in Claims : i # k => claim'[i] = claim[i]
           /\ claim'[k].status = claim[k].status /\ claim'[k].noticed = claim[k].noticed
           /\ claim'[k].scan = Verdict(k)
<1>1. PICK k \in Claims : k = proc[p].on /\ proc[p].pc = "stamp"
  BY DEF Stamp, Types, Aimed, OnClaim
<1>2. For[k].file \in Files  BY <1>1, ForTyped DEF Types, Aimed
<1>3. claim[k] \in ClaimRow /\ claim' = [claim EXCEPT ![k].scan = Verdict(k)]
  BY <1>1 DEF Stamp, Types
<1>4. UNCHANGED file  BY DEF Stamp
<1>5. QED BY <1>1, <1>2, <1>3, <1>4 DEF Types, ClaimRow

LEMMA ApproveEffect ==
  ASSUME Types, NEW p \in Callers, Approve(p)
  PROVE  \E k \in Claims :
           /\ proc[p].pc = "review" /\ k = proc[p].on /\ UNCHANGED file
           /\ \A i \in Claims : i # k => claim'[i] = claim[i]
           /\ claim[k].status = "Pending" /\ claim'[k].status = "Approved"
           /\ claim'[k].scan = claim[k].scan /\ claim'[k].noticed = claim[k].noticed
<1>1. PICK k \in Claims : k = proc[p].on /\ proc[p].pc = "review"
  BY DEF Approve, Types, Aimed, OnClaim, Procs
<1>2. claim[k].status = "Pending" /\ claim' = [claim EXCEPT ![k].status = "Approved"]
  BY <1>1 DEF Approve, ToApproved
<1>3. claim[k] \in ClaimRow /\ UNCHANGED file  BY DEF Types, Approve
<1>4. QED BY <1>1, <1>2, <1>3 DEF Types, ClaimRow

LEMMA EndsEffect ==
  ASSUME Types, NEW k \in Claims, Ends(k)
  PROVE  /\ claim[k].status \in Live /\ claim'[k].status \notin Live \cup {"none"}
         /\ claim'[k].status \in Granted => claim[k].status = "Approved"
         /\ claim[k].status = "Approved" => claim'[k].status \in Granted
         /\ claim'[k].scan = claim[k].scan /\ claim'[k].noticed = claim[k].noticed
         /\ \A i \in Claims : i # k => claim'[i] = claim[i]
<1>1. {"Rejected", "Withdrawn", "Revoked", "Expired"} \subseteq Statuses  BY DEF Statuses
<1>2. CASE ToTerminal(k, "Pending", "Rejected")
  BY <1>1, <1>2, ToTerminalEffect DEF Live, Granted
<1>3. CASE ToTerminal(k, "Pending", "Withdrawn")
  BY <1>1, <1>3, ToTerminalEffect DEF Live, Granted
<1>4. CASE ToTerminal(k, "Approved", "Revoked")
  BY <1>1, <1>4, ToTerminalEffect DEF Live, Granted
<1>5. CASE ToTerminal(k, "Approved", "Expired")
  BY <1>1, <1>5, ToTerminalEffect DEF Live, Granted
<1>6. QED BY <1>2, <1>3, <1>4, <1>5 DEF Ends

LEMMA VerdictEffect ==
  ASSUME Types, NEW p \in Consumers, ScanVerdict(p)
  PROVE  \E f \in Files :
           /\ proc[p].pc = "judged" /\ f = proc[p].arg /\ UNCHANGED claim
           /\ \A g \in Files : g # f => file'[g] = file[g]
           /\ file'[f].verdict \in {"Clean", "Quarantined"}
           /\ file'[f].owner = file[f].owner /\ file'[f].seen = file[f].seen
<1>1. PICK f \in Files : f = proc[p].arg /\ proc[p].pc = "judged"
  BY DEF ScanVerdict, Types, Aimed, OnFile, Procs
<1>2. PICK v \in {"Clean", "Quarantined"} : file' = [file EXCEPT ![f].verdict = v]
  BY <1>1 DEF ScanVerdict
<1>3. file[f] \in FileRow /\ UNCHANGED claim  BY DEF Types, ScanVerdict, rows
<1>4. QED BY <1>1, <1>2, <1>3 DEF Types, FileRow

LEMMA ReadEffect ==
  ASSUME Types, NEW p \in Consumers, NEW f \in Files, ScanRead(p, f)
  PROVE  /\ UNCHANGED claim /\ \A g \in Files : g # f => file'[g] = file[g]
         /\ ~file[f].seen /\ file'[f].seen
         /\ file'[f].verdict = file[f].verdict /\ file'[f].owner = file[f].owner
BY DEF Types, FileRow, ScanRead, rows

LEMMA LinkEffect ==
  ASSUME Types, NEW p \in Callers, SubmitLink(p)
  PROVE  \E k \in Claims, f \in Files :
           /\ proc[p].pc = "link" /\ k = proc[p].on /\ f = For[k].file /\ UNCHANGED claim
           /\ \A g \in Files : g # f => file'[g] = file[g]
           /\ file'[f].owner = k
           /\ file'[f].verdict = file[f].verdict /\ file'[f].seen = file[f].seen
<1>1. PICK k \in Claims : k = proc[p].on /\ proc[p].pc = "link"
  BY DEF SubmitLink, Types, Aimed, OnClaim, Procs
<1>2. For[k].file \in Files  BY <1>1, ForTyped DEF Types, Aimed, Procs
<1>3. PICK f \in Files : f = For[k].file  BY <1>2
<1>4. file[f] \in FileRow /\ file' = [file EXCEPT ![f].owner = k]
  BY <1>1, <1>3 DEF SubmitLink, Types
<1>5. UNCHANGED claim  BY DEF SubmitLink, rows
<1>6. QED BY <1>1, <1>3, <1>4, <1>5 DEF Types, FileRow

\* A verdict once given stays, a file once seen stays seen, and a claim that may be
\* reviewed may still be reviewed.
Stable ==
  /\ \A f \in Files : /\ file[f].verdict # "PendingScan" => file'[f].verdict = file[f].verdict
                      /\ file[f].seen => file'[f].seen
  /\ \A k \in Claims : claim[k].status # "none" =>
       /\ claim'[k].status # "none"
       /\ claim[k].scan \in {"None", "Clean"} => claim'[k].scan \in {"None", "Clean"}

LEMMA EvidenceIsStable == ASSUME Types, Types', Evidence, Creators, EvidenceStep PROVE Stable
<1>1. ASSUME NEW p \in Callers, SubmitCreate(p) PROVE Stable
  <2>1. p \in Procs  BY DEF Procs
  <2>2. QED BY <1>1, <2>1, CreateEffect DEF Stable, Creators
<1>2. ASSUME NEW p \in Procs, Stamp(p) PROVE Stable
  <2>1. PICK k \in Claims :
           /\ proc[p].pc = "stamp" /\ k = proc[p].on /\ UNCHANGED file
           /\ For[k].file \in Files
           /\ \A i \in Claims : i # k => claim'[i] = claim[i]
           /\ claim'[k].status = claim[k].status /\ claim'[k].noticed = claim[k].noticed
           /\ claim'[k].scan = Verdict(k)
    BY <1>2, StampEffect
  <2>2. claim[k].status # "none" /\ claim[k].scan \in {"None", "Clean"} => Verdict(k) = "Clean"
    BY <2>1, NoneAssumption DEF NoneAssumption, Evidence, Scanned
  <2>3. QED BY <2>1, <2>2 DEF Stable
<1>3. ASSUME NEW p \in Callers, SubmitLink(p) PROVE Stable  BY <1>3, LinkEffect DEF Stable
<1>4. ASSUME NEW p \in Callers, Approve(p) PROVE Stable  BY <1>4, ApproveEffect DEF Stable
<1>5. ASSUME NEW k \in Claims, Ends(k), UNCHANGED file PROVE Stable
  BY <1>5, EndsEffect DEF Stable
<1>6. ASSUME NEW p \in Consumers, ScanVerdict(p) PROVE Stable
  <2>1. p \in Procs  BY DEF Procs
  <2>2. Careful(p)  BY <2>1 DEF Evidence
  <2>3. QED BY <1>6, <2>2, VerdictEffect DEF Stable, Careful
<1>7. ASSUME NEW p \in Consumers, NEW f \in Files, ScanRead(p, f) PROVE Stable
  BY <1>7, ReadEffect DEF Stable
<1>8. ASSUME UNCHANGED file, \A k \in Claims : claim'[k].status = claim[k].status
                                              /\ claim'[k].scan = claim[k].scan
      PROVE  Stable
  BY <1>8 DEF Stable
<1>9. QED BY <1>1, <1>2, <1>3, <1>4, <1>5, <1>6, <1>7, <1>8 DEF EvidenceStep

LEMMA StepScanned == ASSUME Types, Types', Evidence, Creators, EvidenceStep PROVE Scanned'
<1>0. \A k \in Claims : For[k].file # NoFile => For[k].file \in Files  BY ForTyped
<1>1. ASSUME UNCHANGED claim, \A f \in Files : \/ file'[f].verdict = file[f].verdict
                                              \/ file[f].verdict = "PendingScan"
      PROVE  Scanned'
  BY <1>0, <1>1 DEF Evidence, Scanned, Verdict
<1>2. ASSUME NEW p \in Callers, SubmitCreate(p) PROVE Scanned'
  <2>1. p \in Procs  BY DEF Procs
  <2>2. PICK k \in Claims :
           /\ proc[p].pc = "create" /\ k = proc[p].on /\ UNCHANGED file
           /\ \A i \in Claims : i # k => claim'[i] = claim[i]
           /\ \/ claim'[k] = claim[k]
              \/ claim'[k].status = "Pending" /\ claim'[k].scan = proc[p].arg
    BY <1>2, CreateEffect
  <2>3. Careful(p)  BY <2>1 DEF Evidence
  <2>4. For[k].file # NoFile => Verdict(k) # "None"
    BY <1>0 DEF Verdict, Types, FileRow
  <2>5. QED BY <2>2, <2>3, <2>4 DEF Evidence, Scanned, Careful, Verdict, Granted
<1>3. ASSUME NEW p \in Procs, Stamp(p) PROVE Scanned'
  <2>1. PICK k \in Claims :
           /\ proc[p].pc = "stamp" /\ k = proc[p].on /\ UNCHANGED file
           /\ For[k].file \in Files
           /\ \A i \in Claims : i # k => claim'[i] = claim[i]
           /\ claim'[k].status = claim[k].status /\ claim'[k].noticed = claim[k].noticed
           /\ claim'[k].scan = Verdict(k)
    BY <1>3, StampEffect
  <2>2. For[k].file # NoFile  BY <2>1, NoneAssumption DEF NoneAssumption
  <2>3. Verdict(k) # "None"  BY <2>1 DEF Verdict, Types, FileRow
  <2>4. claim[k].status \in Granted => Verdict(k) = "Clean"
    <3>1. Careful(p)  BY DEF Evidence
    <3>2. QED BY <2>1, <2>2, <3>1 DEF Evidence, Scanned, Careful, Granted
  <2>5. \A i \in Claims : Verdict(i)' = Verdict(i)  BY <2>1 DEF Verdict
  <2>6. QED BY <2>1, <2>2, <2>3, <2>4, <2>5 DEF Evidence, Scanned
<1>4. ASSUME NEW p \in Callers, SubmitLink(p) PROVE Scanned'  BY <1>1, <1>4, LinkEffect
<1>5. ASSUME NEW p \in Callers, Approve(p) PROVE Scanned'
  <2>1. p \in Procs  BY DEF Procs
  <2>2. Careful(p)  BY <2>1 DEF Evidence
  <2>3. QED BY <1>5, <2>2, ApproveEffect DEF Evidence, Scanned, Careful, Verdict, Granted
<1>6. ASSUME NEW k \in Claims, Ends(k), UNCHANGED file PROVE Scanned'
  BY <1>6, EndsEffect DEF Evidence, Scanned, Verdict, Granted, Live
<1>7. ASSUME NEW p \in Consumers, ScanVerdict(p) PROVE Scanned'
  <2>1. p \in Procs  BY DEF Procs
  <2>2. Careful(p)  BY <2>1 DEF Evidence
  <2>3. QED BY <1>1, <1>7, <2>2, VerdictEffect DEF Careful
<1>8. ASSUME NEW p \in Consumers, NEW f \in Files, ScanRead(p, f) PROVE Scanned'
  BY <1>1, <1>8, ReadEffect
<1>9. ASSUME UNCHANGED file, \A k \in Claims : claim'[k].status = claim[k].status
                                              /\ claim'[k].scan = claim[k].scan
      PROVE  Scanned'
  BY <1>9 DEF Evidence, Scanned, Verdict
<1>10. QED BY <1>2, <1>3, <1>4, <1>5, <1>6, <1>7, <1>8, <1>9 DEF EvidenceStep

LEMMA StepOwned == ASSUME Types, Types', Evidence, Stable, EvidenceStep PROVE Owned'
<1>0. \A f \in Files : file[f].owner \in Claims \cup {NoClaim}  BY DEF Types, FileRow
<1>1. ASSUME NEW p \in Callers, SubmitLink(p) PROVE Owned'
  <2>1. p \in Procs  BY DEF Procs
  <2>2. PICK k \in Claims, f \in Files :
           /\ proc[p].pc = "link" /\ k = proc[p].on /\ f = For[k].file /\ UNCHANGED claim
           /\ \A g \in Files : g # f => file'[g] = file[g]
           /\ file'[f].owner = k
           /\ file'[f].verdict = file[f].verdict /\ file'[f].seen = file[f].seen
    BY <1>1, LinkEffect
  <2>3. claim'[k].status # "none"  BY <2>1, <2>2 DEF Evidence, Careful
  <2>4. QED BY <2>2, <2>3 DEF Evidence, Owned
<1>2. ASSUME \A f \in Files : file'[f].owner = file[f].owner PROVE Owned'
  BY <1>0, <1>2 DEF Evidence, Owned, Stable
<1>3. ASSUME UNCHANGED file PROVE Owned'  BY <1>2, <1>3
<1>4. ASSUME NEW p \in Consumers, ScanVerdict(p) PROVE Owned'  BY <1>2, <1>4, VerdictEffect
<1>5. ASSUME NEW p \in Consumers, NEW f \in Files, ScanRead(p, f) PROVE Owned'
  BY <1>2, <1>5, ReadEffect
<1>6. ASSUME NEW p \in Callers, SubmitCreate(p) \/ Approve(p) PROVE Owned'
  BY <1>3, <1>6 DEF SubmitCreate, Approve
<1>7. ASSUME NEW p \in Procs, Stamp(p) PROVE Owned'  BY <1>3, <1>7 DEF Stamp
<1>8. QED BY <1>1, <1>3, <1>4, <1>5, <1>6, <1>7 DEF EvidenceStep

\* Who moves, and where to; the rest is for the actions that read something.
Unmoved == \A q \in Procs : /\ proc'[q].pc = proc[q].pc /\ proc'[q].on = proc[q].on
                            /\ proc'[q].arg = proc[q].arg
Reading(p) ==
  \/ p \in Callers /\ (\E k \in Claims : SubmitCheck(p, k) \/ Review(p, k))
  \/ p \in Callers /\ (SubmitCreate(p) \/ SubmitLink(p))
  \/ p \in Consumers /\ ((\E f \in Files : ScanRead(p, f)) \/ ScanVerdict(p) \/ ScanOwner(p))
  \/ ReadClaim(p) \/ ReadPointer(p) \/ Stamp(p)
Telling(p) ==
  \/ p \in Callers /\ ((\E k \in Claims : Revoke(p, k)) \/ Approve(p) \/ Reject(p))
  \/ p \in Consumers /\ (\E k \in Claims : SystemReject(p, k))
  \/ \E k \in Claims : Expire(p, k) /\ proc'[p].pc = "tell"
  \/ \E k \in Claims : Notice(p, k) /\ proc'[p].pc = "tell"
Ending(p) ==
  \/ (p \in Callers /\ Conflict(p)) \/ Publish(p) \/ Die(p) \/ \E k \in Claims : Watch(p, k)

\* A step moves one invocation or none.
InvocationStep ==
  \/ Unmoved /\ UNCHANGED <<file, told, crashes>>
     /\ \A k \in Claims : claim'[k].noticed = claim[k].noticed /\ claim'[k].scan = claim[k].scan
  \/ \E p \in Procs : Alone(p) /\ (Reading(p) \/ Telling(p) \/ Ending(p))

LEMMA TellingEffect ==
  ASSUME Types, Types', NEW p \in Procs, Telling(p)
  PROVE  /\ Alone(p) /\ proc'[p].pc = "tell" /\ UNCHANGED <<file, told, crashes>>
         /\ \A k \in Claims : claim'[k].scan = claim[k].scan
         /\ proc[p].pc \in {"idle", "review"}
<1>1. ASSUME NEW k \in Claims, Revoke(p, k) \/ SystemReject(p, k)
      PROVE  /\ Alone(p) /\ proc'[p].pc = "tell" /\ UNCHANGED <<file, told, crashes>>
             /\ \A i \in Claims : claim'[i].scan = claim[i].scan
             /\ proc[p].pc \in {"idle", "review"}
  <2>1. Ends(k) /\ \E e \in Events : Tell(p, k, e)
    BY <1>1 DEF Revoke, SystemReject, Ends, Events
  <2>2. Alone(p) /\ proc'[p].pc = "tell"  BY <2>1, TellStep
  <2>3. QED BY <1>1, <2>1, <2>2, EndsEffect DEF Revoke, SystemReject, IsIdle
<1>2. ASSUME Approve(p) \/ Reject(p)
      PROVE  /\ Alone(p) /\ proc'[p].pc = "tell" /\ UNCHANGED <<file, told, crashes>>
             /\ \A i \in Claims : claim'[i].scan = claim[i].scan
             /\ proc[p].pc \in {"idle", "review"}
  <2>1. PICK k \in Claims : k = proc[p].on /\ proc[p].pc = "review"
    BY <1>2 DEF Approve, Reject, Types, Aimed, OnClaim
  <2>2. \E e \in Events : Tell(p, k, e)  BY <1>2, <2>1 DEF Approve, Reject, Events
  <2>3. Alone(p) /\ proc'[p].pc = "tell"  BY <2>2, TellStep
  <2>4. \A i \in Claims : claim'[i].scan = claim[i].scan
    <3>1. CASE Reject(p)  BY <2>1, <3>1, EndsEffect DEF Reject, Ends
    <3>2. CASE Approve(p)
      <4>1. claim' = [claim EXCEPT ![k].status = "Approved"]
        BY <2>1, <3>2 DEF Approve, ToApproved
      <4>2. QED BY <4>1 DEF Types, ClaimRow
    <3>3. QED BY <1>2, <3>1, <3>2
  <2>5. QED BY <1>2, <2>1, <2>3, <2>4 DEF Approve, Reject
<1>3. ASSUME NEW k \in Claims, Expire(p, k), proc'[p].pc = "tell"
      PROVE  /\ Alone(p) /\ proc'[p].pc = "tell" /\ UNCHANGED <<file, told, crashes>>
             /\ \A i \in Claims : claim'[i].scan = claim[i].scan
             /\ proc[p].pc \in {"idle", "review"}
  <2>1. CASE ToTerminal(k, "Approved", "Expired") /\ Take(p, Row(k, "expire"), "tell", "Expired")
    <3>1. Alone(p)  BY <2>1, TakeStep DEF Events
    <3>2. QED BY <1>3, <2>1, <3>1, EndsEffect DEF Expire, Ends
  <2>2. CASE Drop(p, Row(k, "expire"))
    BY <1>3, <2>2, DropStep DEF Expire
  <2>3. QED BY <1>3, <2>1, <2>2 DEF Expire
<1>4. ASSUME NEW k \in Claims, Notice(p, k), proc'[p].pc = "tell"
      PROVE  /\ Alone(p) /\ proc'[p].pc = "tell" /\ UNCHANGED <<file, told, crashes>>
             /\ \A i \in Claims : claim'[i].scan = claim[i].scan
             /\ proc[p].pc \in {"idle", "review"}
  <2>1. Alone(p)  BY <1>4, TakeStep, DropStep DEF Notice, Events
  <2>2. \A i \in Claims : claim'[i].scan = claim[i].scan
    <3>1. claim' = claim \/ claim' = [claim EXCEPT ![k].noticed = TRUE]  BY <1>4 DEF Notice
    <3>2. \A i \in Claims : claim[i] \in ClaimRow  BY DEF Types
    <3>3. QED BY <3>1, <3>2 DEF Types, ClaimRow
  <2>3. QED BY <1>4, <2>1, <2>2 DEF Notice
<1>5. QED BY <1>1, <1>2, <1>3, <1>4 DEF Telling

LEMMA EndingEffect ==
  ASSUME Types, NEW p \in Procs, Ending(p)
  PROVE  /\ Alone(p) /\ proc'[p].pc \in {"idle", "reconcile"} /\ UNCHANGED <<claim, file>>
         /\ proc[p].pc \in {"idle", "review", "tell"} \/ Die(p)
<1>1. CASE Conflict(p)  BY <1>1, DoneStep DEF Conflict, rows
<1>2. CASE Publish(p)  BY <1>2, DoneStep DEF Publish, rows
<1>3. CASE Die(p)  BY <1>3, IdleTyped, BeginStep DEF Die, rows
<1>4. ASSUME NEW k \in Claims, Watch(p, k)
      PROVE  /\ Alone(p) /\ proc'[p].pc \in {"idle", "reconcile"} /\ UNCHANGED <<claim, file>>
             /\ proc[p].pc \in {"idle", "review", "tell"} \/ Die(p)
  BY <1>4, TakeStep DEF Watch, rows
<1>5. QED BY <1>1, <1>2, <1>3, <1>4 DEF Ending

\* Where a reading step leads, and from where.
LEMMA ReadingEffect ==
  ASSUME Types, NEW p \in Procs, Reading(p)
  PROVE  Alone(p) /\ UNCHANGED <<told, crashes>>
<1>1. ASSUME NEW k \in Claims, SubmitCheck(p, k) PROVE Alone(p)
  BY <1>1 DEF SubmitCheck, Types, Alone
<1>2. ASSUME NEW k \in Claims, Review(p, k) PROVE Alone(p)
  BY <1>2, GotoStep DEF Review, OnClaim
<1>3. ASSUME NEW f \in Files, ScanRead(p, f) PROVE Alone(p)
  BY <1>3 DEF ScanRead, Types, Alone
<1>4. CASE SubmitCreate(p) \/ SubmitLink(p) \/ ReadClaim(p) \/ ReadPointer(p) \/ Stamp(p)
  <2>1. proc[p].on \in Claims
    BY <1>4 DEF SubmitCreate, SubmitLink, ReadClaim, ReadPointer, Stamp, Types, Aimed, OnClaim
  <2>2. Done(p) \/ \E pc \in OnClaim : Goto(p, pc, proc[p].on)
    BY <1>4 DEF SubmitCreate, SubmitLink, ReadClaim, ReadPointer, Stamp, OnClaim
  <2>3. QED BY <1>4, <2>1, <2>2, DoneStep, GotoStep
     DEF SubmitCreate, SubmitLink, ReadClaim, ReadPointer, Stamp
<1>5. CASE ScanVerdict(p)
  <2>1. proc[p].on \in Claims \cup {NoClaim}  BY DEF Types, Invocation
  <2>2. QED BY <1>5, <2>1, GotoStep DEF ScanVerdict, OnFile
<1>6. CASE ScanOwner(p)
  <2>1. file[proc[p].arg].owner \in Claims \cup {NoClaim}
    BY <1>6 DEF ScanOwner, Types, Aimed, OnFile, FileRow
  <2>2. QED BY <1>6, <2>1, DoneStep, GotoStep DEF ScanOwner, OnClaim
<1>7. UNCHANGED <<told, crashes>>
  BY DEF Reading, SubmitCheck, Review, SubmitCreate, SubmitLink, ScanRead, ScanVerdict, ScanOwner,
         ReadClaim, ReadPointer, Stamp
<1>8. QED BY <1>1, <1>2, <1>3, <1>4, <1>5, <1>6, <1>7 DEF Reading

LEMMA StepsOfInvocations == ASSUME Types, Types', Simple PROVE InvocationStep
<1>0. Callers \subseteq Procs /\ Consumers \subseteq Procs  BY DEF Procs
<1>1. ASSUME NEW p \in Procs, Reading(p) \/ Telling(p) \/ Ending(p) PROVE InvocationStep
  BY <1>1, ReadingEffect, TellingEffect, EndingEffect DEF InvocationStep
<1>2. ASSUME NEW p \in Procs, NEW k \in Claims, Expire(p, k) \/ Notice(p, k) PROVE InvocationStep
  <2>1. CASE proc'[p].pc = "tell"  BY <1>1, <1>2, <2>1 DEF Telling
  <2>2. CASE proc'[p].pc # "tell"
    <3>1. CASE Expire(p, k)
      <4>1. ~Take(p, Row(k, "expire"), "tell", "Expired")
        BY <2>2, TakeStep DEF Events
      <4>2. Drop(p, Row(k, "expire")) /\ UNCHANGED rows  BY <3>1, <4>1 DEF Expire
      <4>3. Unmoved  BY <4>2, DropStep DEF Alone, Unmoved
      <4>4. QED BY <3>1, <4>2, <4>3 DEF Expire, rows, InvocationStep
    <3>2. CASE Notice(p, k)
      <4>1. ~Take(p, Row(k, "notice"), "tell", "ExpiringSoon")
        BY <2>2, TakeStep DEF Events
      <4>2. Drop(p, Row(k, "notice")) /\ UNCHANGED claim  BY <3>2, <4>1 DEF Notice
      <4>3. Unmoved  BY <4>2, DropStep DEF Alone, Unmoved
      <4>4. QED BY <3>2, <4>2, <4>3 DEF Notice, InvocationStep
    <3>3. QED BY <1>2, <3>1, <3>2
  <2>3. QED BY <2>1, <2>2
<1>3. ASSUME NEW p \in Procs, WatchList(p) \/ SweepList(p) PROVE InvocationStep
  <2>1. Unmoved  BY <1>3 DEF WatchList, SweepList, Unmoved, Types, Invocation
  <2>2. QED BY <1>3, <2>1 DEF WatchList, SweepList, rows, InvocationStep
<1>4. ASSUME NEW k \in Claims, Withdraw(k) PROVE InvocationStep
  <2>1. Ends(k)  BY <1>4 DEF Withdraw, Ends
  <2>2. QED BY <1>4, <2>1, EndsEffect DEF Withdraw, Unmoved, InvocationStep
<1>5. Tick => InvocationStep  BY DEF Tick, rows, Unmoved, InvocationStep
<1>6. QED BY <1>0, <1>1, <1>2, <1>3, <1>4, <1>5 DEF Simple, Reading, Telling, Ending

LEMMA StepCareful ==
  ASSUME Types, Types', Evidence, Creators, Stable, InvocationStep, Scanned'
  PROVE  \A p \in Procs : Careful(p)'
<1>f. \A k \in Claims : For[k].file # NoFile => For[k].file \in Files  BY ForTyped
<1>v. ASSUME NEW k \in Claims, For[k].file # NoFile
      PROVE  /\ Verdict(k) # "PendingScan" => Verdict(k)' = Verdict(k)
             /\ Verdict(k)' # "None"
  BY <1>f, <1>v DEF Stable, Verdict, Types, FileRow
\* An invocation that stays where it is stays careful, if nobody judges its file.
<1>0. ASSUME NEW q \in Procs, proc'[q].pc = proc[q].pc, proc'[q].on = proc[q].on,
             proc'[q].arg = proc[q].arg,
             proc[q].pc = "judged" => file'[proc[q].arg].verdict = file[proc[q].arg].verdict
      PROVE  Careful(q)'
  <2>1. Careful(q) /\ Aimed(q)  BY DEF Evidence, Types
  <2>2. CASE proc[q].pc = "create"
    <3>1. PICK k \in Claims : k = proc[q].on  BY <2>1, <2>2 DEF Aimed, OnClaim
    <3>2. QED BY <1>0, <1>v, <2>1, <2>2, <3>1 DEF Careful, Verdict
  <2>3. CASE proc[q].pc = "stamp"
    <3>1. PICK k \in Claims : k = proc[q].on  BY <2>1, <2>3 DEF Aimed, OnClaim
    <3>2. For[k].file # NoFile  BY <2>1, <2>3, <3>1 DEF Aimed
    <3>3. QED BY <1>0, <1>v, <2>1, <2>3, <3>1, <3>2 DEF Careful, Verdict
  <2>4. CASE proc[q].pc \in {"link", "review"}
    <3>1. PICK k \in Claims : k = proc[q].on  BY <2>1, <2>4 DEF Aimed, OnClaim
    <3>2. QED BY <1>0, <2>1, <2>4, <3>1 DEF Careful, Stable
  <2>5. CASE proc[q].pc = "judged"
    <3>1. PICK f \in Files : f = proc[q].arg  BY <2>1, <2>5 DEF Aimed, OnFile
    <3>2. QED BY <1>0, <2>1, <2>5, <3>1 DEF Careful, Stable
  <2>6. CASE proc[q].pc \notin {"create", "link", "stamp", "review", "judged"}
    BY <1>0, <2>6 DEF Careful
  <2>7. QED BY <2>2, <2>3, <2>4, <2>5, <2>6
<1>1. ASSUME NEW p \in Procs, proc'[p].pc \notin {"create", "link", "stamp", "review", "judged"}
      PROVE  Careful(p)'
  BY <1>1 DEF Careful
<1>2. CASE Unmoved /\ UNCHANGED file
  BY <1>0, <1>2 DEF Unmoved
<1>3. ASSUME NEW p \in Procs, Alone(p), Reading(p) \/ Telling(p) \/ Ending(p)
      PROVE  \A q \in Procs : Careful(q)'
  <2>1. ASSUME NEW q \in Procs, q # p PROVE Careful(q)'
    <3>1. proc'[q] = proc[q]  BY <1>3, <2>1 DEF Alone
    <3>2. proc[q].pc = "judged" => file'[proc[q].arg].verdict = file[proc[q].arg].verdict
      <4>1. SUFFICES ASSUME proc[q].pc = "judged"
                     PROVE  file'[proc[q].arg].verdict = file[proc[q].arg].verdict
        OBVIOUS
      <4>2. PICK f \in Files : f = proc[q].arg  BY <4>1 DEF Types, Aimed, OnFile
      <4>3. CASE ScanVerdict(p) /\ p \in Consumers
        <5>1. PICK g \in Files : /\ proc[p].pc = "judged" /\ g = proc[p].arg
                                 /\ \A h \in Files : h # g => file'[h] = file[h]
          BY <4>3, VerdictEffect
        <5>2. f # g  BY <2>1, <4>1, <4>2, <5>1 DEF Evidence, Judges
        <5>3. QED BY <4>2, <5>1, <5>2
      <4>4. CASE p \in Consumers /\ \E g \in Files : ScanRead(p, g)  BY <4>2, <4>4, ReadEffect
      <4>5. CASE p \in Callers /\ SubmitLink(p)  BY <4>2, <4>5, LinkEffect
      <4>6. CASE UNCHANGED file  BY <4>6
      <4>7. CASE Reading(p)
        BY <4>3, <4>4, <4>5, <4>6, <4>7
           DEF Reading, SubmitCheck, Review, SubmitCreate, ScanOwner, ReadClaim, ReadPointer, Stamp
      <4>8. QED BY <1>3, <4>6, <4>7, TellingEffect, EndingEffect
    <3>3. QED BY <1>0, <3>1, <3>2
  <2>2. Careful(p)'
    <3>1. CASE Telling(p) \/ Ending(p)
      BY <1>1, <3>1, TellingEffect, EndingEffect
    <3>2. ASSUME NEW k \in Claims, SubmitCheck(p, k) PROVE Careful(p)'
      <4> DEFINE a == IF For[k].file = NoFile THEN "None" ELSE file[For[k].file].verdict
                 r == [Idle EXCEPT !.pc = "create", !.on = k, !.arg = a]
      <4>1. proc' = [proc EXCEPT ![p] = r] /\ UNCHANGED file  BY <3>2 DEF SubmitCheck
      <4>2. r.pc = "create" /\ r.on = k /\ r.arg = a  BY DEF Idle
      <4>3. proc'[p].pc = "create" /\ proc'[p].on = k /\ proc'[p].arg = a
        BY <4>1, <4>2 DEF Types
      <4>4. QED BY <4>1, <4>3 DEF Careful, Verdict
    <3>3. ASSUME NEW k \in Claims, Review(p, k) PROVE Careful(p)'
      <4>1. proc'[p].pc = "review" /\ proc'[p].on = k  BY <3>3, GotoStep DEF Review, OnClaim
      <4>2. UNCHANGED claim /\ claim[k].status = "Pending" /\ claim[k].scan \in {"None", "Clean"}
        BY <3>3 DEF Review, rows
      <4>3. QED BY <4>1, <4>2 DEF Careful
    <3>4. ASSUME SubmitCreate(p) PROVE Careful(p)'
      <4>1. PICK k \in Claims : k = proc[p].on
        BY <3>4 DEF SubmitCreate, Types, Aimed, OnClaim
      <4>2. CASE Goto(p, "link", k) /\ slot[SlotOf(k)].claim = NoClaim
        <5>1. proc'[p].pc = "link" /\ proc'[p].on = k  BY <4>2, GotoStep DEF OnClaim
        <5>2. claim' = [claim EXCEPT ![k].status = "Pending", ![k].scan = proc[p].arg]
          BY <3>4, <4>1, <4>2 DEF SubmitCreate
        <5>3. claim'[k].status = "Pending"  BY <5>2 DEF Types, ClaimRow
        <5>4. QED BY <5>1, <5>3 DEF Careful
      <4>3. CASE Done(p)  BY <1>1, <4>3, DoneStep
      <4>4. QED BY <3>4, <4>1, <4>2, <4>3 DEF SubmitCreate
    <3>5. ASSUME ReadPointer(p) PROVE Careful(p)'
      <4>1. PICK k \in Claims : k = proc[p].on
        BY <3>5 DEF ReadPointer, Types, Aimed, OnClaim
      <4>2. CASE Goto(p, "stamp", k) /\ Verdict(k) # "PendingScan"
        <5>1. proc'[p].pc = "stamp" /\ proc'[p].on = k  BY <4>2, GotoStep DEF OnClaim
        <5>2. UNCHANGED file  BY <3>5 DEF ReadPointer
        <5>3. QED BY <4>2, <5>1, <5>2 DEF Careful, Verdict
      <4>3. CASE Done(p)  BY <1>1, <4>3, DoneStep
      <4>4. QED BY <3>5, <4>1, <4>2, <4>3 DEF ReadPointer
    <3>6. ASSUME NEW f \in Files, ScanRead(p, f), p \in Consumers PROVE Careful(p)'
      <4>1. proc'[p].pc = "judged" /\ proc'[p].arg = f  BY <3>6 DEF ScanRead, Types, Idle
      <4>2. file[f].verdict = "PendingScan"  BY <3>6 DEF ScanRead, Evidence, Judges
      <4>3. QED BY <3>6, <4>1, <4>2, ReadEffect DEF Careful
    <3>7. CASE SubmitLink(p) \/ ReadClaim(p) \/ Stamp(p)
      <4>1. PICK k \in Claims : k = proc[p].on
        BY <3>7 DEF SubmitLink, ReadClaim, Stamp, Types, Aimed, OnClaim
      <4>2. Done(p) \/ Goto(p, "reconcile", k) \/ Goto(p, "pointer", k)
        BY <3>7, <4>1 DEF SubmitLink, ReadClaim, Stamp
      <4>3. QED BY <1>1, <4>2, DoneStep, GotoStep DEF OnClaim
    <3>8. CASE ScanVerdict(p) \/ ScanOwner(p)
      <4>1. file[proc[p].arg].owner \in Claims \cup {NoClaim} /\ proc[p].on \in Claims \cup {NoClaim}
        BY <3>8 DEF ScanVerdict, ScanOwner, Types, Aimed, OnFile, FileRow, Invocation
      <4>2. Done(p) \/ Goto(p, "owner", proc[p].on) \/ Goto(p, "reconcile", file[proc[p].arg].owner)
        BY <3>8 DEF ScanVerdict, ScanOwner
      <4>3. QED BY <1>1, <4>1, <4>2, DoneStep, GotoStep DEF OnClaim, OnFile
    <3>9. QED BY <1>3, <3>1, <3>2, <3>3, <3>4, <3>5, <3>6, <3>7, <3>8 DEF Reading
  <2>3. QED BY <2>1, <2>2
<1>4. QED BY <1>2, <1>3 DEF InvocationStep

LEMMA StepJudges == ASSUME Types, Types', Evidence, Stable, InvocationStep, EvidenceStep PROVE Judges'
<1>1. \A f \in Files : file'[f].verdict # "PendingScan" => file'[f].seen
  <2>1. ASSUME NEW p \in Consumers, ScanVerdict(p)
        PROVE  \A f \in Files : file'[f].verdict # "PendingScan" => file'[f].seen
    <3>1. p \in Procs  BY DEF Procs
    <3>2. Careful(p)  BY <3>1 DEF Evidence
    <3>3. QED BY <2>1, <3>2, VerdictEffect DEF Careful, Evidence, Judges
  <2>2. ASSUME NEW p \in Consumers, NEW f \in Files, ScanRead(p, f)
        PROVE  \A g \in Files : file'[g].verdict # "PendingScan" => file'[g].seen
    BY <2>2, ReadEffect DEF Evidence, Judges
  <2>3. ASSUME NEW p \in Callers, SubmitLink(p)
        PROVE  \A g \in Files : file'[g].verdict # "PendingScan" => file'[g].seen
    BY <2>3, LinkEffect DEF Evidence, Judges
  <2>4. CASE UNCHANGED file  BY <2>4 DEF Evidence, Judges
  <2>5. QED BY <2>1, <2>2, <2>3, <2>4 DEF EvidenceStep, SubmitCreate, Approve, Stamp
<1> DEFINE Unique == \A p, q \in Procs : proc[p].pc = "judged" /\ proc[q].pc = "judged"
                                         /\ proc[p].arg = proc[q].arg => p = q
<1>2. Unique'
  <2>1. CASE Unmoved  BY <2>1 DEF Unmoved, Evidence, Judges
  <2>2. ASSUME NEW p \in Procs, Alone(p), proc'[p].pc # "judged" PROVE Unique'
    BY <2>2 DEF Alone, Evidence, Judges
  <2>3. ASSUME NEW p \in Procs, NEW f \in Files, ScanRead(p, f), Alone(p) PROVE Unique'
    <3>1. proc'[p].pc = "judged" /\ proc'[p].arg = f  BY <2>3 DEF ScanRead, Types, Idle
    <3>2. ~file[f].seen  BY <2>3 DEF ScanRead
    <3>3. \A q \in Procs : proc[q].pc = "judged" => proc[q].arg # f
      BY <3>2 DEF Evidence, Careful
    <3>4. QED BY <2>3, <3>1, <3>3 DEF Alone, Evidence, Judges
  <2>4. ASSUME NEW p \in Procs, Alone(p), Reading(p) PROVE Unique'
    <3>1. CASE \E f \in Files : ScanRead(p, f)  BY <2>3, <2>4, <3>1
    <3>2. CASE \E k \in Claims : SubmitCheck(p, k) \/ Review(p, k)
      <4>1. proc'[p].pc # "judged"
        <5>1. ASSUME NEW k \in Claims, SubmitCheck(p, k) PROVE proc'[p].pc # "judged"
          BY <5>1 DEF SubmitCheck, Types, Idle
        <5>2. ASSUME NEW k \in Claims, Review(p, k) PROVE proc'[p].pc # "judged"
          BY <5>2, GotoStep DEF Review, OnClaim
        <5>3. QED BY <3>2, <5>1, <5>2
      <4>2. QED BY <2>2, <2>4, <4>1
    <3>3. CASE SubmitCreate(p) \/ SubmitLink(p) \/ ReadClaim(p) \/ ReadPointer(p) \/ Stamp(p)
      <4>1. PICK k \in Claims : k = proc[p].on
        BY <3>3 DEF SubmitCreate, SubmitLink, ReadClaim, ReadPointer, Stamp, Types, Aimed, OnClaim
      <4>2. Done(p) \/ \E pc \in OnClaim : Goto(p, pc, k)
        BY <3>3, <4>1 DEF SubmitCreate, SubmitLink, ReadClaim, ReadPointer, Stamp, OnClaim
      <4>3. proc'[p].pc # "judged"  BY <4>2, DoneStep, GotoStep DEF OnClaim
      <4>4. QED BY <2>2, <2>4, <4>3
    <3>4. CASE ScanVerdict(p) \/ ScanOwner(p)
      <4>1. file[proc[p].arg].owner \in Claims \cup {NoClaim} /\ proc[p].on \in Claims \cup {NoClaim}
        BY <3>4 DEF ScanVerdict, ScanOwner, Types, Aimed, OnFile, FileRow, Invocation
      <4>2. Done(p) \/ Goto(p, "owner", proc[p].on) \/ Goto(p, "reconcile", file[proc[p].arg].owner)
        BY <3>4 DEF ScanVerdict, ScanOwner
      <4>3. proc'[p].pc # "judged"
        BY <4>1, <4>2, DoneStep, GotoStep DEF OnClaim, OnFile
      <4>4. QED BY <2>2, <2>4, <4>3
    <3>5. QED BY <2>4, <3>1, <3>2, <3>3, <3>4 DEF Reading
  <2>5. ASSUME NEW p \in Procs, Alone(p), Telling(p) \/ Ending(p) PROVE Unique'
    BY <2>2, <2>5, TellingEffect, EndingEffect
  <2>6. QED BY <2>1, <2>4, <2>5 DEF InvocationStep
<1>3. QED BY <1>1, <1>2 DEF Judges

-----------------------------------------------------------------------------
(* Evidence converges. *)

\* The invocation p is about to look at the owner of f, or at the verdict on it.
Looks(p, f) ==
  \/ proc[p].pc \in {"reconcile", "pointer", "stamp"} /\ proc[p].on = file[f].owner
  \/ proc[p].pc = "owner" /\ proc[p].arg = f

Workers == Callers \cup Consumers

Converging ==
  crashes = 0 =>
    \A f \in Files : file[f].owner # NoClaim /\ file[f].verdict # "PendingScan" =>
      claim[file[f].owner].scan = file[f].verdict \/ \E p \in Workers : Looks(p, f)

LEMMA StepConverging ==
  ASSUME Types, Types', Evidence, Creators, Converging, Stable, InvocationStep
  PROVE  Converging'
<1>w. Workers \subseteq Procs  BY DEF Workers, Procs
<1>o. \A f \in Files : file[f].owner \in Claims \cup {NoClaim}  BY DEF Types, FileRow
\* Who does not look may move, as long as rows and files stay.
<1>0. ASSUME UNCHANGED <<file, crashes>>, \A k \in Claims : claim'[k].scan = claim[k].scan,
             \A q \in Workers, f \in Files : Looks(q, f) => Looks(q, f)'
      PROVE  Converging'
  BY <1>0, <1>o DEF Converging
<1>1. ASSUME NEW p \in Procs, Alone(p), proc[p].pc \notin {"reconcile", "pointer", "stamp", "owner"},
             UNCHANGED file
      PROVE  \A q \in Workers, f \in Files : Looks(q, f) => Looks(q, f)'
  BY <1>1, <1>w DEF Alone, Looks
<1>2. CASE Unmoved /\ UNCHANGED <<file, told, crashes>>
           /\ \A k \in Claims : claim'[k].noticed = claim[k].noticed /\ claim'[k].scan = claim[k].scan
  <2>1. \A q \in Workers, f \in Files : Looks(q, f) => Looks(q, f)'
    BY <1>2, <1>w DEF Unmoved, Looks
  <2>2. QED BY <1>0, <1>2, <2>1
<1>3. ASSUME NEW p \in Procs, Telling(p) PROVE Converging'
  BY <1>0, <1>1, <1>3, TellingEffect
<1>4. ASSUME NEW p \in Procs, Ending(p) PROVE Converging'
  <2>1. CASE Die(p)  BY <2>1 DEF Die, Converging, Types
  <2>2. CASE ~Die(p)
    <3>1. UNCHANGED crashes  BY <1>4, <2>2 DEF Ending, Conflict, Publish, Watch
    <3>2. QED BY <1>0, <1>1, <1>4, <2>2, <3>1, EndingEffect
  <2>3. QED BY <2>1, <2>2
<1>5. ASSUME NEW p \in Procs, Alone(p), Reading(p) PROVE Converging'
  <2>c. UNCHANGED crashes  BY <1>5, ReadingEffect
  <2>1. CASE \E k \in Claims : SubmitCheck(p, k) \/ Review(p, k)
    BY <1>0, <1>1, <1>5, <2>1, <2>c DEF SubmitCheck, Review, IsIdle, rows
  <2>2. CASE SubmitCreate(p) /\ p \in Callers
    <3>1. PICK k \in Claims :
           /\ proc[p].pc = "create" /\ k = proc[p].on /\ UNCHANGED file
           /\ \A i \in Claims : i # k => claim'[i] = claim[i]
      BY <2>2, CreateEffect
    <3>2. \A f \in Files : file[f].owner # k  BY <3>1, NoneAssumption DEF NoneAssumption, Evidence, Owned, Creators
    <3>3. \A q \in Workers, f \in Files : Looks(q, f) => Looks(q, f)'  BY <1>1, <1>5, <3>1
    <3>4. QED BY <1>o, <2>c, <3>1, <3>2, <3>3 DEF Converging
  <2>3. CASE SubmitLink(p) /\ p \in Callers
    <3>1. PICK k \in Claims, f \in Files :
           /\ proc[p].pc = "link" /\ k = proc[p].on /\ f = For[k].file /\ UNCHANGED claim
           /\ \A g \in Files : g # f => file'[g] = file[g]
           /\ file'[f].owner = k
           /\ file'[f].verdict = file[f].verdict /\ file'[f].seen = file[f].seen
      BY <2>3, LinkEffect
    <3>2. proc'[p].pc = "reconcile" /\ proc'[p].on = k
      BY <2>3, <3>1, GotoStep DEF SubmitLink, OnClaim
    <3>3. Looks(p, f)' /\ p \in Workers  BY <2>3, <3>1, <3>2 DEF Looks, Workers
    <3>4. \A q \in Workers, g \in Files : g # f /\ Looks(q, g) => Looks(q, g)'
      BY <1>5, <1>w, <3>1 DEF Alone, Looks
    <3>5. QED BY <2>c, <3>1, <3>3, <3>4 DEF Converging
  <2>4. CASE p \in Consumers /\ \E f \in Files : ScanRead(p, f)
    <3>1. PICK f \in Files : ScanRead(p, f)  BY <2>4
    <3>2. \A g \in Files : file'[g].owner = file[g].owner /\ file'[g].verdict = file[g].verdict
      BY <2>4, <3>1, ReadEffect
    <3>3. UNCHANGED claim /\ proc[p].pc = "idle"  BY <3>1 DEF ScanRead, rows, IsIdle
    <3>4. \A q \in Workers, g \in Files : Looks(q, g) => Looks(q, g)'
      BY <1>5, <1>w, <3>2, <3>3 DEF Alone, Looks
    <3>5. QED BY <2>c, <3>2, <3>3, <3>4 DEF Converging
  <2>5. CASE p \in Consumers /\ ScanVerdict(p)
    <3>1. PICK f \in Files :
           /\ proc[p].pc = "judged" /\ f = proc[p].arg /\ UNCHANGED claim
           /\ \A g \in Files : g # f => file'[g] = file[g]
           /\ file'[f].verdict \in {"Clean", "Quarantined"}
           /\ file'[f].owner = file[f].owner /\ file'[f].seen = file[f].seen
      BY <2>5, VerdictEffect
    <3>2. proc[p].on \in Claims \cup {NoClaim}  BY DEF Types, Invocation
    <3>3. proc'[p].pc = "owner" /\ proc'[p].arg = f
      BY <2>5, <3>1, <3>2, GotoStep DEF ScanVerdict, OnFile
    <3>4. Looks(p, f)' /\ p \in Workers  BY <2>5, <3>3 DEF Looks, Workers
    <3>5. \A q \in Workers, g \in Files : g # f /\ Looks(q, g) => Looks(q, g)'
      BY <1>5, <1>w, <3>1 DEF Alone, Looks
    <3>6. QED BY <2>c, <3>1, <3>4, <3>5 DEF Converging
  <2>6. CASE ScanOwner(p)
    <3>1. PICK f \in Files : f = proc[p].arg  BY <2>6 DEF ScanOwner, Types, Aimed, OnFile
    <3>2. UNCHANGED <<claim, file>> /\ proc[p].pc = "owner"  BY <2>6 DEF ScanOwner, rows
    <3>3. file[f].owner # NoClaim => proc'[p].pc = "reconcile" /\ proc'[p].on = file[f].owner
      BY <1>o, <2>6, <3>1, GotoStep DEF ScanOwner, OnClaim
    <3>4. \A q \in Workers, g \in Files : g # f /\ Looks(q, g) => Looks(q, g)'
      BY <1>5, <1>w, <3>1, <3>2 DEF Alone, Looks
    <3>5. \A q \in Workers : file[f].owner # NoClaim /\ Looks(q, f) => Looks(q, f)'
      BY <1>5, <1>w, <3>2, <3>3 DEF Alone, Looks
    <3>6. QED BY <2>c, <3>2, <3>4, <3>5 DEF Converging
  <2>7. ASSUME ReadClaim(p) \/ ReadPointer(p) PROVE Converging'
    <3>1. PICK k \in Claims : k = proc[p].on
      BY <2>7 DEF ReadClaim, ReadPointer, Types, Aimed, OnClaim
    <3>2. UNCHANGED <<claim, file>> /\ proc[p].pc \in {"reconcile", "pointer"}
      BY <2>7 DEF ReadClaim, ReadPointer, rows
    <3>3. \/ proc'[p].pc \in {"pointer", "stamp"} /\ proc'[p].on = k
          \/ claim[k].scan # "PendingScan" /\ ReadClaim(p)
          \/ Verdict(k) = "PendingScan"
      <4>1. CASE ReadClaim(p)  BY <3>1, <4>1, GotoStep DEF ReadClaim, OnClaim
      <4>2. CASE ReadPointer(p)  BY <3>1, <4>2, GotoStep DEF ReadPointer, OnClaim
      <4>3. QED BY <2>7, <4>1, <4>2
    <3>4. \A q \in Workers, f \in Files : file[f].owner # k /\ Looks(q, f) => Looks(q, f)'
      BY <1>5, <1>w, <3>1, <3>2 DEF Alone, Looks
    <3>5. CASE proc'[p].pc \in {"pointer", "stamp"} /\ proc'[p].on = k
      <4>1. \A q \in Workers, f \in Files : Looks(q, f) => Looks(q, f)'
        BY <1>5, <1>w, <3>1, <3>2, <3>5 DEF Alone, Looks
      <4>2. QED BY <1>0, <2>c, <3>2, <4>1
    <3>6. ASSUME NEW f \in Files, file[f].owner = k, file[f].verdict # "PendingScan",
                 claim[k].scan # "PendingScan" \/ Verdict(k) = "PendingScan"
          PROVE  claim[k].scan = file[f].verdict
      <4>1. For[k].file = f /\ claim[k].status # "none" /\ Verdict(k) = file[f].verdict
        BY <3>6, NoneAssumption DEF NoneAssumption, Evidence, Owned, Verdict
      <4>2. For[k].file # NoFile  BY <4>1, NoneAssumption DEF NoneAssumption
      <4>3. QED BY <3>6, <4>1, <4>2 DEF Evidence, Scanned
    <3>7. CASE claim[k].scan # "PendingScan" \/ Verdict(k) = "PendingScan"
      BY <2>c, <3>2, <3>4, <3>6, <3>7 DEF Converging
    <3>8. QED BY <3>3, <3>5, <3>7
  <2>8. CASE Stamp(p)
    <3>1. PICK k \in Claims :
           /\ proc[p].pc = "stamp" /\ k = proc[p].on /\ UNCHANGED file
           /\ For[k].file \in Files
           /\ \A i \in Claims : i # k => claim'[i] = claim[i]
           /\ claim'[k].status = claim[k].status /\ claim'[k].noticed = claim[k].noticed
           /\ claim'[k].scan = Verdict(k)
      BY <2>8, StampEffect
    <3>2. \A q \in Workers, f \in Files : file[f].owner # k /\ Looks(q, f) => Looks(q, f)'
      BY <1>5, <1>w, <3>1 DEF Alone, Looks
    <3>3. \A f \in Files : file[f].owner = k => claim'[k].scan = file[f].verdict
      BY <3>1, NoneAssumption DEF NoneAssumption, Evidence, Owned, Verdict
    <3>4. QED BY <1>o, <2>c, <3>1, <3>2, <3>3 DEF Converging
  <2>9. QED BY <1>5, <2>1, <2>2, <2>3, <2>4, <2>5, <2>6, <2>7, <2>8 DEF Reading
<1>6. QED BY <1>2, <1>3, <1>4, <1>5 DEF InvocationStep

-----------------------------------------------------------------------------
(* Notices. *)

Tells(p, k, e) == proc[p].pc = "tell" /\ proc[p].on = k /\ proc[p].arg = e

\* What an event says of its claim.
Holds(k, e) ==
  /\ e \in {"Rejected", "Revoked", "Expired"} => claim[k].status = e
  /\ e \in {"Approved", "ExpiringSoon"} => claim[k].status \in Granted
  /\ e = "ExpiringSoon" => claim[k].noticed

Notices ==
  \A k \in Claims, e \in Events :
    /\ told[k][e] \in {0, 1}
    /\ told[k][e] = 1 => Holds(k, e) /\ \A p \in Procs : ~Tells(p, k, e)
    /\ \A p, q \in Procs : Tells(p, k, e) => Holds(k, e) /\ (Tells(q, k, e) => p = q)

LEMMA HoldsStays ==
  ASSUME Types, Creators, EvidenceStep, NEW k \in Claims, NEW e \in Events, Holds(k, e)
  PROVE  Holds(k, e)'
<1>0. claim[k].status \notin {"none", "Pending"}  BY DEF Holds, Events, Granted
<1>1. CASE UNCHANGED file /\ \A i \in Claims : claim'[i].status = claim[i].status
                                              /\ claim'[i].scan = claim[i].scan
                                              /\ (claim[i].noticed => claim'[i].noticed)
  BY <1>1 DEF Holds
<1>2. ASSUME NEW i \in Claims, Ends(i) PROVE Holds(k, e)'
  <2>1. CASE i = k
    <3>1. claim[k].status = "Approved"  BY <1>0, <1>2, <2>1, EndsEffect DEF Live
    <3>2. claim'[k].status \in Granted /\ claim'[k].noticed = claim[k].noticed
      BY <1>2, <2>1, <3>1, EndsEffect
    <3>3. e \notin {"Rejected", "Revoked", "Expired"}  BY <3>1 DEF Holds
    <3>4. QED BY <3>2, <3>3 DEF Holds
  <2>2. CASE i # k  BY <1>2, <2>2, EndsEffect DEF Holds
  <2>3. QED BY <2>1, <2>2
<1>3. ASSUME NEW p \in Callers, SubmitCreate(p) PROVE Holds(k, e)'
  <2>1. p \in Procs  BY DEF Procs
  <2>2. QED BY <1>0, <1>3, <2>1, CreateEffect DEF Creators, Holds
<1>4. ASSUME NEW p \in Callers, SubmitLink(p) PROVE Holds(k, e)'  BY <1>4, LinkEffect DEF Holds
<1>5. ASSUME NEW p \in Callers, Approve(p) PROVE Holds(k, e)'
  BY <1>0, <1>5, ApproveEffect DEF Holds
<1>6. ASSUME NEW p \in Procs, Stamp(p) PROVE Holds(k, e)'  BY <1>6, StampEffect DEF Holds
<1>7. ASSUME NEW p \in Consumers, ScanVerdict(p) PROVE Holds(k, e)'
  BY <1>7, VerdictEffect DEF Holds
<1>8. ASSUME NEW p \in Consumers, NEW f \in Files, ScanRead(p, f) PROVE Holds(k, e)'
  BY <1>8, ReadEffect DEF Holds
<1>9. QED BY <1>1, <1>2, <1>3, <1>4, <1>5, <1>6, <1>7, <1>8 DEF EvidenceStep

\* A new notice is of something that was not so before the step and is so after it.
LEMMA NewNotice ==
  ASSUME Types, Types', NEW p \in Procs, Telling(p)
  PROVE  \E k \in Claims, e \in Events : Tells(p, k, e)' /\ Holds(k, e)' /\ ~Holds(k, e)
<1>1. ASSUME NEW k \in Claims, NEW old, NEW new \in {"Rejected", "Revoked", "Expired"}, old # new,
             ToTerminal(k, old, new),
             Tell(p, k, new) \/ \E w \in {"expire"} : Take(p, Row(k, w), "tell", new)
      PROVE  \E i \in Claims, e \in Events : Tells(p, i, e)' /\ Holds(i, e)' /\ ~Holds(i, e)
  <2>1. new \in Statuses /\ new \in Events  BY DEF Statuses, Events
  <2>2. claim[k].status = old /\ claim'[k].status = new  BY <1>1, <2>1, ToTerminalEffect
  <2>3. proc'[p].pc = "tell" /\ proc'[p].on = k /\ proc'[p].arg = new
    BY <1>1, <2>1, TellStep, TakeStep
  <2>4. Holds(k, new)' /\ ~Holds(k, new)  BY <1>1, <2>2 DEF Holds
  <2>5. QED BY <2>1, <2>3, <2>4 DEF Tells
<1>2. ASSUME NEW k \in Claims, Revoke(p, k) \/ SystemReject(p, k)
      PROVE  \E i \in Claims, e \in Events : Tells(p, i, e)' /\ Holds(i, e)' /\ ~Holds(i, e)
  BY <1>1, <1>2 DEF Revoke, SystemReject
<1>3. ASSUME NEW k \in Claims, Expire(p, k), proc'[p].pc = "tell"
      PROVE  \E i \in Claims, e \in Events : Tells(p, i, e)' /\ Holds(i, e)' /\ ~Holds(i, e)
  <2>1. CASE ToTerminal(k, "Approved", "Expired") /\ Take(p, Row(k, "expire"), "tell", "Expired")
    BY <1>1, <2>1
  <2>2. CASE Drop(p, Row(k, "expire"))  BY <1>3, <2>2, DropStep DEF Expire
  <2>3. QED BY <1>3, <2>1, <2>2 DEF Expire
<1>4. ASSUME Reject(p)
      PROVE  \E i \in Claims, e \in Events : Tells(p, i, e)' /\ Holds(i, e)' /\ ~Holds(i, e)
  <2>1. PICK k \in Claims : k = proc[p].on  BY <1>4 DEF Reject, Types, Aimed, OnClaim
  <2>2. QED BY <1>1, <1>4, <2>1 DEF Reject
<1>5. ASSUME Approve(p), p \in Callers
      PROVE  \E i \in Claims, e \in Events : Tells(p, i, e)' /\ Holds(i, e)' /\ ~Holds(i, e)
  <2>1. PICK k \in Claims :
           /\ k = proc[p].on /\ claim[k].status = "Pending" /\ claim'[k].status = "Approved"
    BY <1>5, ApproveEffect
  <2>2. proc'[p].pc = "tell" /\ proc'[p].on = k /\ proc'[p].arg = "Approved"
    BY <1>5, <2>1, TellStep DEF Approve, Events
  <2>3. Holds(k, "Approved")' /\ ~Holds(k, "Approved")  BY <2>1 DEF Holds, Granted
  <2>4. QED BY <2>2, <2>3 DEF Tells, Events
<1>6. ASSUME NEW k \in Claims, Notice(p, k), proc'[p].pc = "tell"
      PROVE  \E i \in Claims, e \in Events : Tells(p, i, e)' /\ Holds(i, e)' /\ ~Holds(i, e)
  <2>1. CASE /\ claim[k].status = "Approved" /\ ~claim[k].noticed
             /\ claim' = [claim EXCEPT ![k].noticed = TRUE]
             /\ Take(p, Row(k, "notice"), "tell", "ExpiringSoon")
    <3>1. proc'[p].pc = "tell" /\ proc'[p].on = k /\ proc'[p].arg = "ExpiringSoon"
      BY <2>1, TakeStep DEF Events
    <3>2. claim'[k].status = "Approved" /\ claim'[k].noticed = TRUE  BY <2>1 DEF Types, ClaimRow
    <3>3. Holds(k, "ExpiringSoon")' /\ ~Holds(k, "ExpiringSoon")
      BY <2>1, <3>2 DEF Holds, Granted
    <3>4. QED BY <3>1, <3>3 DEF Tells, Events
  <2>2. CASE Drop(p, Row(k, "notice"))  BY <1>6, <2>2, DropStep DEF Notice
  <2>3. QED BY <1>6, <2>1, <2>2 DEF Notice
<1>7. QED BY <1>2, <1>3, <1>4, <1>5, <1>6 DEF Telling

LEMMA StepNotices ==
  ASSUME Types, Types', Creators, Notices, InvocationStep, EvidenceStep PROVE Notices'
<1>0. ASSUME UNCHANGED told, \A q \in Procs, k \in Claims, e \in Events : Tells(q, k, e)' => Tells(q, k, e)
      PROVE  Notices'
  BY <1>0, HoldsStays DEF Notices
<1>1. CASE Unmoved /\ UNCHANGED told  BY <1>0, <1>1 DEF Unmoved, Tells
<1>2. ASSUME NEW p \in Procs, Alone(p), UNCHANGED told, proc'[p].pc # "tell" PROVE Notices'
  BY <1>0, <1>2 DEF Alone, Tells
<1>3. ASSUME NEW p \in Procs, Alone(p), Telling(p) PROVE Notices'
  <2>1. PICK k \in Claims, e \in Events : Tells(p, k, e)' /\ Holds(k, e)' /\ ~Holds(k, e)
    BY <1>3, NewNotice
  <2>2. told[k][e] = 0 /\ \A q \in Procs : ~Tells(q, k, e)  BY <2>1 DEF Notices
  <2>3. UNCHANGED told  BY <1>3, TellingEffect
  <2>4. \A q \in Procs, i \in Claims, x \in Events : Tells(q, i, x)' =>
          Tells(q, i, x) \/ (q = p /\ i = k /\ x = e)
    BY <1>3, <2>1 DEF Alone, Tells
  <2>5. SUFFICES ASSUME NEW i \in Claims, NEW x \in Events
                 PROVE  /\ told[i][x]' \in {0, 1}
                        /\ told[i][x]' = 1 => Holds(i, x)' /\ \A q \in Procs : ~Tells(q, i, x)'
                        /\ \A q, r \in Procs : Tells(q, i, x)' => Holds(i, x)' /\ (Tells(r, i, x)' => q = r)
    BY DEF Notices
  <2>6. CASE i = k /\ x = e  BY <2>1, <2>2, <2>3, <2>4, <2>6
  <2>7. CASE ~(i = k /\ x = e)
    <3>1. \A q \in Procs : Tells(q, i, x)' => Tells(q, i, x)  BY <2>4, <2>7
    <3>2. QED BY <2>3, <3>1, HoldsStays DEF Notices
  <2>8. QED BY <2>6, <2>7
<1>4. ASSUME NEW p \in Procs, Publish(p) PROVE Notices'
  <2>1. PICK k \in Claims, e \in Events : Tells(p, k, e)
    BY <1>4 DEF Publish, Tells, Types, Aimed, OnClaim
  <2>2. /\ told'[k][e] = told[k][e] + 1
        /\ \A i \in Claims, x \in Events : ~(i = k /\ x = e) => told'[i][x] = told[i][x]
    BY <1>4, <2>1 DEF Publish, Tells, Types
  <2>3. told[k][e] = 0 /\ Holds(k, e)  BY <2>1 DEF Notices
  <2>4. Alone(p) /\ proc'[p].pc = "idle"  BY <1>4, DoneStep DEF Publish
  <2>5. \A q \in Procs, i \in Claims, x \in Events : Tells(q, i, x)' => Tells(q, i, x) /\ q # p
    BY <2>4 DEF Alone, Tells
  <2>6. \A q \in Procs : ~Tells(q, k, e)'  BY <2>1, <2>5 DEF Notices
  <2>7. SUFFICES ASSUME NEW i \in Claims, NEW x \in Events
                 PROVE  /\ told[i][x]' \in {0, 1}
                        /\ told[i][x]' = 1 => Holds(i, x)' /\ \A q \in Procs : ~Tells(q, i, x)'
                        /\ \A q, r \in Procs : Tells(q, i, x)' => Holds(i, x)' /\ (Tells(r, i, x)' => q = r)
    BY DEF Notices
  <2>8. CASE i = k /\ x = e  BY <2>2, <2>3, <2>6, <2>8, HoldsStays
  <2>9. CASE ~(i = k /\ x = e)
    BY <2>2, <2>5, <2>9, HoldsStays DEF Notices
  <2>10. QED BY <2>8, <2>9
<1>5. ASSUME NEW p \in Procs, Ending(p) PROVE Notices'
  <2>1. CASE Publish(p)  BY <1>4, <2>1
  <2>2. CASE ~Publish(p)
    <3>1. UNCHANGED told  BY <1>5, <2>2 DEF Ending, Conflict, Die, Watch
    <3>2. QED BY <1>2, <1>5, <3>1, EndingEffect
  <2>3. QED BY <2>1, <2>2
<1>6. ASSUME NEW p \in Procs, Alone(p), Reading(p) PROVE Notices'
  <2>1. UNCHANGED told  BY <1>6, ReadingEffect
  <2>2. proc'[p].pc # "tell"
    <3>1. ASSUME NEW k \in Claims, SubmitCheck(p, k) PROVE proc'[p].pc # "tell"
      BY <3>1 DEF SubmitCheck, Types, Idle
    <3>2. ASSUME NEW k \in Claims, Review(p, k) PROVE proc'[p].pc # "tell"
      BY <3>2, GotoStep DEF Review, OnClaim
    <3>3. ASSUME NEW f \in Files, ScanRead(p, f) PROVE proc'[p].pc # "tell"
      BY <3>3 DEF ScanRead, Types, Idle
    <3>4. CASE SubmitCreate(p) \/ SubmitLink(p) \/ ReadClaim(p) \/ ReadPointer(p) \/ Stamp(p)
      <4>1. PICK k \in Claims : k = proc[p].on
        BY <3>4 DEF SubmitCreate, SubmitLink, ReadClaim, ReadPointer, Stamp, Types, Aimed, OnClaim
      <4>2. Done(p) \/ \E pc \in {"link", "reconcile", "pointer", "stamp"} : Goto(p, pc, k)
        BY <3>4, <4>1 DEF SubmitCreate, SubmitLink, ReadClaim, ReadPointer, Stamp
      <4>3. QED BY <4>2, DoneStep, GotoStep DEF OnClaim
    <3>5. CASE ScanVerdict(p) \/ ScanOwner(p)
      <4>1. file[proc[p].arg].owner \in Claims \cup {NoClaim} /\ proc[p].on \in Claims \cup {NoClaim}
        BY <3>5 DEF ScanVerdict, ScanOwner, Types, Aimed, OnFile, FileRow, Invocation
      <4>2. Done(p) \/ Goto(p, "owner", proc[p].on) \/ Goto(p, "reconcile", file[proc[p].arg].owner)
        BY <3>5 DEF ScanVerdict, ScanOwner
      <4>3. QED BY <4>1, <4>2, DoneStep, GotoStep DEF OnClaim, OnFile
    <3>6. QED BY <1>6, <3>1, <3>2, <3>3, <3>4, <3>5 DEF Reading
  <2>3. QED BY <1>2, <1>6, <2>1, <2>2
<1>7. QED BY <1>1, <1>3, <1>5, <1>6 DEF InvocationStep

-----------------------------------------------------------------------------
(* The theorems. *)

IInv == Types /\ Creators /\ Slots /\ Counters /\ Evidence /\ Converging /\ Notices

LEMMA Initially == Init => IInv
<1> SUFFICES ASSUME Init PROVE IInv  OBVIOUS
<1>1. Converging /\ Notices  BY DEF Init, Converging, Notices, Tells, Idle
<1>2. QED BY <1>1, InitTypes, InitSlots, InitEvidence DEF IInv

LEMMA Preserved == ASSUME IInv, [Next]_vars PROVE IInv'
<1>1. CASE Next
  <2>0. Types /\ Creators /\ Slots /\ Counters /\ Evidence /\ Converging /\ Notices  BY DEF IInv
  <2>1. Simple  BY <1>1, EveryStepIsSimple
  <2>2. Types'  BY <2>0, <2>1, StepTypes DEF Evidence
  <2>3. RowStep /\ EvidenceStep /\ InvocationStep
    BY <2>0, <2>1, <2>2, StepsOfRows, StepsOfEvidence, StepsOfInvocations
  <2>4. Creators' /\ Slots' /\ Counters'
    BY <2>0, <2>2, <2>3, StepCreators, StepSlots, StepCounters
  <2>5. Stable  BY <2>0, <2>2, <2>3, EvidenceIsStable
  <2>6. Scanned' /\ Owned'  BY <2>0, <2>2, <2>3, <2>5, StepScanned, StepOwned
  <2>7. (\A p \in Procs : Careful(p)') /\ Judges'
    BY <2>0, <2>2, <2>3, <2>5, <2>6, StepCareful, StepJudges
  <2>8. Converging'  BY <2>0, <2>2, <2>3, <2>5, StepConverging
  <2>9. Notices'  BY <2>0, <2>2, <2>3, StepNotices
  <2>10. QED BY <2>2, <2>4, <2>6, <2>7, <2>8, <2>9 DEF IInv, Evidence
<1>2. CASE UNCHANGED vars
  BY <1>2 DEF vars, rows, IInv, Types, Aimed, Creators, Slots, Counters, Approvals, Evidence, Scanned,
     Careful, Judges, Owned, Verdict, Converging, Looks, Notices, Tells, Holds
<1>3. QED BY <1>1, <1>2

\* What an invocation has read of a claim and a file still holds when it writes, whichever
\* other invocations run or die in between.
THEOREM Inductive == Spec => []IInv
BY Initially, Preserved, PTL DEF Spec

LEMMA InvariantSuffices ==
  IInv => TypeOK /\ SlotsAndCountersAgree /\ GrantedIsClean /\ EvidenceConverges /\ NoticesAreTrue
<1> SUFFICES ASSUME IInv
             PROVE  TypeOK /\ SlotsAndCountersAgree /\ GrantedIsClean /\ EvidenceConverges
                    /\ NoticesAreTrue
  OBVIOUS
<1>1. TypeOK
  <2>1. claim \in [Claims -> [status : Live \cup {"none", "Rejected", "Withdrawn", "Revoked", "Expired"},
                              scan : {"None", "PendingScan", "Clean", "Quarantined"},
                              noticed : BOOLEAN]]
    BY DEF IInv, Types, ClaimRow, Statuses, Scans
  <2>2. file \in [Files -> [verdict : {"PendingScan", "Clean", "Quarantined"},
                            owner : Claims \cup {NoClaim}, seen : BOOLEAN]]
    <3>1. Scans \ {"None"} = {"PendingScan", "Clean", "Quarantined"}  BY DEF Scans
    <3>2. QED BY <3>1 DEF IInv, Types, FileRow
  <2>3. \A p \in DOMAIN proc :
          proc[p].pc \in {"create", "link", "reconcile", "pointer", "stamp", "review", "tell"}
            => proc[p].on \in Claims
    BY DEF IInv, Types, Aimed, OnClaim
  <2>4. QED BY <2>1, <2>2, <2>3 DEF IInv, Types, SlotRow, TypeOK
<1>2. SlotsAndCountersAgree
  BY DEF IInv, Slots, Counters, Approvals, SlotsAndCountersAgree
<1>3. GrantedIsClean
  BY DEF IInv, Evidence, Scanned, GrantedIsClean, Granted
<1>4. EvidenceConverges
  BY DEF IInv, Converging, Workers, Looks, IsIdle, EvidenceConverges
<1>5. NoticesAreTrue
  BY DEF IInv, Notices, Holds, NoticesAreTrue, Events, Granted
<1>6. QED BY <1>1, <1>2, <1>3, <1>4, <1>5

\* Claims, slots, counters, files and invocations keep their shape.
THEOREM TypeCorrect == Spec => []TypeOK
BY Inductive, InvariantSuffices, PTL

\* A slot holds exactly its live claim and a counter exactly the granted ones, however
\* decisions, withdrawals, revocations and expiries cross (_transact_transition).
THEOREM SlotsAlwaysAgree == Spec => []SlotsAndCountersAgree
BY Inductive, InvariantSuffices, PTL

\* Nothing is ever granted on a file that the scanner has not cleared (decide).
THEOREM GrantsAreAlwaysClean == Spec => []GrantedIsClean
BY Inductive, InvariantSuffices, PTL

\* Verdict and submission meet, whichever is first: when nobody is left running and none
\* has died, the claim carries the verdict on its file (reconcile_evidence).
THEOREM EvidenceAlwaysConverges == Spec => []EvidenceConverges
BY Inductive, InvariantSuffices, PTL

\* A notice is sent once and says what has happened (mark_expiring_notice, decide).
THEOREM NoticesAlwaysTrue == Spec => []NoticesAreTrue
BY Inductive, InvariantSuffices, PTL
=============================================================================
