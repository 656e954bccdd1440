------------------------------- MODULE Badges -------------------------------
(***************************************************************************)
(* The badge image of a certification definition.  A leader is granted an  *)
(* upload, puts the file, and creates or edits the definition with its     *)
(* key; a scanner judges the file before or after that; and one            *)
(* reconciliation, run by the request, by the consumer of the verdict and  *)
(* by the watchdog, promotes a clean image to the public bucket.           *)
(*                                                                         *)
(*   definition   the DEF row: the key of its image, badgeImageStatus,     *)
(*                whether badgeImagePromotedAt is set, and badgeImageUrl   *)
(*   pointer[f]   the FILEKEY# row: granted, the verdict, ownerId set      *)
(*   object[f]    what is stored under the key                             *)
(*   public       keys copied to the public bucket                         *)
(*   notices      verdicts of the scanner, still to be delivered           *)
(*   call[p]      the reads and writes that p has still to make, and the   *)
(*                notice it was delivered, if it is a delivery             *)
(*   crossed      ghost: the image was changed during a reconciliation     *)
(*   lingering    ghost: keys whose purge failed                           *)
(***************************************************************************)
EXTENDS Integers, Sequences, FiniteSets, SequencesExt

CONSTANTS Files, NoFile, Callers, Consumers, Watchdog, Budgets

VARIABLES definition, pointer, object, public, notices, call, crossed, lingering, budget

rows == <<definition, pointer>>
store == <<object, public, notices>>
vars == <<rows, store, call, crossed, lingering, budget>>

Procs == Callers \cup Consumers \cup {Watchdog}
Kinds == {"clean", "infected"}

\* What the scanner's status means.
VerdictOn(kind) == IF kind = "clean" THEN "Clean" ELSE "Quarantined"
NoDefinition ==
  [exists |-> FALSE, key |-> NoFile, status |-> "None", promoted |-> FALSE, url |-> NoFile]
Frame(ops, note) == [ops |-> ops, note |-> note]
Idle == Frame(<<>>, NoFile)

Init ==
  /\ definition = NoDefinition
  /\ pointer = [f \in Files |-> [granted |-> FALSE, verdict |-> "PendingScan", owned |-> FALSE]]
  /\ object = [f \in Files |-> "none"] /\ public = {} /\ notices = {}
  /\ call = [p \in Procs |-> Idle] /\ crossed = FALSE /\ lingering = {} /\ budget \in Budgets

-----------------------------------------------------------------------------
Op(do, f) == [do |-> do, file |-> f, row |-> NoDefinition, status |-> "None"]
Put(row) == [Op("put", NoFile) EXCEPT !.row = row]
Final(f, status) == [Op("finalize", f) EXCEPT !.status = status]

Does(p, what) == call[p].ops # <<>> /\ Head(call[p].ops).do = what
Now(p) == Head(call[p].ops)
Then(p, ops) == call' = [call EXCEPT ![p] = IF ops \o Tail(@.ops) = <<>> THEN Idle
                                            ELSE Frame(ops \o Tail(@.ops), @.note)]
Start(p, ops, note) == call[p] = Idle /\ call' = [call EXCEPT ![p] = Frame(ops, note)]
Reconciling ==
  \E p \in Procs : \E op \in ToSet(call[p].ops) : op.do \in {"judge", "copy", "purge", "finalize"}

-----------------------------------------------------------------------------
(* Uploads and the scanner.                                                  *)
\* grant: the pointer is put with the grant.
Grant(f) ==
  /\ ~pointer[f].granted /\ (\A g \in Files : g < f => pointer[g].granted)
  /\ pointer' = [pointer EXCEPT ![f].granted = TRUE]
  /\ UNCHANGED <<definition, store, call, crossed, lingering, budget>>
Upload(f, kind) ==
  /\ pointer[f].granted /\ object[f] = "none" /\ f \notin notices
  /\ pointer[f].verdict = "PendingScan" /\ \A p \in Procs : call[p].note # f
  /\ object' = [object EXCEPT ![f] = kind] /\ notices' = notices \cup {f}
  /\ UNCHANGED <<rows, public, call, crossed, lingering, budget>>

-----------------------------------------------------------------------------
(* Requests.                                                                 *)
\* _apply_badge_image refuses what is not there and what is infected.
Attachable(f) == pointer[f].granted /\ object[f] # "none" /\ pointer[f].verdict # "Quarantined"
Attached(row, f) == [row EXCEPT !.exists = TRUE, !.key = f, !.status = "PendingScan", !.promoted = FALSE]

\* The owner is recorded, the definition put, and reconciled.
Attach(row, f) == << Op("own", f), Put(Attached(row, f)), Op("read", NoFile) >>

CreateDefinition(p, f) ==
  /\ ~definition.exists /\ \A q \in Procs : \A op \in ToSet(call[q].ops) : op.do # "put"
  /\ f # NoFile => Attachable(f)
  /\ Start(p, IF f = NoFile THEN <<Put([NoDefinition EXCEPT !.exists = TRUE])>>
              ELSE Attach(NoDefinition, f), NoFile)
  /\ UNCHANGED <<rows, store, crossed, lingering, budget>>

\* The row read is put back with what the body changes.
EditDefinition(p, f) ==
  /\ definition.exists /\ budget.edits > 0 /\ budget' = [budget EXCEPT !.edits = @ - 1]
  /\ f # NoFile => Attachable(f)
  /\ Start(p, IF f = NoFile THEN <<Put(definition)>> ELSE Attach(definition, f), NoFile)
  /\ UNCHANGED <<rows, store, crossed, lingering>>

RecordOwner(p) ==
  /\ Does(p, "own") /\ pointer' = [pointer EXCEPT ![Now(p).file].owned = TRUE]
  /\ Then(p, <<>>) /\ UNCHANGED <<definition, store, crossed, lingering, budget>>
PutDefinition(p) ==
  /\ Does(p, "put") /\ definition' = Now(p).row
  /\ crossed' = (crossed \/ (Reconciling /\ definition.key # Now(p).row.key))
  /\ Then(p, <<>>) /\ UNCHANGED <<pointer, store, lingering, budget>>

-----------------------------------------------------------------------------
(* The verdict, and the reconciliation.                                      *)
\* run_once, then the pointer.
Deliver(p, f) ==
  /\ f \in notices /\ notices' = notices \ {f} /\ Start(p, <<Op("verdict", f)>>, f)
  /\ UNCHANGED <<rows, object, public, crossed, lingering, budget>>
RecordVerdict(p) ==
  /\ Does(p, "verdict")
  /\ LET f == Now(p).file
         v == VerdictOn(object[f])
     IN  /\ pointer' = [pointer EXCEPT ![f].verdict = v]
         /\ Then(p, (IF v = "Quarantined" THEN <<Op("purge", f)>> ELSE <<>>) \o <<Op("owner", f)>>)
  /\ UNCHANGED <<definition, store, crossed, lingering, budget>>
\* The owner is read afresh; a file nobody owns yet is left to its request.
ReadOwner(p) ==
  /\ Does(p, "owner") /\ Then(p, IF pointer[Now(p).file].owned THEN <<Op("read", NoFile)>> ELSE <<>>)
  /\ UNCHANGED <<rows, store, crossed, lingering, budget>>

\* The watchdog reconciles what is pending.
Watch ==
  /\ definition.status = "PendingScan" /\ Start(Watchdog, <<Op("read", NoFile)>>, NoFile)
  /\ UNCHANGED <<rows, store, crossed, lingering, budget>>

\* reconcile_badge: nothing to do without an image or once it is decided.
ReadDefinition(p) ==
  /\ Does(p, "read")
  /\ Then(p, IF definition.key = NoFile \/ definition.promoted THEN <<>>
             ELSE <<Op("judge", definition.key)>>)
  /\ UNCHANGED <<rows, store, crossed, lingering, budget>>

\* Only a clean image is promoted.
Promotes(v) == v = "Clean"

\* Mutant: the definition is finalised before the image is copied.
PromotionFlipsFirst(f) == << Final(f, "Clean"), Op("copy", f) >>

\* The copy first, the definition second.
Promotion(f) == << Op("copy", f), Final(f, "Clean") >>

Rejection(f) == << Op("purge", f), Final(f, "Quarantined") >>

Judge(p) ==
  /\ Does(p, "judge")
  /\ LET f == Now(p).file
         v == pointer[f].verdict
     IN  Then(p, IF v = "Quarantined" THEN Rejection(f) ELSE IF Promotes(v) THEN Promotion(f) ELSE <<>>)
  /\ UNCHANGED <<rows, store, crossed, lingering, budget>>

\* promote_badge.
CopyImage(p) ==
  /\ Does(p, "copy") /\ public' = public \cup {Now(p).file}
  /\ Then(p, <<>>) /\ UNCHANGED <<rows, object, notices, crossed, lingering, budget>>
\* It raises: a delivery is released and comes again.
CopyFails(p) ==
  /\ Does(p, "copy") /\ budget.faults > 0 /\ budget' = [budget EXCEPT !.faults = @ - 1]
  /\ notices' = IF call[p].note = NoFile THEN notices ELSE notices \cup {call[p].note}
  /\ call' = [call EXCEPT ![p] = Idle] /\ UNCHANGED <<rows, object, public, crossed, lingering>>

PurgeObject(p) ==
  /\ Does(p, "purge") /\ object' = [object EXCEPT ![Now(p).file] = "none"]
  /\ Then(p, <<>>) /\ UNCHANGED <<rows, public, notices, crossed, lingering, budget>>
\* It fails, and the caller goes on.
PurgeFails(p) ==
  /\ Does(p, "purge") /\ budget.faults > 0 /\ budget' = [budget EXCEPT !.faults = @ - 1]
  /\ lingering' = lingering \cup {Now(p).file}
  /\ Then(p, <<>>) /\ UNCHANGED <<rows, store, crossed>>

\* finalize_badge, once.
Finalized(op) ==
  IF definition.exists /\ ~definition.promoted
  THEN [definition EXCEPT !.status = op.status, !.promoted = TRUE,
                          !.url = IF op.status = "Clean" THEN op.file ELSE @]
  ELSE definition
FinalizeBadge(p) ==
  /\ Does(p, "finalize") /\ definition' = Finalized(Now(p))
  /\ Then(p, <<>>) /\ UNCHANGED <<pointer, store, crossed, lingering, budget>>

Dies(p) ==
  /\ call[p] # Idle /\ budget.faults > 0 /\ budget' = [budget EXCEPT !.faults = @ - 1]
  /\ call' = [call EXCEPT ![p] = Idle] /\ UNCHANGED <<rows, store, crossed, lingering>>

Step(p) ==
  \/ RecordOwner(p) \/ PutDefinition(p) \/ RecordVerdict(p) \/ ReadOwner(p) \/ ReadDefinition(p)
  \/ Judge(p) \/ CopyImage(p) \/ PurgeObject(p) \/ FinalizeBadge(p)
Next ==
  \/ \E f \in Files : Grant(f) \/ \E kind \in Kinds : Upload(f, kind)
  \/ \E p \in Callers, f \in Files \cup {NoFile} : CreateDefinition(p, f) \/ EditDefinition(p, f)
  \/ \E p \in Consumers, f \in notices : Deliver(p, f)
  \/ Watch
  \/ \E p \in Procs : Step(p) \/ CopyFails(p) \/ PurgeFails(p) \/ Dies(p)

Spec == Init /\ [][Next]_vars

\* The schedule runs the watchdog again and again; what runs goes on.
Fairness == WF_vars(Watch) /\ \A p \in Procs : WF_vars(Step(p))
FairSpec == Spec /\ Fairness

-----------------------------------------------------------------------------
TypeOK ==
  /\ definition \in [exists : BOOLEAN, key : Files \cup {NoFile}, promoted : BOOLEAN,
                     status : {"None", "PendingScan", "Clean", "Quarantined"}, url : Files \cup {NoFile}]
  /\ pointer \in [Files -> [granted : BOOLEAN, owned : BOOLEAN,
                            verdict : {"PendingScan", "Clean", "Quarantined"}]]
  /\ object \in [Files -> Kinds \cup {"none"}] /\ public \cup notices \cup lingering \subseteq Files

\* The public bucket never holds an image that the scanner did not find clean
\* (promote_badge), in whatever order grants, verdicts, edits and the watchdog
\* come.
OnlyCleanIsPublic == \A f \in public : object[f] = "clean" /\ pointer[f].verdict = "Clean"

\* A definition that shows a badge shows one that can be fetched: the image was
\* copied before the status said so, whatever died.
ShownCanBeFetched == definition.status = "Clean" => definition.url \in public

\* What is shown is the image attached last, and its own verdict.
Decided ==
  /\ definition.status = "Clean" => definition.url = definition.key
  /\ definition.status = "Quarantined" => pointer[definition.key].verdict = "Quarantined"

\* The same, unless the image was changed during a reconciliation.
BadgeIsItsImageUncrossed == crossed \/ Decided

\* An image that was decided to be infected is gone from the bucket, unless its
\* purge failed.
InfectedIsGone ==
  definition.status = "Quarantined" =>
    crossed \/ object[definition.key] # "infected" \/ definition.key \in lingering

BadgesHold ==
  /\ TypeOK
  /\ OnlyCleanIsPublic /\ ShownCanBeFetched /\ BadgeIsItsImageUncrossed /\ InfectedIsGone

\* A judged image does not stay pending while it is attached: the watchdog finds what the request
\* and the delivery missed.
BadgeSettles ==
  []<>(definition.status = "PendingScan" /\ definition.key # NoFile
         => pointer[definition.key].verdict = "PendingScan")
=============================================================================
