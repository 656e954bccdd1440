------------------------------- MODULE Claims -------------------------------
(***************************************************************************)
(* Certification claims: a member submits evidence, a scanner judges it, a *)
(* leader decides, time expires what was granted.  All of it lives in one  *)
(* table whose rows different invocations write without knowing of each    *)
(* other: API requests, the event consumers, the scan watchdog and the     *)
(* expiry sweep.                                                           *)
(*                                                                         *)
(*   claim[k]    CLAIM#k: status, scanStatus, expiringNoticeSent           *)
(*   window[k]   its gsi3pk: in SCANWATCH, in EXPIRY, or in neither        *)
(*   slot[x]     the row CERT#c/SLOT#m of x = <<c, m>>                     *)
(*   held[c]     the counters of c: activatedCount - deactivatedCount      *)
(*   file[f]     FILEKEY#f: the scanner's verdict and the owning claim,    *)
(*               and whether the scanner's event was taken up              *)
(*   told[k]     events published for k, as a bag                          *)
(*   proc[p]     the invocation p is running                               *)
(*   today       the date                                                  *)
(***************************************************************************)
EXTENDS Integers, FiniteSets

CONSTANTS Certs, Members, Files,
          NoFile, NoClaim,
          Claims,       \* claim ids that new_id may draw
          For,          \* For[k] = [cert, member, file, expires]; expires = 0: never
          Callers, Consumers,     \* API requests, event consumers
          Watchdogs, Sweepers,    \* scheduled invocations
          NoticeDays, LastDay,        \* LastDay bounds the clock
          MaxCrashes    \* bound on invocations that die

ASSUME ForAssumption ==
  For \in [Claims -> [cert : Certs, member : Members, file : Files \cup {NoFile},
                      expires : Nat]]
ASSUME NoneAssumption == NoClaim \notin Claims /\ NoFile \notin Files
ASSUME BoundAssumption == {NoticeDays, LastDay, MaxCrashes} \subseteq Nat
ASSUME FiniteAssumption == IsFiniteSet(Claims)

VARIABLES claim, window, slot, held, file, told, proc, today, crashes

rows == <<claim, window, slot, held>>
vars == <<rows, file, told, proc, today, crashes>>

Events == {"Approved", "Rejected", "Revoked", "Expired", "ExpiringSoon"}
Live == {"Pending", "Approved"}
Procs == Callers \cup Consumers \cup Watchdogs \cup Sweepers
Idle == [pc |-> "idle", on |-> NoClaim, arg |-> "none", todo |-> {}]

SlotOf(k) == <<For[k].cert, For[k].member>>

Init ==
  /\ claim = [k \in Claims |-> [status |-> "none", scan |-> "None", noticed |-> FALSE]]
  /\ window = [k \in Claims |-> "none"]
  /\ slot = [x \in Certs \X Members |-> [claim |-> NoClaim, approved |-> FALSE]]
  /\ held = [c \in Certs |-> 0]
  /\ file = [f \in Files |-> [verdict |-> "PendingScan", owner |-> NoClaim, seen |-> FALSE]]
  /\ told = [k \in Claims |-> [e \in Events |-> 0]]
  /\ proc = [p \in Procs |-> Idle]
  /\ today = 1
  /\ crashes = 0

-----------------------------------------------------------------------------
(* Invocations.  A job works through the rows it has listed, todo. *)

IsIdle(p) == proc[p].pc = "idle" /\ proc[p].todo = {}
Goto(p, pc, k) == proc' = [proc EXCEPT ![p].pc = pc, ![p].on = k]
Done(p) == proc' = [proc EXCEPT ![p] = [Idle EXCEPT !.todo = proc[p].todo]]
Tell(p, k, event) == proc' = [proc EXCEPT ![p].pc = "tell", ![p].on = k, ![p].arg = event]

\* The listed row is taken up; or it is no longer what it was listed for.
Take(p, row, pc, arg) ==
  proc' = [proc EXCEPT ![p] = [pc |-> pc, on |-> row.claim, arg |-> arg, todo |-> @.todo \ {row}]]
Drop(p, row) == proc' = [proc EXCEPT ![p].todo = @ \ {row}]

-----------------------------------------------------------------------------
(* repository: every transition is one conditional transaction. *)

\* Approved: out of the scan window, into the expiry window when the claim expires.
ToApproved(k) ==
  /\ claim[k].status = "Pending"
  /\ claim' = [claim EXCEPT ![k].status = "Approved"]
  /\ window' = [window EXCEPT ![k] = IF For[k].expires > 0 THEN "EXPIRY" ELSE "none"]
  /\ slot' = [slot EXCEPT ![SlotOf(k)].approved = TRUE]
  /\ held' = [held EXCEPT ![For[k].cert] = @ + 1]

\* Mutant: the expected status is not a condition of the transaction.
ToTerminalAnyway(k, expected, new) ==
  /\ claim[k].status # "none"
  /\ claim' = [claim EXCEPT ![k].status = new]
  /\ window' = [window EXCEPT ![k] = "none"]
  /\ slot' = [slot EXCEPT ![SlotOf(k)] = [claim |-> NoClaim, approved |-> FALSE]]
  /\ held' = IF new \in {"Expired", "Revoked"}
             THEN [held EXCEPT ![For[k].cert] = @ - 1] ELSE held

\* Rejected, Withdrawn, Revoked, Expired: out of every window, the slot freed.
ToTerminal(k, expected, new) ==
  /\ claim[k].status = expected
  /\ claim' = [claim EXCEPT ![k].status = new]
  /\ window' = [window EXCEPT ![k] = "none"]
  /\ slot' = [slot EXCEPT ![SlotOf(k)] = [claim |-> NoClaim, approved |-> FALSE]]
  /\ held' = IF new \in {"Expired", "Revoked"}
             THEN [held EXCEPT ![For[k].cert] = @ - 1] ELSE held

-----------------------------------------------------------------------------
(* ClaimService.submit *)

\* Checked against the date and the verdict of now; a quarantined file is refused.
SubmitCheck(c, k) ==
  /\ IsIdle(c)
  /\ claim[k].status = "none" /\ \A p \in Callers : proc[p].on # k
  /\ For[k].expires > today \/ For[k].expires = 0
  /\ For[k].file # NoFile => file[For[k].file].verdict # "Quarantined"
  /\ proc' = [proc EXCEPT ![c] =
       [Idle EXCEPT !.pc = "create", !.on = k,
                    !.arg = IF For[k].file = NoFile THEN "None"
                            ELSE file[For[k].file].verdict]]
  /\ UNCHANGED <<rows, file, told, today, crashes>>

\* Mutant: a new claim is not put under the watchdog.
SubmitCreateUnwatched(c) ==
  LET k == proc[c].on
      free == slot[SlotOf(k)].claim = NoClaim
  IN  /\ proc[c].pc = "create"
      /\ claim' = IF free THEN [claim EXCEPT ![k].status = "Pending", ![k].scan = proc[c].arg]
                          ELSE claim
      /\ slot' = IF free THEN [slot EXCEPT ![SlotOf(k)].claim = k] ELSE slot
      /\ IF free /\ For[k].file # NoFile THEN Goto(c, "link", k) ELSE Done(c)
      /\ UNCHANGED <<window, held, file, told, today, crashes>>

\* create_claim: claim and slot in one transaction, refused when the slot is taken.
SubmitCreate(c) ==
  LET k == proc[c].on
      free == slot[SlotOf(k)].claim = NoClaim
  IN  /\ proc[c].pc = "create"
      /\ claim' = IF free THEN [claim EXCEPT ![k].status = "Pending", ![k].scan = proc[c].arg]
                          ELSE claim
      /\ slot' = IF free THEN [slot EXCEPT ![SlotOf(k)].claim = k] ELSE slot
      /\ window' = IF free /\ proc[c].arg = "PendingScan"
                   THEN [window EXCEPT ![k] = "SCANWATCH"] ELSE window
      /\ IF free /\ For[k].file # NoFile THEN Goto(c, "link", k) ELSE Done(c)
      /\ UNCHANGED <<held, file, told, today, crashes>>

\* The pointer learns its owner; then the claim is reconciled with the verdict.
SubmitLink(c) ==
  /\ proc[c].pc = "link"
  /\ file' = [file EXCEPT ![For[proc[c].on].file].owner = proc[c].on]
  /\ Goto(c, "reconcile", proc[c].on)
  /\ UNCHANGED <<rows, told, today, crashes>>

-----------------------------------------------------------------------------
(* reconcile_evidence: two reads and an unconditional stamp. *)

ReadClaim(p) ==
  /\ proc[p].pc = "reconcile"
  /\ IF claim[proc[p].on].scan = "PendingScan" THEN Goto(p, "pointer", proc[p].on) ELSE Done(p)
  /\ UNCHANGED <<rows, file, told, today, crashes>>

\* A verdict, once given, stays: the stamp may read it again.
Verdict(k) == file[For[k].file].verdict

ReadPointer(p) ==
  /\ proc[p].pc = "pointer"
  /\ IF Verdict(proc[p].on) = "PendingScan" THEN Done(p) ELSE Goto(p, "stamp", proc[p].on)
  /\ UNCHANGED <<rows, file, told, today, crashes>>

\* Mutant: the stamp says Clean whatever the verdict.
StampClean(p) ==
  /\ proc[p].pc = "stamp"
  /\ claim' = [claim EXCEPT ![proc[p].on].scan = "Clean"]
  /\ window' = [window EXCEPT ![proc[p].on] = "none"]
  /\ Done(p)
  /\ UNCHANGED <<slot, held, file, told, today, crashes>>

\* set_claim_scan_status
Stamp(p) ==
  /\ proc[p].pc = "stamp"
  /\ claim' = [claim EXCEPT ![proc[p].on].scan = Verdict(proc[p].on)]
  /\ window' = [window EXCEPT ![proc[p].on] = "none"]
  /\ Done(p)
  /\ UNCHANGED <<slot, held, file, told, today, crashes>>

-----------------------------------------------------------------------------
(* ScanVerdictConsumer and MembershipConsumer *)

\* The scanner has judged f.  Its event is taken up once, whatever becomes of it, and the
\* pointer read for its kind; the owner it names now (on) is not used again.
ScanRead(x, f) ==
  /\ IsIdle(x)
  /\ ~file[f].seen
  /\ file' = [file EXCEPT ![f].seen = TRUE]
  /\ proc' = [proc EXCEPT ![x] = [Idle EXCEPT !.pc = "judged", !.on = file[f].owner, !.arg = f]]
  /\ UNCHANGED <<rows, told, today, crashes>>

ScanVerdict(x) ==
  /\ proc[x].pc = "judged"
  /\ \E verdict \in {"Clean", "Quarantined"} :
       file' = [file EXCEPT ![proc[x].arg].verdict = verdict]
  /\ Goto(x, "owner", proc[x].on)
  /\ UNCHANGED <<rows, told, today, crashes>>

\* Mutant: the next step trusts the owner read before the verdict was written.
ScanOwnerStale(x) ==
  /\ proc[x].pc = "owner"
  /\ IF proc[x].on = NoClaim THEN Done(x) ELSE Goto(x, "reconcile", proc[x].on)
  /\ UNCHANGED <<rows, file, told, today, crashes>>

\* The owner is read again; without one the submission will reconcile.
ScanOwner(x) ==
  /\ proc[x].pc = "owner"
  /\ IF file[proc[x].arg].owner = NoClaim
     THEN Done(x) ELSE Goto(x, "reconcile", file[proc[x].arg].owner)
  /\ UNCHANGED <<rows, file, told, today, crashes>>

\* The member left the credited group: a listed claim is rejected if still pending.
SystemReject(x, k) ==
  /\ IsIdle(x)
  /\ ToTerminal(k, "Pending", "Rejected")
  /\ Tell(x, k, "Rejected")
  /\ UNCHANGED <<file, told, today, crashes>>

-----------------------------------------------------------------------------
(* The member withdraws; leaders decide and revoke. *)

Withdraw(k) ==
  /\ ToTerminal(k, "Pending", "Withdrawn")
  /\ UNCHANGED <<file, told, proc, today, crashes>>

\* decide: what is checked of the claim before the definition is read.
Review(c, k) ==
  /\ IsIdle(c)
  /\ claim[k].status = "Pending" /\ claim[k].scan \in {"None", "Clean"}
  /\ Goto(c, "review", k)
  /\ UNCHANGED <<rows, file, told, today, crashes>>

\* A badge is never born expired (409), nor is a decided claim decided again.
Approve(c) ==
  /\ proc[c].pc = "review"
  /\ For[proc[c].on].expires > today \/ For[proc[c].on].expires = 0
  /\ ToApproved(proc[c].on)
  /\ Tell(c, proc[c].on, "Approved")
  /\ UNCHANGED <<file, told, today, crashes>>

Reject(c) ==
  /\ proc[c].pc = "review"
  /\ ToTerminal(proc[c].on, "Pending", "Rejected")
  /\ Tell(c, proc[c].on, "Rejected")
  /\ UNCHANGED <<file, told, today, crashes>>

Conflict(c) ==
  /\ proc[c].pc = "review"
  /\ \/ claim[proc[c].on].status # "Pending"
     \/ For[proc[c].on].expires \in 1..today
  /\ Done(c)
  /\ UNCHANGED <<rows, file, told, today, crashes>>

Revoke(c, k) ==
  /\ IsIdle(c)
  /\ ToTerminal(k, "Approved", "Revoked")
  /\ Tell(c, k, "Revoked")
  /\ UNCHANGED <<file, told, today, crashes>>

\* The event, published after the transaction it is about.
Publish(p) ==
  /\ proc[p].pc = "tell"
  /\ told' = [told EXCEPT ![proc[p].on][proc[p].arg] = @ + 1]
  /\ Done(p)
  /\ UNCHANGED <<rows, file, today, crashes>>

-----------------------------------------------------------------------------
(* The scheduled jobs: WatchdogService.run and ExpiryService.sweep. *)

Row(k, what) == [claim |-> k, what |-> what]

WatchList(w) ==
  /\ IsIdle(w)
  /\ \E k \in Claims : window[k] = "SCANWATCH"
  /\ proc' = [proc EXCEPT ![w].todo =
                 {Row(k, "scan") : k \in {i \in Claims : window[i] = "SCANWATCH"}}]
  /\ UNCHANGED <<rows, file, told, today, crashes>>

Watch(w, k) ==
  /\ proc[w].pc = "idle" /\ Row(k, "scan") \in proc[w].todo
  /\ Take(w, Row(k, "scan"), "reconcile", "none")
  /\ UNCHANGED <<rows, file, told, today, crashes>>

Due(k) == window[k] = "EXPIRY" /\ For[k].expires <= today + NoticeDays

\* The window is listed, and what each claim in it needs, as of now.
SweepList(s) ==
  LET due == {k \in Claims : Due(k) /\ claim[k].status = "Approved"}
      todo == {Row(k, "expire") : k \in {i \in due : For[i].expires <= today}}
                \cup {Row(k, "notice") : k \in {i \in due : For[i].expires > today
                                                           /\ ~ claim[i].noticed}}
  IN  /\ IsIdle(s)
      /\ todo # {}
      /\ proc' = [proc EXCEPT ![s].todo = todo]
      /\ UNCHANGED <<rows, file, told, today, crashes>>

Expire(s, k) ==
  /\ proc[s].pc = "idle" /\ Row(k, "expire") \in proc[s].todo
  /\ \/ ToTerminal(k, "Approved", "Expired") /\ Take(s, Row(k, "expire"), "tell", "Expired")
     \/ claim[k].status # "Approved" /\ Drop(s, Row(k, "expire")) /\ UNCHANGED rows
  /\ UNCHANGED <<file, told, today, crashes>>

\* Mutant: the mark is not a condition of the notice.
NoticeUnmarked(s, k) ==
  /\ proc[s].pc = "idle" /\ Row(k, "notice") \in proc[s].todo
  /\ claim' = [claim EXCEPT ![k].noticed = TRUE]
  /\ Take(s, Row(k, "notice"), "tell", "ExpiringSoon")
  /\ UNCHANGED <<window, slot, held, file, told, today, crashes>>

\* mark_expiring_notice, then the event.
Notice(s, k) ==
  /\ proc[s].pc = "idle" /\ Row(k, "notice") \in proc[s].todo
  /\ IF claim[k].status = "Approved" /\ ~ claim[k].noticed
     THEN /\ claim' = [claim EXCEPT ![k].noticed = TRUE]
          /\ Take(s, Row(k, "notice"), "tell", "ExpiringSoon")
     ELSE UNCHANGED claim /\ Drop(s, Row(k, "notice"))
  /\ UNCHANGED <<window, slot, held, file, told, today, crashes>>

-----------------------------------------------------------------------------
(* Time passes; an invocation dies where it is. *)

Tick ==
  /\ today < LastDay
  /\ today' = today + 1
  /\ UNCHANGED <<rows, file, told, proc, crashes>>

Die(p) ==
  /\ ~ IsIdle(p)
  /\ crashes < MaxCrashes
  /\ crashes' = crashes + 1
  /\ proc' = [proc EXCEPT ![p] = Idle]
  /\ UNCHANGED <<rows, file, told, today>>

-----------------------------------------------------------------------------
Reconcile(p) == ReadClaim(p) \/ ReadPointer(p) \/ Stamp(p)

Request(c) ==
  \/ \E k \in Claims : SubmitCheck(c, k) \/ Review(c, k) \/ Revoke(c, k)
  \/ SubmitCreate(c) \/ SubmitLink(c)
  \/ Approve(c) \/ Reject(c) \/ Conflict(c)

Consume(x) ==
  \/ \E f \in Files : ScanRead(x, f)
  \/ ScanVerdict(x)
  \/ ScanOwner(x)
  \/ \E k \in Claims : SystemReject(x, k)

Guard(w) == WatchList(w) \/ (\E k \in Claims : Watch(w, k)) \/ Reconcile(w)

Sweep(s) == SweepList(s) \/ (\E k \in Claims : Expire(s, k) \/ Notice(s, k)) \/ Publish(s)

Next ==
  \/ \E c \in Callers : Request(c) \/ Reconcile(c) \/ Publish(c)
  \/ \E x \in Consumers : Consume(x) \/ Reconcile(x) \/ Publish(x)
  \/ \E w \in Watchdogs : Guard(w)
  \/ \E s \in Sweepers : Sweep(s)
  \/ \E k \in Claims : Withdraw(k)
  \/ \E p \in Procs : Die(p)
  \/ Tick

Spec == Init /\ [][Next]_vars

\* The watchdog and the sweep are scheduled for ever, and an invocation that starts
\* runs to its end: nothing is owed by requests, events and the scanner.
Fairness == (\A w \in Watchdogs : WF_vars(Guard(w))) /\ (\A s \in Sweepers : WF_vars(Sweep(s)))

FairSpec == Spec /\ Fairness

-----------------------------------------------------------------------------
TypeOK ==
  /\ claim \in [Claims -> [status : Live \cup {"none", "Rejected", "Withdrawn", "Revoked", "Expired"},
                           scan : {"None", "PendingScan", "Clean", "Quarantined"},
                           noticed : BOOLEAN]]
  /\ window \in [Claims -> {"none", "SCANWATCH", "EXPIRY"}]
  /\ slot \in [Certs \X Members -> [claim : Claims \cup {NoClaim}, approved : BOOLEAN]]
  /\ held \in [Certs -> Int]
  /\ file \in [Files -> [verdict : {"PendingScan", "Clean", "Quarantined"},
                         owner : Claims \cup {NoClaim}, seen : BOOLEAN]]
  /\ told \in [Claims -> [Events -> Nat]]
  /\ \A p \in DOMAIN proc :
       proc[p].pc \in {"create", "link", "reconcile", "pointer", "stamp", "review", "tell"}
         => proc[p].on \in Claims

\* A certification is claimed by a member at most once at a time: the slot holds
\* exactly the live claim and says what it is, and the counters exactly the
\* granted ones, whoever decides, withdraws, revokes and expires concurrently
\* (create_claim: "The slot's conditional put IS the community-wide duplicate
\* rule"; _transact_transition: "a counter can never diverge").
SlotsAndCountersAgree ==
  /\ \A k \in Claims :
       /\ claim[k].status \in Live <=> slot[SlotOf(k)].claim = k
       /\ claim[k].status \in Live =>
            slot[SlotOf(k)].approved = (claim[k].status = "Approved")
  /\ \A c \in Certs :
       held[c] = Cardinality({k \in Claims : For[k].cert = c /\ claim[k].status = "Approved"})

\* Nothing is granted on a file the scanner has not cleared, however the verdict
\* overtakes the submission (VerificationService.decide, BR-V3).
GrantedIsClean ==
  \A k \in Claims : claim[k].status \in {"Approved", "Revoked", "Expired"} =>
    IF For[k].file = NoFile THEN claim[k].scan = "None"
    ELSE claim[k].scan = "Clean" /\ Verdict(k) = "Clean"

\* Verdict and owner are written by two invocations, each of which then looks for
\* the other's: when nothing is left running and none has died, the claim that owns a
\* judged file carries the verdict, before the watchdog has looked (scan_reconcile:
\* "regardless of the order").
EvidenceConverges ==
  (\A p \in Callers \cup Consumers : IsIdle(p)) /\ crashes = 0 =>
    \A f \in Files : file[f].owner # NoClaim /\ file[f].verdict # "PendingScan" =>
      claim[file[f].owner].scan = file[f].verdict

\* Every event is published at most once and says what happened: two sweeps do not
\* both give notice, and a claim revoked as it falls due is not announced as expired
\* (ExpiryService: "two concurrent sweeps cannot double-fire").
NoticesAreTrue ==
  \A k \in Claims :
    /\ \A e \in Events : told[k][e] <= 1
    /\ \A e \in {"Rejected", "Revoked", "Expired"} : told[k][e] = 1 => claim[k].status = e
    /\ told[k]["Approved"] = 1 \/ told[k]["ExpiringSoon"] = 1 =>
         claim[k].status \in {"Approved", "Revoked", "Expired"}

\* No claim stays in scanning once the scanner has spoken, whichever invocation dies
\* (WatchdogService: "makes 'stuck in scanning' impossible to persist").
EvidenceSettles ==
  []<>(\A k \in {i \in Claims : For[i].file # NoFile} :
         claim[k].status = "Pending" /\ claim[k].scan = "PendingScan"
           => Verdict(k) = "PendingScan")

\* A certification granted on a link is withdrawn when it falls due, however late the
\* sweep comes and whoever dies in it (ExpiryService: "fully caught up").
DueClaimsExpire ==
  []<>(\A k \in {i \in Claims : For[i].file = NoFile /\ For[i].expires > 0} :
         claim[k].status = "Approved" => For[k].expires > today)

\* A granted claim that expires is in the expiry window (transition_to_approved:
\* "the claim can never be Approved-but-still-queued, expiring-but-unindexed").
ExpiringIsIndexed ==
  \A k \in Claims : claim[k].status = "Approved" /\ For[k].expires > 0 => window[k] = "EXPIRY"
=============================================================================
