------------------------------ MODULE Accounts ------------------------------
(***************************************************************************)
(* Accounts and sign-in of the identity service: an address gets an        *)
(* account in Cognito and a record in the portal by self-registration, by  *)
(* an Administrator, by an import or at its first login; it chooses its    *)
(* password by an emailed code, and signs in, with a one-time code when    *)
(* its mailbox was last verified too long ago.                             *)
(*                                                                         *)
(*   cognito[e]  "none", or password ("unset", "secret": generated and     *)
(*               never disclosed, "chosen") and enabled                    *)
(*   portal[e]   the USER# row: status ("none": no row), verified (the day *)
(*               of lastVerifiedAt, Never)                                 *)
(*   otp[h]      the challenge h: email ("none": no row), attempts, live   *)
(*   proof[e]    the day the owner of e last entered a code mailed to it   *)
(*   granted     the last session: its address, day, whether it had the    *)
(*               account enabled and an Active record                      *)
(*   compared[h] codes compared against h                                  *)
(*   created[e], announced[e]   accounts made, UserProvisioned published   *)
(*   call[c]     where c's request is, and what it has read                *)
(***************************************************************************)
EXTENDS Integers, FiniteSets

CONSTANTS Emails, Challenges, NoOne, Callers,
          IntervalDays, MaxAttempts,     \* otpIntervalDays, OTP_MAX_ATTEMPTS
          LastDay, Budgets

ASSUME NamesAssumption == NoOne \notin Emails
\* The settings accept an interval of 1 to 365 days (settings_service, require_int).
ASSUME NumbersAssumption ==
  IntervalDays \in Nat \ {0} /\ MaxAttempts \in Nat /\ LastDay \in Nat \ {0}
ASSUME BudgetAssumption ==
  Budgets \subseteq [request : Nat, beside : Nat, crash : Nat, died : {0}]

VARIABLES cognito, portal, otp, proof, granted, compared, created, announced,
          call, today, budget, overlap

stores == <<cognito, portal, otp>>
ghosts == <<proof, granted, compared, created, announced>>
vars == <<stores, ghosts, call, today, budget, overlap>>

Never == -IntervalDays
Account == [password : {"none", "unset", "secret", "chosen"}, enabled : BOOLEAN]
Row == [status : {"none", "Active", "Inactive"}, verified : {Never} \cup 1..LastDay]
NoRow == [status |-> "none", verified |-> Never]
NewRow == [status |-> "Active", verified |-> Never]
Challenge == [email : Emails \cup {NoOne}, attempts : 0..MaxAttempts, live : BOOLEAN]
NoChallenge == [email |-> NoOne, attempts |-> 0, live |-> FALSE]
Session == [email : Emails \cup {NoOne}, day : 0..LastDay, enabled : BOOLEAN, active : BOOLEAN]
Idle == [pc |-> "idle", email |-> NoOne, row |-> NoRow, otp |-> NoOne, right |-> FALSE]

Init ==
  /\ cognito = [e \in Emails |-> [password |-> "none", enabled |-> TRUE]]
  /\ portal = [e \in Emails |-> NoRow]
  /\ otp = [h \in Challenges |-> NoChallenge]
  /\ proof = [e \in Emails |-> Never]
  /\ granted = [email |-> NoOne, day |-> 0, enabled |-> TRUE, active |-> TRUE]
  /\ compared = [h \in Challenges |-> 0]
  /\ created = [e \in Emails |-> 0] /\ announced = [e \in Emails |-> 0]
  /\ call = [c \in Callers |-> Idle]
  /\ today = 1
  /\ budget \in Budgets
  /\ overlap = FALSE

-----------------------------------------------------------------------------
Exists(e) == cognito[e].password # "none"

Begin(c, frame) ==
  /\ call[c].pc = "idle"
  /\ LET beside == IF \A d \in Callers : call[d].pc = "idle" THEN 0 ELSE 1
     IN  /\ budget.request > 0 /\ budget.beside >= beside
         /\ budget' = [budget EXCEPT !.request = @ - 1, !.beside = @ - beside]
         /\ overlap' = (overlap \/ beside = 1)
  /\ call' = [call EXCEPT ![c] = frame]
  /\ UNCHANGED today

At(c, pc) == call[c].pc = pc
Goto(c, pc) ==
  call' = [call EXCEPT ![c].pc = pc] /\ UNCHANGED <<today, budget, overlap>>
Return(c) == call' = [call EXCEPT ![c] = Idle] /\ UNCHANGED <<today, budget, overlap>>

-----------------------------------------------------------------------------
(* Creating an account. *)

Create(c, e) ==
  /\ Begin(c, [Idle EXCEPT !.pc = "create", !.email = e])
  /\ UNCHANGED <<stores, ghosts>>

\* self_register looks whether there is an account or a record, and answers the
\* same when there is; an Administrator's create_user refuses then.
Register(c, e) == ~Exists(e) /\ portal[e] = NoRow /\ Create(c, e)
CreateUser(c, e) == ~Exists(e) /\ portal[e] = NoRow /\ Create(c, e)

\* bulk_import does not look: a duplicate shows when Cognito refuses it.
ImportRow(c, e) == Create(c, e)

\* admin_create_user, first call: Cognito refuses an address that has an account.
CognitoCreate(c) ==
  LET e == call[c].email
  IN  /\ At(c, "create")
      /\ IF Exists(e)
         THEN Return(c) /\ UNCHANGED <<cognito, created>>
         ELSE /\ cognito' = [cognito EXCEPT ![e] = [password |-> "unset", enabled |-> TRUE]]
              /\ created' = [created EXCEPT ![e] = @ + 1]
              /\ Goto(c, "password")
      /\ UNCHANGED <<portal, otp, proof, granted, compared, announced>>

\* admin_create_user, second call: a generated permanent password.
CognitoSetPassword(c) ==
  /\ At(c, "password")
  /\ cognito' = [cognito EXCEPT ![call[c].email].password = "secret"]
  /\ Goto(c, "record")
  /\ UNCHANGED <<portal, otp, ghosts>>

PutNewUser(c) ==
  /\ At(c, "record")
  /\ portal' = [portal EXCEPT ![call[c].email] = NewRow]
  /\ Goto(c, "announce")
  /\ UNCHANGED <<cognito, otp, ghosts>>

PublishProvisioned(c) ==
  /\ At(c, "announce")
  /\ announced' = [announced EXCEPT ![call[c].email] = @ + 1]
  /\ Return(c)
  /\ UNCHANGED <<stores, proof, granted, compared, created>>

-----------------------------------------------------------------------------
(* Resetting the password: Cognito mails a code and checks it. *)

ConfirmReset(c, e) ==
  /\ cognito[e].password \in {"secret", "chosen"} /\ cognito[e].enabled
  /\ cognito' = [cognito EXCEPT ![e].password = "chosen"]
  /\ proof' = [proof EXCEPT ![e] = today]
  /\ Begin(c, [Idle EXCEPT !.pc = "mailbox", !.email = e])
  /\ UNCHANGED <<portal, otp, granted, compared, created, announced>>

\* _mark_mailbox_verified; without a record it does nothing.
ReadMailboxOwner(c) ==
  /\ At(c, "mailbox")
  /\ LET row == portal[call[c].email]
     IN  IF row = NoRow THEN Return(c)
         ELSE /\ call' = [call EXCEPT ![c].pc = "stamp", ![c].row = row]
              /\ UNCHANGED <<today, budget, overlap>>
  /\ UNCHANGED <<stores, ghosts>>

\* The row is written back as read, with the day.
StampVerified(c) ==
  /\ At(c, "stamp")
  /\ portal' = [portal EXCEPT ![call[c].email] = [call[c].row EXCEPT !.verified = today]]
  /\ Return(c)
  /\ UNCHANGED <<cognito, otp, ghosts>>

-----------------------------------------------------------------------------
(* Signing in. *)

\* initiate_auth accepts the password; it refuses a disabled account.
Login(c, e) ==
  /\ cognito[e].password = "chosen" /\ cognito[e].enabled
  /\ Begin(c, [Idle EXCEPT !.pc = "resolve", !.email = e])
  /\ UNCHANGED <<stores, ghosts>>

\* _resolve_or_jit: the portal record, or a new one.
Resolve(c) ==
  /\ At(c, "resolve")
  /\ LET row == portal[call[c].email]
     IN  call' = [call EXCEPT ![c].pc = IF row = NoRow THEN "jit" ELSE "decide",
                              ![c].row = IF row = NoRow THEN NewRow ELSE row]
  /\ UNCHANGED <<stores, ghosts, today, budget, overlap>>

JitProvision(c) ==
  /\ At(c, "jit")
  /\ portal' = [portal EXCEPT ![call[c].email] = NewRow]
  /\ Goto(c, "jitAnnounce")
  /\ UNCHANGED <<cognito, otp, ghosts>>

JitAnnounce(c) ==
  /\ At(c, "jitAnnounce")
  /\ announced' = [announced EXCEPT ![call[c].email] = @ + 1]
  /\ Goto(c, "decide")
  /\ UNCHANGED <<stores, proof, granted, compared, created>>

\* _otp_due: a record that was never verified is due.
OtpDue(row) == today - row.verified >= IntervalDays

Grant(e) ==
  granted' = [email |-> e, day |-> today, enabled |-> cognito[e].enabled,
              active |-> portal[e].status = "Active"]

\* An inactive user is refused, one that is due gets a challenge, any other a session.
Decide(c) ==
  LET e == call[c].email
      row == call[c].row
  IN  /\ At(c, "decide")
      /\ Return(c)
      /\ CASE row.status = "Inactive" -> UNCHANGED <<otp, granted>>
           [] row.status # "Inactive" /\ OtpDue(row) ->
                /\ \E h \in Challenges :
                     /\ otp[h] = NoChallenge /\ compared[h] = 0
                     /\ otp' = [otp EXCEPT ![h] = [email |-> e, attempts |-> 0, live |-> TRUE]]
                /\ UNCHANGED granted
           [] OTHER -> Grant(e) /\ UNCHANGED otp
      /\ UNCHANGED <<cognito, portal, proof, compared, created, announced>>

\* verify_otp; right: the code is the one that was mailed.  get_otp hides an expired row.
VerifyOtp(c, h, right) ==
  /\ otp[h].live
  /\ Begin(c, [Idle EXCEPT !.pc = "attempt", !.otp = h, !.email = otp[h].email, !.right = right])
  /\ UNCHANGED <<stores, ghosts>>

\* increment_otp_attempts: conditional on the row and the limit; only then is the code compared.
IncrementAttempts(c) ==
  LET h == call[c].otp
  IN  /\ At(c, "attempt")
      /\ IF otp[h].email # NoOne /\ otp[h].attempts < MaxAttempts
         THEN /\ otp' = [otp EXCEPT ![h].attempts = @ + 1]
              /\ compared' = [compared EXCEPT ![h] = @ + 1]
              /\ IF call[c].right THEN Goto(c, "consume") ELSE Return(c)
         ELSE /\ Goto(c, "burn")
              /\ UNCHANGED <<otp, compared>>
      /\ UNCHANGED <<cognito, portal, proof, granted, created, announced>>

\* The limit is reached: the challenge is deleted.
BurnChallenge(c) ==
  /\ At(c, "burn")
  /\ otp' = [otp EXCEPT ![call[c].otp] = NoChallenge]
  /\ Return(c)
  /\ UNCHANGED <<cognito, portal, ghosts>>

\* delete_otp, then the user is read.
ConsumeChallenge(c) ==
  LET e == call[c].email
  IN  /\ At(c, "consume")
      /\ otp' = [otp EXCEPT ![call[c].otp] = NoChallenge]
      /\ proof' = [proof EXCEPT ![e] = today]
      /\ call' = [call EXCEPT ![c].pc = "verified", ![c].row = portal[e]]
      /\ UNCHANGED <<cognito, portal, granted, compared, created, announced, today, budget, overlap>>

\* The row is written back as read, and the session is the one the password step had.
FinishOtpLogin(c) ==
  LET e == call[c].email
  IN  /\ At(c, "verified")
      /\ portal' = [portal EXCEPT ![e] = [call[c].row EXCEPT !.verified = today]]
      /\ Grant(e)
      /\ Return(c)
      /\ UNCHANGED <<cognito, otp, proof, compared, created, announced>>

\* The clock passes expiresAt of a challenge.
ExpireChallenge(h) ==
  /\ otp[h].live
  /\ otp' = [otp EXCEPT ![h].live = FALSE]
  /\ UNCHANGED <<cognito, portal, ghosts, call, today, budget, overlap>>

-----------------------------------------------------------------------------
(* Disabling and enabling: Cognito first, then the record as it was read. *)

\* Mutant: Cognito is left alone.
SetEnabledInPortal(c, e, enabled) ==
  /\ portal[e] # NoRow
  /\ Begin(c, [Idle EXCEPT !.pc = "status", !.email = e,
                 !.row = [portal[e] EXCEPT !.status = IF enabled THEN "Active" ELSE "Inactive"]])
  /\ UNCHANGED <<stores, ghosts>>

SetEnabled(c, e, enabled) ==
  /\ portal[e] # NoRow
  /\ cognito' = [cognito EXCEPT ![e].enabled = enabled]
  /\ Begin(c, [Idle EXCEPT !.pc = "status", !.email = e,
                 !.row = [portal[e] EXCEPT !.status = IF enabled THEN "Active" ELSE "Inactive"]])
  /\ UNCHANGED <<portal, otp, ghosts>>

PutStatus(c) ==
  /\ At(c, "status")
  /\ portal' = [portal EXCEPT ![call[c].email] = call[c].row]
  /\ Return(c)
  /\ UNCHANGED <<cognito, otp, ghosts>>

-----------------------------------------------------------------------------
Crash(c) ==
  /\ call[c].pc # "idle" /\ budget.crash > 0
  /\ budget' = [budget EXCEPT !.crash = @ - 1, !.died = @ + 1]
  /\ call' = [call EXCEPT ![c] = Idle]
  /\ UNCHANGED <<stores, ghosts, today, overlap>>

NextDay ==
  /\ today < LastDay
  /\ today' = today + 1
  /\ otp' = [h \in Challenges |-> [otp[h] EXCEPT !.live = FALSE]]
  /\ \A c \in Callers : call[c].pc = "idle"
  /\ UNCHANGED <<cognito, portal, ghosts, call, budget, overlap>>

Request(c) ==
  \/ \E e \in Emails :
       \/ Register(c, e) \/ CreateUser(c, e) \/ ImportRow(c, e) \/ ConfirmReset(c, e) \/ Login(c, e)
       \/ \E enabled \in BOOLEAN : SetEnabled(c, e, enabled)
  \/ \E h \in Challenges, right \in BOOLEAN : VerifyOtp(c, h, right)

Step(c) ==
  \/ CognitoCreate(c) \/ CognitoSetPassword(c) \/ PutNewUser(c) \/ PublishProvisioned(c)
  \/ ReadMailboxOwner(c) \/ StampVerified(c)
  \/ Resolve(c) \/ JitProvision(c) \/ JitAnnounce(c) \/ Decide(c)
  \/ IncrementAttempts(c) \/ BurnChallenge(c) \/ ConsumeChallenge(c) \/ FinishOtpLogin(c)
  \/ PutStatus(c)

Next ==
  \/ \E c \in Callers : Request(c) \/ Step(c) \/ Crash(c)
  \/ \E h \in Challenges : ExpireChallenge(h)
  \/ NextDay

Spec == Init /\ [][Next]_vars

-----------------------------------------------------------------------------
(* Properties. *)

Quiet == \A c \in Callers : call[c].pc = "idle"

TypeOK ==
  /\ cognito \in [Emails -> Account] /\ portal \in [Emails -> Row]
  /\ otp \in [Challenges -> Challenge]
  /\ granted \in Session /\ overlap \in BOOLEAN

\* However registrations, imports and first logins race for an address, Cognito holds one
\* account of it, and only the request that made it, or a first login after it, writes a
\* fresh record: with one login at a time UserProvisioned is published once at most.
OneAccount ==
  \A e \in Emails : created[e] <= 1 /\ (~overlap => announced[e] <= 1)

\* Whoever gets a session has entered a code mailed to the address within the interval, on
\* whichever way the record was stamped and however stale the row that was written back.
SessionIsProven ==
  granted.email # NoOne => granted.day - proof[granted.email] < IntervalDays

\* Concurrent guesses are limited: no challenge is compared with more than MaxAttempts codes
\* (increment_otp_attempts).
GuessesAreLimited == \A h \in Challenges : compared[h] <= MaxAttempts

\* Cognito and the portal agree on who is disabled, when requests do not overlap or die.
StatusAgrees ==
  Quiet /\ ~overlap /\ budget.died = 0 =>
    \A e \in Emails : portal[e] # NoRow => (cognito[e].enabled <=> portal[e].status = "Active")

\* What an account promises, together.
AccountsHold == OneAccount /\ SessionIsProven /\ GuessesAreLimited /\ StatusAgrees
=============================================================================
