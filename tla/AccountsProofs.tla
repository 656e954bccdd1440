--------------------------- MODULE AccountsProofs ---------------------------
(***************************************************************************)
(* Theorems about Accounts for every set of addresses, challenges and      *)
(* callers, every interval, limit of attempts, number of days and budget.  *)
(***************************************************************************)
EXTENDS Accounts, TLAPS

-----------------------------------------------------------------------------
(* The inductive invariant. *)

Steps == {"idle", "create", "password", "record", "announce", "mailbox", "stamp", "resolve",
          "jit", "jitAnnounce", "decide", "attempt", "burn", "consume", "verified", "status"}
Frames == [pc : Steps, email : Emails \cup {NoOne}, row : Row, otp : Challenges \cup {NoOne},
           right : BOOLEAN]
Budget == [request : Nat, beside : Nat, crash : Nat, died : Nat]

Calls ==
  /\ call \in [Callers -> Frames]
  /\ \A c \in Callers :
       /\ call[c].pc # "idle" => call[c].email \in Emails
       /\ call[c].pc \in {"attempt", "burn", "consume"} => call[c].otp \in Challenges

Otps ==
  /\ otp \in [Challenges -> Challenge]
  /\ \A h \in Challenges : otp[h].live => otp[h].email \in Emails

\* What TypeOK leaves out: requests, days, the budget.
Shape ==
  /\ TypeOK /\ Calls /\ Otps
  /\ today \in 1..LastDay
  /\ proof \in [Emails -> {Never} \cup 1..LastDay]
  /\ compared \in [Challenges -> Nat]
  /\ created \in [Emails -> Nat] /\ announced \in [Emails -> Nat]
  /\ budget \in Budget

\* Requests that have looked for an account of their address, or made it.
KnowsAccount == Steps \ {"idle", "create"}
\* Requests that have looked for a record of their address, or made it.
KnowsRecord == {"announce", "stamp", "jitAnnounce", "decide", "attempt", "burn", "consume",
                "verified", "status"}
HoldsRow == {"stamp", "jit", "jitAnnounce", "decide", "verified", "status"}

HasRecord(e) == portal[e].status # "none"

\* A record belongs to an account, and only an account with a record is disabled.
Records ==
  /\ \A e \in Emails : /\ portal[e] # NoRow => HasRecord(e) /\ Exists(e)
                       /\ portal[e] = NoRow => cognito[e].enabled
  /\ \A h \in Challenges : otp[h].email # NoOne => HasRecord(otp[h].email)
  /\ \A c \in Callers :
       /\ call[c].pc \in KnowsAccount => Exists(call[c].email)
       /\ call[c].pc \in KnowsRecord => HasRecord(call[c].email)
       /\ call[c].pc \in HoldsRow => call[c].row.status # "none"

\* Until requests overlap, one moves at a time.
Alone ==
  ~overlap => \A c \in Callers : call[c].pc # "idle" =>
                \A d \in Callers \ {c} : call[d].pc = "idle"

\* An account is made once, and announced by whoever makes its first record.
Once ==
  /\ \A e \in Emails : created[e] <= 1 /\ (~Exists(e) => created[e] = 0)
  /\ ~overlap =>
       /\ \A e \in Emails : /\ announced[e] <= 1
                            /\ announced[e] # 0 => portal[e] # NoRow
       /\ \A c \in Callers :
            /\ call[c].pc \in {"password", "record", "jit"} => portal[call[c].email] = NoRow
            /\ call[c].pc \in {"announce", "jitAnnounce"} => announced[call[c].email] = 0

\* A stamped row, stored or held, is backed by a proof; a row is stamped on the day of one.
Proven ==
  /\ \A e \in Emails : proof[e] <= today /\ portal[e].verified <= proof[e]
  /\ \A c \in Callers :
       /\ call[c].pc \in HoldsRow => call[c].row.verified <= proof[call[c].email]
       /\ call[c].pc \in {"mailbox", "stamp", "verified"} => proof[call[c].email] = today
  /\ SessionIsProven

\* The attempts of a challenge are the codes compared against it.
Counted ==
  /\ GuessesAreLimited
  /\ \A h \in Challenges : otp[h].email # NoOne => compared[h] = otp[h].attempts

\* While requests neither overlap nor die, who is disabled is recorded, or about to be.
Agree ==
  ~overlap /\ budget.died = 0 =>
    /\ \A e \in Emails : portal[e] # NoRow =>
         \/ cognito[e].enabled <=> portal[e].status = "Active"
         \/ \E c \in Callers : call[c].pc = "status" /\ call[c].email = e
    /\ \A c \in Callers :
         /\ call[c].pc = "status" =>
              (cognito[call[c].email].enabled <=> call[c].row.status = "Active")
         /\ call[c].pc \in {"stamp", "verified"} =>
              call[c].row.status = portal[call[c].email].status

IInv == Shape /\ Records /\ Alone /\ Once /\ Proven /\ Counted /\ Agree

-----------------------------------------------------------------------------
LEMMA InitIInv == Init => IInv
  <1> SUFFICES ASSUME Init PROVE IInv
    OBVIOUS
  <1> USE NamesAssumption, NumbersAssumption, BudgetAssumption DEF Init, Idle, NoRow, Never
  <1>1. Shape
    <2>1. cognito \in [Emails -> Account] /\ portal \in [Emails -> Row]
      BY DEF Account, Row
    <2>2. otp \in [Challenges -> Challenge] /\ granted \in Session /\ overlap \in BOOLEAN
      <3>1. NoChallenge \in Challenge
        BY DEF Challenge, NoChallenge
      <3>2. granted \in Session
        BY DEF Session
      <3> QED
        BY <3>1, <3>2
    <2>3. TypeOK
      BY <2>1, <2>2 DEF TypeOK
    <2>4. call \in [Callers -> Frames] /\ \A c \in Callers : call[c].pc = "idle"
      BY DEF Frames, Steps, Row
    <2>5. budget \in Budget
      BY DEF Budget
    <2>6. \A h \in Challenges : ~ otp[h].live
      BY DEF NoChallenge
    <2>7. /\ proof \in [Emails -> {Never} \cup 1..LastDay] /\ today \in 1..LastDay
          /\ compared \in [Challenges -> Nat]
          /\ created \in [Emails -> Nat] /\ announced \in [Emails -> Nat]
      OBVIOUS
    <2> QED
      BY <2>2, <2>3, <2>4, <2>5, <2>6, <2>7 DEF Shape, Calls, Otps
  <1>2. Records /\ Alone /\ Once
    BY DEF Records, Alone, Once, Exists, KnowsAccount, KnowsRecord, HoldsRow, HasRecord, NoChallenge
  <1>3. Proven /\ Counted /\ Agree
    BY DEF Proven, SessionIsProven, Counted, GuessesAreLimited, NoChallenge, Agree, HoldsRow
  <1> QED
    BY <1>1, <1>2, <1>3 DEF IInv

-----------------------------------------------------------------------------
(* The records the actions write. *)

LEMMA NoRecords ==
  /\ Idle \in Frames /\ Idle.pc = "idle"
  /\ NoRow \in Row /\ NoRow.status = "none" /\ NoRow.verified = Never
  /\ NewRow \in Row /\ NewRow.status = "Active" /\ NewRow.verified = Never
  /\ NoChallenge \in Challenge /\ NoChallenge.email = NoOne /\ ~ NoChallenge.live
  /\ NoChallenge.attempts = 0
  BY NumbersAssumption DEF Idle, Frames, Steps, Row, NoRow, NewRow, NoChallenge, Challenge

LEMMA AccountEdit ==
  ASSUME NEW a \in Account, NEW b \in BOOLEAN, NEW p \in {"none", "unset", "secret", "chosen"}
  PROVE  /\ [a EXCEPT !.enabled = b] \in Account
         /\ [a EXCEPT !.enabled = b].enabled = b
         /\ [a EXCEPT !.enabled = b].password = a.password
         /\ [a EXCEPT !.password = p] \in Account
         /\ [a EXCEPT !.password = p].password = p
         /\ [a EXCEPT !.password = p].enabled = a.enabled
         /\ [password |-> p, enabled |-> b] \in Account
  BY DEF Account

-----------------------------------------------------------------------------
(* What the helpers of the actions do to the table of requests. *)

LEMMA BeginStep ==
  ASSUME Shape, NEW c \in Callers, NEW frame \in Frames, Begin(c, frame)
  PROVE  /\ call' \in [Callers -> Frames]
         /\ call'[c] = frame /\ call[c].pc = "idle"
         /\ \A d \in Callers \ {c} : call'[d] = call[d]
         /\ today' = today
         /\ budget' \in Budget /\ budget'.died = budget.died
         /\ overlap' \in BOOLEAN /\ (overlap => overlap')
         /\ ~overlap' => \A d \in Callers : call[d].pc = "idle"
  <1> DEFINE beside == IF \A d \in Callers : call[d].pc = "idle" THEN 0 ELSE 1
  <1>1. /\ budget.request > 0 /\ budget.beside >= beside
        /\ budget' = [budget EXCEPT !.request = @ - 1, !.beside = @ - beside]
        /\ overlap' = (overlap \/ beside = 1)
        /\ call[c].pc = "idle" /\ call' = [call EXCEPT ![c] = frame] /\ today' = today
    BY DEF Begin
  <1>2. beside \in {0, 1}
    OBVIOUS
  <1>3. budget' \in Budget /\ budget'.died = budget.died
    <2> DEFINE r == budget.request - 1
               b == budget.beside - beside
    <2> HIDE DEF beside
    <2>1. budget \in Budget
      BY DEF Shape
    <2>2. r \in Nat /\ b \in Nat
      BY <1>1, <1>2, <2>1 DEF Budget
    <2>3. budget' = [budget EXCEPT !.request = r, !.beside = b]
      BY <1>1
    <2> HIDE DEF r, b
    <2> QED
      BY <2>1, <2>2, <2>3 DEF Budget
  <1>4. ~overlap' => \A d \in Callers : call[d].pc = "idle"
    BY <1>1
  <1>5. overlap' \in BOOLEAN /\ (overlap => overlap')
    <2>1. overlap \in BOOLEAN
      BY DEF Shape, TypeOK
    <2> HIDE DEF beside
    <2> QED
      BY <1>1, <2>1
  <1>6. /\ call' \in [Callers -> Frames] /\ call'[c] = frame
        /\ \A d \in Callers \ {c} : call'[d] = call[d]
    BY <1>1 DEF Shape, Calls
  <1> QED
    BY <1>1, <1>3, <1>4, <1>5, <1>6

LEMMA GotoStep ==
  ASSUME Shape, NEW c \in Callers, NEW pc \in Steps, Goto(c, pc)
  PROVE  /\ call' \in [Callers -> Frames]
         /\ call'[c].pc = pc /\ call'[c].email = call[c].email /\ call'[c].row = call[c].row
         /\ call'[c].otp = call[c].otp
         /\ \A d \in Callers \ {c} : call'[d] = call[d]
         /\ UNCHANGED <<today, budget, overlap>>
  BY DEF Goto, Shape, Calls, Frames

LEMMA ReturnStep ==
  ASSUME Shape, NEW c \in Callers, Return(c)
  PROVE  /\ call' \in [Callers -> Frames]
         /\ call'[c].pc = "idle"
         /\ \A d \in Callers \ {c} : call'[d] = call[d]
         /\ UNCHANGED <<today, budget, overlap>>
  BY NoRecords DEF Return, Shape, Calls

Hold(c, pc, row) == call' = [call EXCEPT ![c].pc = pc, ![c].row = row]

LEMMA HoldStep ==
  ASSUME Shape, NEW c \in Callers, NEW pc \in Steps, NEW row \in Row,
         Hold(c, pc, row)
  PROVE  /\ call' \in [Callers -> Frames]
         /\ call'[c].pc = pc /\ call'[c].email = call[c].email /\ call'[c].row = row
         /\ call'[c].otp = call[c].otp
         /\ \A d \in Callers \ {c} : call'[d] = call[d]
  <1>1. call[c] \in Frames /\ call \in [Callers -> Frames]
    BY DEF Shape, Calls
  <1>2. call' = [call EXCEPT ![c] = [call[c] EXCEPT !.pc = pc, !.row = row]]
    BY DEF Hold
  <1> DEFINE f == [call[c] EXCEPT !.pc = pc, !.row = row]
  <1>3. /\ f \in Frames /\ f.pc = pc /\ f.row = row
        /\ f.email = call[c].email /\ f.otp = call[c].otp
    BY <1>1 DEF Frames
  <1> HIDE DEF f
  <1>4. call' = [call EXCEPT ![c] = f]
    BY <1>2 DEF f
  <1> QED
    BY <1>1, <1>3, <1>4

-----------------------------------------------------------------------------
(* The variables keep their types. *)

LEMMA ShapeStep == Shape /\ [Next]_vars => Shape'
  <1> SUFFICES ASSUME Shape, [Next]_vars PROVE Shape'
    OBVIOUS
  <1> USE NamesAssumption, NumbersAssumption DEF stores, ghosts, At
  <1>a. /\ cognito \in [Emails -> Account] /\ portal \in [Emails -> Row]
        /\ Otps /\ Calls /\ granted \in Session /\ today \in 1..LastDay
        /\ created \in [Emails -> Nat] /\ announced \in [Emails -> Nat]
        /\ compared \in [Challenges -> Nat] /\ proof \in [Emails -> {Never} \cup 1..LastDay]
        /\ budget \in Budget /\ overlap \in BOOLEAN
    BY DEF Shape, TypeOK
  <1>b. ASSUME cognito' \in [Emails -> Account], portal' \in [Emails -> Row],
               Otps', Calls', granted' \in Session, today' \in 1..LastDay,
               created' \in [Emails -> Nat], announced' \in [Emails -> Nat],
               compared' \in [Challenges -> Nat], proof' \in [Emails -> {Never} \cup 1..LastDay],
               budget' \in Budget, overlap' \in BOOLEAN
        PROVE  Shape'
    BY <1>a, <1>b DEF Shape, TypeOK, Otps
  <1>c. ASSUME UNCHANGED otp PROVE Otps'
    BY <1>a, <1>c DEF Otps
  <1>d. \A c \in Callers : call[c].pc # "idle" => call[c].email \in Emails
    BY <1>a DEF Calls
  \* What becomes of the requests when c begins, goes on or ends.
  <1>e. ASSUME NEW c \in Callers, NEW frame \in Frames, Begin(c, frame), frame.email \in Emails,
               frame.pc \in {"attempt", "burn", "consume"} => frame.otp \in Challenges
        PROVE  /\ Calls' /\ today' \in 1..LastDay
               /\ budget' \in Budget /\ overlap' \in BOOLEAN
    <2>1. /\ call' \in [Callers -> Frames] /\ call'[c] = frame
          /\ \A d \in Callers \ {c} : call'[d] = call[d]
          /\ today' = today /\ budget' \in Budget /\ overlap' \in BOOLEAN
      BY <1>e, BeginStep
    <2> QED
      BY <1>a, <1>e, <2>1 DEF Calls
  <1>f. ASSUME NEW c \in Callers, Return(c)
        PROVE  Calls' /\ UNCHANGED <<today, budget, overlap>>
    BY <1>a, <1>f, ReturnStep DEF Calls
  <1>g. ASSUME NEW c \in Callers, NEW pc \in Steps, Goto(c, pc), call[c].pc # "idle",
               pc \in {"attempt", "burn", "consume"} => call[c].pc = "attempt"
        PROVE  Calls' /\ UNCHANGED <<today, budget, overlap>>
    BY <1>a, <1>g, GotoStep DEF Calls
  <1>h. ASSUME NEW c \in Callers, NEW pc \in Steps \ {"attempt", "burn", "consume"},
               NEW row \in Row, Hold(c, pc, row),
               call[c].pc # "idle"
        PROVE  Calls'
    BY <1>a, <1>h, HoldStep DEF Calls
  <1>1. ASSUME NEW c \in Callers, NEW e \in Emails,
               Register(c, e) \/ CreateUser(c, e) \/ ImportRow(c, e) \/ Login(c, e)
        PROVE  Shape'
    <2>1. PICK pc \in {"create", "resolve"} : Begin(c, [Idle EXCEPT !.pc = pc, !.email = e])
      BY <1>1 DEF Register, CreateUser, ImportRow, Create, Login
    <2> DEFINE frame == [Idle EXCEPT !.pc = pc, !.email = e]
    <2>2. frame \in Frames /\ frame.pc = pc /\ frame.email = e
      BY DEF Idle, Frames, Steps, NoRow, Row
    <2>3. UNCHANGED <<stores, ghosts>> /\ Begin(c, frame)
      BY <1>1, <2>1 DEF Register, CreateUser, ImportRow, Create, Login
    <2> HIDE DEF frame
    <2> QED
      BY <1>a, <1>b, <1>c, <1>e, <2>2, <2>3
  <1>2. ASSUME NEW c \in Callers, NEW e \in Emails, ConfirmReset(c, e) PROVE Shape'
    <2> DEFINE frame == [Idle EXCEPT !.pc = "mailbox", !.email = e]
    <2>1. frame \in Frames /\ frame.pc = "mailbox" /\ frame.email = e
      BY DEF Idle, Frames, Steps, NoRow, Row
    <2>2. cognito' \in [Emails -> Account]
      BY <1>2, <1>a DEF ConfirmReset, Account
    <2>3. proof' \in [Emails -> {Never} \cup 1..LastDay]
      BY <1>2, <1>a DEF ConfirmReset
    <2>4. Begin(c, frame) /\ UNCHANGED <<portal, otp, granted, compared, created, announced>>
      BY <1>2 DEF ConfirmReset
    <2> HIDE DEF frame
    <2> QED
      BY <1>a, <1>b, <1>c, <1>e, <2>1, <2>2, <2>3, <2>4
  <1>3. ASSUME NEW c \in Callers, NEW e \in Emails, NEW enabled \in BOOLEAN,
               SetEnabled(c, e, enabled)
        PROVE  Shape'
    <2> DEFINE row == [portal[e] EXCEPT !.status = IF enabled THEN "Active" ELSE "Inactive"]
               frame == [Idle EXCEPT !.pc = "status", !.email = e, !.row = row]
    <2>1. row \in Row
      BY <1>a DEF Row
    <2>2. cognito' \in [Emails -> Account]
      BY <1>3, <1>a DEF SetEnabled, Account
    <2>3. Begin(c, frame) /\ UNCHANGED <<portal, otp, ghosts>>
      BY <1>3 DEF SetEnabled
    <2> HIDE DEF row
    <2>4. frame \in Frames /\ frame.pc = "status" /\ frame.email = e
      BY <2>1 DEF Idle, Frames, Steps
    <2> HIDE DEF frame
    <2> QED
      BY <1>a, <1>b, <1>c, <1>e, <2>2, <2>3, <2>4
  <1>4. ASSUME NEW c \in Callers, NEW h \in Challenges, NEW right \in BOOLEAN, VerifyOtp(c, h, right)
        PROVE  Shape'
    <2> DEFINE e == otp[h].email
               frame == [Idle EXCEPT !.pc = "attempt", !.otp = h, !.email = e, !.right = right]
    <2>1. e \in Emails
      BY <1>4, <1>a DEF VerifyOtp, Otps
    <2>2. Begin(c, frame) /\ UNCHANGED <<stores, ghosts>>
      BY <1>4 DEF VerifyOtp
    <2> HIDE DEF e
    <2>3. frame \in Frames /\ frame.pc = "attempt" /\ frame.email = e /\ frame.otp = h
      BY <2>1 DEF Idle, Frames, Steps, NoRow, Row
    <2> HIDE DEF frame
    <2> QED
      BY <1>a, <1>b, <1>c, <1>e, <2>1, <2>2, <2>3
  <1>5. ASSUME NEW c \in Callers, CognitoCreate(c) PROVE Shape'
    <2>1. CASE Return(c) /\ UNCHANGED <<cognito, created>>
      BY <1>5, <2>1, <1>a, <1>b, <1>c, <1>f DEF CognitoCreate
    <2>2. CASE /\ cognito' = [cognito EXCEPT ![call[c].email] = [password |-> "unset", enabled |-> TRUE]]
               /\ created' = [created EXCEPT ![call[c].email] = @ + 1]
               /\ Goto(c, "password")
      <3>1. cognito' \in [Emails -> Account] /\ created' \in [Emails -> Nat]
        BY <1>5, <1>a, <1>d, <2>2 DEF CognitoCreate, Account
      <3>2. "password" \in Steps
        BY DEF Steps
      <3> QED
        BY <1>5, <1>a, <1>b, <1>c, <1>g, <2>2, <3>1, <3>2 DEF CognitoCreate
    <2> QED
      BY <1>5, <2>1, <2>2 DEF CognitoCreate
  <1>6. ASSUME NEW c \in Callers, CognitoSetPassword(c) PROVE Shape'
    <2>1. cognito' \in [Emails -> Account]
      BY <1>6, <1>a, <1>d DEF CognitoSetPassword, Account
    <2>2. "record" \in Steps
      BY DEF Steps
    <2> QED
      BY <1>6, <1>a, <1>b, <1>c, <1>g, <2>1, <2>2 DEF CognitoSetPassword
  <1>7. ASSUME NEW c \in Callers, PutNewUser(c) \/ JitProvision(c) PROVE Shape'
    <2>1. portal' \in [Emails -> Row]
      BY <1>7, <1>a, <1>d, NoRecords DEF PutNewUser, JitProvision
    <2>2. {"announce", "jitAnnounce"} \subseteq Steps
      BY DEF Steps
    <2> QED
      BY <1>7, <1>a, <1>b, <1>c, <1>g, <2>1, <2>2 DEF PutNewUser, JitProvision
  <1>8. ASSUME NEW c \in Callers, PublishProvisioned(c) \/ JitAnnounce(c) PROVE Shape'
    <2>1. announced' \in [Emails -> Nat]
      BY <1>8, <1>a, <1>d DEF PublishProvisioned, JitAnnounce
    <2>2. "decide" \in Steps
      BY DEF Steps
    <2> QED
      BY <1>8, <1>a, <1>b, <1>c, <1>f, <1>g, <2>1, <2>2 DEF PublishProvisioned, JitAnnounce
  <1>9. ASSUME NEW c \in Callers, ReadMailboxOwner(c) PROVE Shape'
    <2>1. CASE Return(c)
      BY <1>9, <1>a, <1>b, <1>c, <1>f, <2>1 DEF ReadMailboxOwner
    <2>2. CASE Hold(c, "stamp", portal[call[c].email])
                /\ UNCHANGED <<today, budget, overlap>>
      <3>1. "stamp" \in Steps \ {"attempt", "burn", "consume"} /\ portal[call[c].email] \in Row
        BY <1>9, <1>a, <1>d DEF ReadMailboxOwner, Steps
      <3>2. Calls'
        BY <1>9, <1>h, <2>2, <3>1 DEF ReadMailboxOwner
      <3> QED
        BY <1>9, <1>a, <1>b, <1>c, <2>2, <3>2 DEF ReadMailboxOwner
    <2> QED
      BY <1>9, <2>1, <2>2 DEF ReadMailboxOwner, Hold
  <1>10. ASSUME NEW c \in Callers, Resolve(c) PROVE Shape'
    <2> DEFINE row == portal[call[c].email]
               next == IF row = NoRow THEN "jit" ELSE "decide"
               held == IF row = NoRow THEN NewRow ELSE row
    <2>1. Hold(c, next, held)
      BY <1>10 DEF Resolve, Hold
    <2>2. next \in Steps \ {"attempt", "burn", "consume"} /\ held \in Row
      BY <1>10, <1>a, <1>d, NoRecords DEF Resolve, Steps
    <2> HIDE DEF next, held
    <2>3. Calls'
      BY <1>10, <1>h, <2>1, <2>2 DEF Resolve
    <2> QED
      BY <1>10, <1>a, <1>b, <1>c, <2>3 DEF Resolve
  <1>11. ASSUME NEW c \in Callers, StampVerified(c) \/ PutStatus(c) PROVE Shape'
    <2>1. call[c].row \in Row
      BY <1>a DEF Calls, Frames
    <2>2. [call[c].row EXCEPT !.verified = today] \in Row
      BY <1>a, <2>1 DEF Row
    <2>3. portal' \in [Emails -> Row]
      BY <1>11, <1>a, <1>d, <2>1, <2>2 DEF StampVerified, PutStatus
    <2> QED
      BY <1>11, <1>a, <1>b, <1>c, <1>f, <2>3 DEF StampVerified, PutStatus
  <1>12. ASSUME NEW e \in Emails, Grant(e) PROVE granted' \in Session
    <2>1. cognito[e].enabled \in BOOLEAN /\ today \in 0..LastDay
      BY <1>a DEF Account
    <2> QED
      BY <1>12, <2>1 DEF Grant, Session
  <1>13. ASSUME NEW c \in Callers, Decide(c) PROVE Shape'
    <2> DEFINE e == call[c].email
    <2>1. e \in Emails
      BY <1>13, <1>d DEF Decide
    <2>2. UNCHANGED otp \/ \E h \in Challenges :
             otp' = [otp EXCEPT ![h] = [email |-> e, attempts |-> 0, live |-> TRUE]]
      BY <1>13 DEF Decide
    <2>3. UNCHANGED granted \/ Grant(e)
      BY <1>13 DEF Decide
    <2> HIDE DEF e
    <2>4. [email |-> e, attempts |-> 0, live |-> TRUE] \in Challenge
      BY <2>1 DEF Challenge
    <2>5. ASSUME NEW h \in Challenges,
                 otp' = [otp EXCEPT ![h] = [email |-> e, attempts |-> 0, live |-> TRUE]]
          PROVE  Otps'
      <3> DEFINE first == [email |-> e, attempts |-> 0, live |-> TRUE]
      <3>1. first \in Challenge /\ first.email = e
        BY <2>4
      <3>2. otp' = [otp EXCEPT ![h] = first]
        BY <2>5
      <3> HIDE DEF first
      <3>3. otp \in [Challenges -> Challenge] /\ \A g \in Challenges : otp[g].live => otp[g].email \in Emails
        BY <1>a DEF Otps
      <3>4. otp' \in [Challenges -> Challenge]
        BY <3>1, <3>2, <3>3
      <3>5. ASSUME NEW g \in Challenges, otp'[g].live PROVE otp'[g].email \in Emails
        BY <2>1, <3>1, <3>2, <3>3, <3>5
      <3> QED
        BY <3>4, <3>5 DEF Otps
    <2>6. Otps'
      BY <1>c, <2>2, <2>5
    <2> QED
      BY <1>13, <1>a, <1>b, <1>f, <1>12, <2>1, <2>3, <2>6 DEF Decide
  <1>14. ASSUME NEW c \in Callers, IncrementAttempts(c) PROVE Shape'
    <2> DEFINE h == call[c].otp
    <2>1. h \in Challenges /\ call[c].pc = "attempt"
      BY <1>14, <1>a DEF IncrementAttempts, Calls
    <2>2. CASE /\ otp[h].attempts < MaxAttempts
               /\ otp' = [otp EXCEPT ![h].attempts = @ + 1]
               /\ compared' = [compared EXCEPT ![h] = @ + 1]
               /\ Goto(c, "consume") \/ Return(c)
      <3> HIDE DEF h
      <3>1. otp[h].attempts + 1 \in 0..MaxAttempts
        BY <1>a, <2>1, <2>2 DEF Otps, Challenge
      <3>2. Otps'
        BY <1>a, <2>1, <2>2, <3>1 DEF Otps, Challenge
      <3>3. compared' \in [Challenges -> Nat]
        BY <1>a, <2>1, <2>2
      <3>4. "consume" \in Steps
        BY DEF Steps
      <3> QED
        BY <1>14, <1>a, <1>b, <1>f, <1>g, <2>1, <2>2, <3>2, <3>3, <3>4 DEF IncrementAttempts
    <2>3. CASE Goto(c, "burn") /\ UNCHANGED <<otp, compared>>
      <3>1. "burn" \in Steps
        BY DEF Steps
      <3> QED
        BY <1>14, <1>a, <1>b, <1>c, <1>g, <2>1, <2>3, <3>1 DEF IncrementAttempts
    <2> QED
      BY <1>14, <2>2, <2>3 DEF IncrementAttempts
  <1>15. ASSUME NEW c \in Callers, BurnChallenge(c) PROVE Shape'
    <2>1. Otps'
      BY <1>15, <1>a, NoRecords DEF BurnChallenge, Otps
    <2> QED
      BY <1>15, <1>a, <1>b, <1>f, <2>1 DEF BurnChallenge
  <1>16. ASSUME NEW c \in Callers, ConsumeChallenge(c) PROVE Shape'
    <2>1. Otps'
      BY <1>16, <1>a, NoRecords DEF ConsumeChallenge, Otps
    <2>2. /\ "verified" \in Steps \ {"attempt", "burn", "consume"}
          /\ call[c].email \in Emails /\ portal[call[c].email] \in Row
      BY <1>16, <1>a, <1>d DEF ConsumeChallenge, Steps
    <2>3. Calls'
      <3>1. Hold(c, "verified", portal[call[c].email])
        BY <1>16 DEF ConsumeChallenge, Hold
      <3> QED
        BY <1>16, <1>h, <2>2, <3>1 DEF ConsumeChallenge
    <2>4. proof' \in [Emails -> {Never} \cup 1..LastDay]
      BY <1>16, <1>a, <2>2 DEF ConsumeChallenge
    <2> QED
      BY <1>16, <1>a, <1>b, <2>1, <2>3, <2>4 DEF ConsumeChallenge
  <1>17. ASSUME NEW c \in Callers, FinishOtpLogin(c) PROVE Shape'
    <2>1. call[c].row \in Row /\ call[c].email \in Emails
      BY <1>17, <1>a, <1>d DEF FinishOtpLogin, Calls, Frames
    <2>2. [call[c].row EXCEPT !.verified = today] \in Row
      BY <1>a, <2>1 DEF Row
    <2>3. portal' \in [Emails -> Row]
      BY <1>17, <1>a, <2>1, <2>2 DEF FinishOtpLogin
    <2> QED
      BY <1>17, <1>a, <1>b, <1>c, <1>f, <1>12, <2>1, <2>3 DEF FinishOtpLogin
  <1>18. ASSUME NEW c \in Callers, Crash(c) PROVE Shape'
    <2>1. Calls'
      BY <1>18, <1>a, NoRecords DEF Crash, Calls
    <2>2. budget' \in Budget
      <3>1. /\ budget \in Budget /\ budget.crash > 0
            /\ budget' = [budget EXCEPT !.crash = @ - 1, !.died = @ + 1]
        BY <1>18, <1>a DEF Crash
      <3>2. budget.crash - 1 \in Nat /\ budget.died + 1 \in Nat
        BY <3>1 DEF Budget
      <3> QED
        BY <3>1, <3>2 DEF Budget
    <2> QED
      BY <1>18, <1>a, <1>b, <1>c, <2>1, <2>2 DEF Crash
  <1>19. ASSUME NEW h \in Challenges, ExpireChallenge(h) PROVE Shape'
    <2>1. [otp[h] EXCEPT !.live = FALSE] \in Challenge /\ ~ [otp[h] EXCEPT !.live = FALSE].live
      <3>1. otp[h] \in Challenge
        BY <1>a DEF Otps
      <3> QED
        BY <3>1 DEF Challenge
    <2>2. otp' = [otp EXCEPT ![h] = [otp[h] EXCEPT !.live = FALSE]]
      BY <1>19 DEF ExpireChallenge
    <2>3. Otps'
      BY <1>a, <2>1, <2>2 DEF Otps
    <2> QED
      BY <1>19, <1>a, <1>b, <2>3 DEF ExpireChallenge, Calls
  <1>20. CASE NextDay
    <2>1. \A h \in Challenges : /\ [otp[h] EXCEPT !.live = FALSE] \in Challenge
                                 /\ ~ [otp[h] EXCEPT !.live = FALSE].live
      <3> TAKE h \in Challenges
      <3>1. otp[h] \in Challenge
        BY <1>a DEF Otps
      <3> QED
        BY <3>1 DEF Challenge
    <2>2. otp' = [h \in Challenges |-> [otp[h] EXCEPT !.live = FALSE]]
      BY <1>20 DEF NextDay
    <2>3. Otps'
      BY <2>1, <2>2 DEF Otps
    <2> QED
      BY <1>20, <1>a, <1>b, <2>3 DEF NextDay, Calls
  <1>21. CASE UNCHANGED vars
    BY <1>21, <1>a, <1>b, <1>c DEF vars, Calls
  <1> QED
    BY <1>1, <1>2, <1>3, <1>4, <1>5, <1>6, <1>7, <1>8, <1>9, <1>10, <1>11, <1>12, <1>13, <1>14,
       <1>15, <1>16, <1>17, <1>18, <1>19, <1>20, <1>21
    DEF Next, Request, Step

-----------------------------------------------------------------------------
(* Accounts and records are never taken away. *)

LEMMA Types ==
  Shape => /\ \A e \in Emails : cognito[e] \in Account /\ portal[e] \in Row
           /\ cognito \in [Emails -> Account] /\ portal \in [Emails -> Row]
           /\ otp \in [Challenges -> Challenge]
           /\ \A h \in Challenges : otp[h] \in Challenge /\ (otp[h].live => otp[h].email \in Emails)
           /\ call \in [Callers -> Frames]
           /\ \A c \in Callers :
                /\ call[c] \in Frames
                /\ call[c].pc # "idle" => call[c].email \in Emails
                /\ call[c].pc \in {"attempt", "burn", "consume"} => call[c].otp \in Challenges
  BY DEF Shape, TypeOK, Calls, Otps

\* A row is there when its status says so: no action writes a row without one.
LEMMA RowThere ==
  ASSUME Records, NEW e \in Emails
  PROVE  HasRecord(e) <=> portal[e] # NoRow
  BY NoRecords DEF Records, HasRecord

\* The stores that a step changes, it changes at the address of its request.
LEMMA Kept ==
  ASSUME Shape, Records, [Next]_vars, NEW e \in Emails
  PROVE  /\ Exists(e) => Exists(e)'
         /\ HasRecord(e) => HasRecord(e)'
  <1> USE Types DEF Exists, HasRecord, stores, ghosts, At
  <1>1. ASSUME UNCHANGED <<cognito, portal>>
        PROVE  (Exists(e) => Exists(e)') /\ (HasRecord(e) => HasRecord(e)')
    BY <1>1
  <1>2. ASSUME NEW c \in Callers, NEW f \in Emails,
               Register(c, f) \/ CreateUser(c, f) \/ ImportRow(c, f) \/ Login(c, f)
        PROVE  UNCHANGED <<cognito, portal>>
    BY <1>2 DEF Register, CreateUser, ImportRow, Create, Login
  <1>3. ASSUME NEW c \in Callers, NEW h \in Challenges, NEW right \in BOOLEAN, VerifyOtp(c, h, right)
        PROVE  UNCHANGED <<cognito, portal>>
    BY <1>3 DEF VerifyOtp
  <1>4. ASSUME NEW c \in Callers,
               \/ PublishProvisioned(c) \/ ReadMailboxOwner(c) \/ Resolve(c) \/ JitAnnounce(c)
               \/ Decide(c) \/ IncrementAttempts(c) \/ BurnChallenge(c) \/ ConsumeChallenge(c)
               \/ Crash(c)
        PROVE  UNCHANGED <<cognito, portal>>
    BY <1>4 DEF PublishProvisioned, ReadMailboxOwner, Resolve, JitAnnounce, Decide,
                IncrementAttempts, BurnChallenge, ConsumeChallenge, Crash
  <1>5. ASSUME NextDay \/ (\E h \in Challenges : ExpireChallenge(h)) \/ UNCHANGED vars
        PROVE  UNCHANGED <<cognito, portal>>
    BY <1>5 DEF NextDay, ExpireChallenge, vars
  \* Cognito.
  <1>6. ASSUME NEW c \in Callers, NEW f \in Emails, ConfirmReset(c, f)
        PROVE  (Exists(e) => Exists(e)') /\ UNCHANGED portal
    BY <1>6, AccountEdit DEF ConfirmReset, Account
  <1>7. ASSUME NEW c \in Callers, NEW f \in Emails, NEW b \in BOOLEAN, SetEnabled(c, f, b)
        PROVE  (Exists(e) => Exists(e)') /\ UNCHANGED portal
    BY <1>7, AccountEdit DEF SetEnabled, Account
  <1>8. ASSUME NEW c \in Callers, CognitoCreate(c) \/ CognitoSetPassword(c)
        PROVE  (Exists(e) => Exists(e)') /\ UNCHANGED portal
    BY <1>8 DEF CognitoCreate, CognitoSetPassword, Account
  \* The portal.
  <1>9. ASSUME NEW c \in Callers, PutNewUser(c) \/ JitProvision(c)
        PROVE  (HasRecord(e) => HasRecord(e)') /\ UNCHANGED cognito
    BY <1>9, NoRecords DEF PutNewUser, JitProvision
  <1>10. ASSUME NEW c \in Callers, StampVerified(c) \/ PutStatus(c) \/ FinishOtpLogin(c)
         PROVE  (HasRecord(e) => HasRecord(e)') /\ UNCHANGED cognito
    <2>1. call[c].row.status # "none" /\ call[c].row \in Row /\ call[c].email \in Emails
      BY <1>10 DEF StampVerified, PutStatus, FinishOtpLogin, Records, HoldsRow, Frames
    <2>2. [call[c].row EXCEPT !.verified = today].status = call[c].row.status
      BY <2>1 DEF Row
    <2>3. PICK row : /\ portal' = [portal EXCEPT ![call[c].email] = row]
                     /\ row.status # "none"
      BY <1>10, <2>1, <2>2 DEF StampVerified, PutStatus, FinishOtpLogin
    <2> QED
      BY <1>10, <2>1, <2>3 DEF StampVerified, PutStatus, FinishOtpLogin
  <1> QED
    BY <1>1, <1>2, <1>3, <1>4, <1>5, <1>6, <1>7, <1>8, <1>9, <1>10 DEF Next, Request, Step

-----------------------------------------------------------------------------
(* Records: one part for the rows, one for the challenges, one for a request. *)

RowOK(e) == /\ portal[e] # NoRow => HasRecord(e) /\ Exists(e)
            /\ portal[e] = NoRow => cognito[e].enabled
OtpOK(h) == otp[h].email # NoOne => HasRecord(otp[h].email)
CallOK(c) == /\ call[c].pc \in KnowsAccount => Exists(call[c].email)
             /\ call[c].pc \in KnowsRecord => HasRecord(call[c].email)
             /\ call[c].pc \in HoldsRow => call[c].row.status # "none"

LEMMA RecordsStep == Shape /\ Records /\ [Next]_vars => Records'
  <1> SUFFICES ASSUME Shape, Records, [Next]_vars PROVE Records'
    OBVIOUS
  <1> USE NamesAssumption DEF stores, ghosts, At
  <1>a. /\ \A e \in Emails : RowOK(e)
        /\ \A h \in Challenges : OtpOK(h)
        /\ \A c \in Callers : CallOK(c)
    BY DEF Records, RowOK, OtpOK, CallOK
  <1>b. Shape'
    BY ShapeStep
  <1>c. \A e \in Emails : /\ Exists(e) => Exists(e)'
                          /\ HasRecord(e) => HasRecord(e)'
    BY Kept
  <1>d. \A h \in Challenges : otp[h].email = NoOne \/ otp[h].email \in Emails
    BY Types DEF Challenge
  \* A record that there is, of an account that there is.
  <1>e. \A e \in Emails : HasRecord(e) => Exists(e) /\ portal[e] # NoRow
    BY <1>a, RowThere DEF RowOK
  \* What a step leaves alone stays right.
  <1>1. ASSUME NEW e \in Emails, UNCHANGED <<cognito, portal>> PROVE RowOK(e)'
    BY <1>1, <1>a DEF RowOK, HasRecord, Exists
  <1>2. ASSUME NEW h \in Challenges, otp'[h].email = otp[h].email PROVE OtpOK(h)'
    BY <1>2, <1>a, <1>c, <1>d DEF OtpOK
  <1>3. ASSUME NEW c \in Callers, call'[c] = call[c] PROVE CallOK(c)'
    <2>1. call[c].pc \in KnowsAccount \cup KnowsRecord => call[c].email \in Emails
      BY Types DEF KnowsAccount, KnowsRecord
    <2> QED
      BY <1>3, <1>a, <1>c, <2>1 DEF CallOK
  <1>4. ASSUME NEW c \in Callers, call'[c].pc = "idle" PROVE CallOK(c)'
    BY <1>4 DEF CallOK, KnowsAccount, KnowsRecord, HoldsRow
  <1>5. ASSUME \A e \in Emails : RowOK(e)', \A h \in Challenges : OtpOK(h)',
               \A c \in Callers : CallOK(c)'
        PROVE  Records'
    BY <1>5 DEF Records, RowOK, OtpOK, CallOK
  \* The requests begin.
  <1>6. ASSUME NEW c \in Callers, NEW e \in Emails,
               Register(c, e) \/ CreateUser(c, e) \/ ImportRow(c, e)
        PROVE  Records'
    <2> DEFINE frame == [Idle EXCEPT !.pc = "create", !.email = e]
    <2>1. frame \in Frames /\ frame.pc = "create"
      BY DEF Idle, Frames, Steps, NoRow, Row
    <2>2. UNCHANGED <<cognito, portal, otp>> /\ Begin(c, frame)
      BY <1>6 DEF Register, CreateUser, ImportRow, Create
    <2> HIDE DEF frame
    <2>3. call'[c].pc = "create" /\ \A d \in Callers \ {c} : call'[d] = call[d]
      BY <2>1, <2>2, BeginStep
    <2>4. CallOK(c)'
      BY <2>3 DEF CallOK, KnowsAccount, KnowsRecord, HoldsRow
    <2> QED
      BY <1>1, <1>2, <1>3, <1>5, <2>2, <2>3, <2>4
  <1>7. ASSUME NEW c \in Callers, NEW e \in Emails, Login(c, e) PROVE Records'
    <2> DEFINE frame == [Idle EXCEPT !.pc = "resolve", !.email = e]
    <2>1. frame \in Frames /\ frame.pc = "resolve" /\ frame.email = e
      BY DEF Idle, Frames, Steps, NoRow, Row
    <2>2. UNCHANGED <<cognito, portal, otp>> /\ Begin(c, frame) /\ Exists(e)
      BY <1>7 DEF Login, Exists
    <2> HIDE DEF frame
    <2>3. call'[c] = frame /\ \A d \in Callers \ {c} : call'[d] = call[d]
      BY <2>1, <2>2, BeginStep
    <2>4. CallOK(c)'
      BY <1>c, <2>1, <2>2, <2>3 DEF CallOK, KnowsAccount, KnowsRecord, HoldsRow
    <2> QED
      BY <1>1, <1>2, <1>3, <1>5, <2>2, <2>3, <2>4
  <1>8. ASSUME NEW c \in Callers, NEW e \in Emails, ConfirmReset(c, e) PROVE Records'
    <2> DEFINE frame == [Idle EXCEPT !.pc = "mailbox", !.email = e]
    <2>1. frame \in Frames /\ frame.pc = "mailbox" /\ frame.email = e
      BY DEF Idle, Frames, Steps, NoRow, Row
    <2>2. UNCHANGED <<portal, otp>> /\ Begin(c, frame) /\ Exists(e)
      BY <1>8 DEF ConfirmReset, Exists
    <2> HIDE DEF frame
    <2>3. call'[c] = frame /\ \A d \in Callers \ {c} : call'[d] = call[d]
      BY <2>1, <2>2, BeginStep
    <2>4. CallOK(c)'
      BY <1>c, <2>1, <2>2, <2>3 DEF CallOK, KnowsAccount, KnowsRecord, HoldsRow
    <2>5. \A f \in Emails : cognito'[f].enabled = cognito[f].enabled
      BY <1>8, Types DEF ConfirmReset, Account
    <2>6. \A f \in Emails : RowOK(f)'
      BY <1>a, <1>c, <2>2, <2>5 DEF RowOK, HasRecord
    <2> QED
      BY <1>2, <1>3, <1>5, <2>2, <2>3, <2>4, <2>6
  <1>9. ASSUME NEW c \in Callers, NEW e \in Emails, NEW enabled \in BOOLEAN,
               SetEnabled(c, e, enabled)
        PROVE  Records'
    <2> DEFINE row == [portal[e] EXCEPT !.status = IF enabled THEN "Active" ELSE "Inactive"]
               frame == [Idle EXCEPT !.pc = "status", !.email = e, !.row = row]
    <2>1. row \in Row /\ row.status # "none"
      BY Types DEF Row
    <2>2. Begin(c, frame) /\ UNCHANGED <<portal, otp>> /\ HasRecord(e) /\ Exists(e)
      BY <1>9, <1>a DEF SetEnabled, RowOK
    <2>3. \A f \in Emails : f # e => cognito'[f] = cognito[f]
      BY <1>9, Types DEF SetEnabled
    <2> HIDE DEF row
    <2>4. frame \in Frames /\ frame.pc = "status" /\ frame.email = e /\ frame.row = row
      BY <2>1 DEF Idle, Frames, Steps
    <2> HIDE DEF frame
    <2>5. call'[c] = frame /\ \A d \in Callers \ {c} : call'[d] = call[d]
      BY <2>2, <2>4, BeginStep
    <2>6. CallOK(c)'
      BY <1>c, <2>1, <2>2, <2>4, <2>5 DEF CallOK, KnowsAccount, KnowsRecord, HoldsRow
    <2>7. \A f \in Emails : RowOK(f)'
      BY <1>9, <1>a, <1>c, <2>2, <2>3 DEF RowOK, HasRecord, SetEnabled
    <2> QED
      BY <1>2, <1>3, <1>5, <2>2, <2>5, <2>6, <2>7
  <1>10. ASSUME NEW c \in Callers, NEW h \in Challenges, NEW right \in BOOLEAN, VerifyOtp(c, h, right)
         PROVE  Records'
    <2> DEFINE e == otp[h].email
               frame == [Idle EXCEPT !.pc = "attempt", !.otp = h, !.email = e, !.right = right]
    <2>1. e \in Emails /\ HasRecord(e)
      BY <1>10, <1>a, Types DEF VerifyOtp, OtpOK
    <2>2. Begin(c, frame) /\ UNCHANGED <<cognito, portal, otp>>
      BY <1>10 DEF VerifyOtp
    <2> HIDE DEF e
    <2>3. frame \in Frames /\ frame.pc = "attempt" /\ frame.email = e
      BY <2>1 DEF Idle, Frames, Steps, NoRow, Row
    <2> HIDE DEF frame
    <2>4. call'[c] = frame /\ \A d \in Callers \ {c} : call'[d] = call[d]
      BY <2>2, <2>3, BeginStep
    <2>5. CallOK(c)'
      BY <1>c, <1>e, <2>1, <2>3, <2>4 DEF CallOK, KnowsAccount, KnowsRecord, HoldsRow
    <2> QED
      BY <1>1, <1>2, <1>3, <1>5, <2>2, <2>4, <2>5
  \* A request that goes on knows what it knew, and what it has just made.
  <1>11. ASSUME NEW c \in Callers, NEW e \in Emails, NEW pc \in Steps, Goto(c, pc),
                call[c].email = e, Exists(e)', pc \in KnowsRecord => HasRecord(e)',
                pc \in HoldsRow => call[c].row.status # "none"
         PROVE  \A d \in Callers : CallOK(d)'
    <2>1. /\ call'[c].pc = pc /\ call'[c].email = e /\ call'[c].row = call[c].row
          /\ \A d \in Callers \ {c} : call'[d] = call[d]
      BY <1>11, GotoStep
    <2>2. CallOK(c)'
      BY <1>11, <2>1 DEF CallOK
    <2> QED
      BY <1>3, <2>1, <2>2
  <1>12. ASSUME NEW c \in Callers, Return(c) PROVE \A d \in Callers : CallOK(d)'
    BY <1>12, <1>3, <1>4, ReturnStep
  <1>13. ASSUME NEW c \in Callers, CognitoCreate(c) PROVE Records'
    <2>1. CASE Return(c) /\ UNCHANGED <<cognito, portal, otp>>
      BY <1>1, <1>2, <1>5, <1>12, <2>1
    <2>2. CASE /\ cognito' = [cognito EXCEPT ![call[c].email] = [password |-> "unset", enabled |-> TRUE]]
               /\ Goto(c, "password") /\ UNCHANGED <<portal, otp>>
      <3>1. call[c].email \in Emails /\ call[c].pc = "create" /\ "password" \in Steps
        BY <1>13, Types DEF CognitoCreate, Steps
      <3>2. /\ cognito'[call[c].email].enabled
            /\ \A f \in Emails : f # call[c].email => cognito'[f] = cognito[f]
            /\ \A f \in Emails : f = call[c].email => Exists(f)'
        BY <2>2, <3>1, Types DEF Exists
      <3>3. \A f \in Emails : RowOK(f)'
        BY <1>a, <1>c, <2>2, <3>1, <3>2 DEF RowOK, HasRecord
      <3>4. \A d \in Callers : CallOK(d)'
        BY <1>11, <2>2, <3>1, <3>2 DEF KnowsRecord, HoldsRow
      <3> QED
        BY <1>2, <1>5, <2>2, <3>3, <3>4
    <2> QED
      BY <1>13, <2>1, <2>2 DEF CognitoCreate
  <1>14. ASSUME NEW c \in Callers, CognitoSetPassword(c) PROVE Records'
    <2>1. call[c].email \in Emails /\ call[c].pc = "password" /\ "record" \in Steps
            /\ Exists(call[c].email)
      BY <1>14, <1>a, Types DEF CognitoSetPassword, Steps, CallOK, KnowsAccount
    <2>2. \A f \in Emails : cognito'[f].enabled = cognito[f].enabled
      BY <1>14, Types DEF CognitoSetPassword, Account
    <2>3. UNCHANGED <<portal, otp>> /\ Goto(c, "record")
      BY <1>14 DEF CognitoSetPassword
    <2>4. \A f \in Emails : RowOK(f)'
      BY <1>a, <1>c, <2>2, <2>3 DEF RowOK, HasRecord
    <2>5. \A d \in Callers : CallOK(d)'
      BY <1>11, <1>c, <2>1, <2>3 DEF KnowsRecord, HoldsRow
    <2> QED
      BY <1>2, <1>5, <2>3, <2>4, <2>5
  <1>15. ASSUME NEW e \in Emails, NEW row \in Row,
                portal' = [portal EXCEPT ![e] = row], row.status # "none",
                Exists(e), UNCHANGED cognito
         PROVE  HasRecord(e)' /\ \A f \in Emails : RowOK(f)'
    <2>1. portal'[e] = row /\ row # NoRow
      BY <1>15, Types, NoRecords
    <2>2. HasRecord(e)'
      BY <1>15, <2>1 DEF HasRecord
    <2>3. ASSUME NEW f \in Emails, f # e PROVE portal'[f] = portal[f]
      BY <1>15, <2>3, Types
    <2> QED
      BY <1>15, <1>a, <1>c, <2>1, <2>2, <2>3 DEF RowOK, HasRecord
  <1>16. ASSUME NEW c \in Callers, PutNewUser(c) \/ JitProvision(c) PROVE Records'
    <2>1. /\ portal' = [portal EXCEPT ![call[c].email] = NewRow] /\ UNCHANGED <<cognito, otp>>
          /\ call[c].email \in Emails /\ Exists(call[c].email)
      BY <1>16, <1>a, Types DEF PutNewUser, JitProvision, CallOK, KnowsAccount, Steps
    <2>2. /\ \A e \in Emails : e = call[c].email => HasRecord(e)'
          /\ \A e \in Emails : RowOK(e)'
      BY <1>15, <2>1, NoRecords
    <2>3. \/ Goto(c, "announce")
          \/ Goto(c, "jitAnnounce") /\ call[c].row.status # "none"
      BY <1>16, <1>a DEF PutNewUser, JitProvision, CallOK, HoldsRow
    <2>4. {"announce", "jitAnnounce"} \subseteq Steps /\ "announce" \notin HoldsRow /\ call[c].pc # "idle"
      BY <1>16 DEF Steps, HoldsRow, PutNewUser, JitProvision
    <2>5. \A d \in Callers : CallOK(d)'
      BY <1>11, <1>c, <2>1, <2>2, <2>3, <2>4
    <2> QED
      BY <1>2, <1>5, <2>1, <2>2, <2>5
  <1>17. ASSUME NEW c \in Callers, PublishProvisioned(c) \/ JitAnnounce(c) PROVE Records'
    <2>1. UNCHANGED <<cognito, portal, otp>>
      BY <1>17 DEF PublishProvisioned, JitAnnounce
    <2>2. CASE JitAnnounce(c)
      <3>1. /\ call[c].pc = "jitAnnounce" /\ Goto(c, "decide") /\ "decide" \in Steps
            /\ call[c].email \in Emails
            /\ HasRecord(call[c].email) /\ Exists(call[c].email) /\ call[c].row.status # "none"
        BY <2>2, <1>a, Types DEF JitAnnounce, Steps, CallOK, KnowsAccount, KnowsRecord, HoldsRow
      <3>2. \A d \in Callers : CallOK(d)'
        BY <1>11, <1>c, <3>1
      <3> QED
        BY <1>1, <1>2, <1>5, <2>1, <3>2
    <2>3. CASE PublishProvisioned(c)
      BY <1>1, <1>2, <1>5, <1>12, <2>1, <2>3 DEF PublishProvisioned
    <2> QED
      BY <1>17, <2>2, <2>3
  \* A request that reads a row.
  <1>18. ASSUME NEW c \in Callers, NEW pc \in Steps, NEW row \in Row,
                Hold(c, pc, row), call[c].email \in Emails,
                row.status # "none", Exists(call[c].email), pc # "jit" => HasRecord(call[c].email)
         PROVE  \A d \in Callers : CallOK(d)'
    <2>1. /\ call'[c].pc = pc /\ call'[c].email = call[c].email /\ call'[c].row = row
          /\ \A d \in Callers \ {c} : call'[d] = call[d]
      BY <1>18, HoldStep
    <2>2. CallOK(c)'
      BY <1>18, <1>c, <2>1 DEF CallOK, KnowsRecord
    <2> QED
      BY <1>3, <2>1, <2>2
  <1>19. ASSUME NEW c \in Callers, ReadMailboxOwner(c) PROVE Records'
    <2>1. UNCHANGED <<cognito, portal, otp>>
      BY <1>19 DEF ReadMailboxOwner
    <2>2. CASE Return(c)
      BY <1>1, <1>2, <1>5, <1>12, <2>1, <2>2
    <2>3. CASE /\ portal[call[c].email] # NoRow
               /\ Hold(c, "stamp", portal[call[c].email])
      <3>1. "stamp" \in Steps /\ call[c].email \in Emails /\ portal[call[c].email] \in Row
        BY <1>19, Types DEF ReadMailboxOwner, Steps
      <3>2. HasRecord(call[c].email) /\ Exists(call[c].email)
        BY <1>a, <2>3, <3>1 DEF RowOK
      <3>3. \A d \in Callers : CallOK(d)'
        BY <1>18, <2>3, <3>1, <3>2 DEF HasRecord
      <3> QED
        BY <1>1, <1>2, <1>5, <2>1, <3>3
    <2> QED
      BY <1>19, <2>2, <2>3 DEF ReadMailboxOwner, Hold
  <1>20. ASSUME NEW c \in Callers, Resolve(c) PROVE Records'
    <2> DEFINE row == portal[call[c].email]
    <2>1. /\ UNCHANGED <<cognito, portal, otp>>
          /\ call[c].email \in Emails /\ row \in Row /\ Exists(call[c].email)
          /\ {"jit", "decide"} \subseteq Steps
      BY <1>20, <1>a, Types DEF Resolve, CallOK, KnowsAccount, Steps
    <2>2. CASE row = NoRow
      <3>1. Hold(c, "jit", NewRow)
        BY <1>20, <2>2 DEF Resolve, Hold
      <3>2. \A d \in Callers : CallOK(d)'
        BY <1>18, <2>1, <3>1, NoRecords
      <3> QED
        BY <1>1, <1>2, <1>5, <2>1, <3>2
    <2>3. CASE row # NoRow
      <3>1. Hold(c, "decide", row)
        BY <1>20, <2>3 DEF Resolve, Hold
      <3>2. HasRecord(call[c].email) /\ row.status # "none"
        BY <1>a, <2>1, <2>3 DEF RowOK, HasRecord
      <3> HIDE DEF row
      <3>3. \A d \in Callers : CallOK(d)'
        BY <1>18, <2>1, <3>1, <3>2
      <3> QED
        BY <1>1, <1>2, <1>5, <2>1, <3>3
    <2> QED
      BY <2>2, <2>3
  <1>21. ASSUME NEW c \in Callers, StampVerified(c) \/ PutStatus(c) \/ FinishOtpLogin(c)
         PROVE  Records'
    <2>1. /\ call[c].row \in Row /\ call[c].row.status # "none"
          /\ call[c].email \in Emails /\ Exists(call[c].email)
      BY <1>21, <1>a, Types
      DEF StampVerified, PutStatus, FinishOtpLogin, CallOK, KnowsAccount, HoldsRow, Steps, Frames
    <2>2. /\ [call[c].row EXCEPT !.verified = today] \in Row
          /\ [call[c].row EXCEPT !.verified = today].status # "none"
      <3>1. today \in 1..LastDay
        BY DEF Shape
      <3> QED
        BY <2>1, <3>1 DEF Row
    <2>3. PICK row \in Row : /\ portal' = [portal EXCEPT ![call[c].email] = row]
                             /\ row.status # "none"
      BY <1>21, <2>1, <2>2 DEF StampVerified, PutStatus, FinishOtpLogin
    <2>4. Return(c) /\ UNCHANGED <<cognito, otp>>
      BY <1>21 DEF StampVerified, PutStatus, FinishOtpLogin
    <2>5. \A e \in Emails : RowOK(e)'
      BY <1>15, <2>1, <2>3, <2>4
    <2> QED
      BY <1>2, <1>5, <1>12, <2>4, <2>5
  \* The challenges.
  <1>22. ASSUME NEW c \in Callers, Decide(c) PROVE Records'
    <2> DEFINE e == call[c].email
    <2>1. /\ e \in Emails /\ HasRecord(e) /\ Return(c) /\ UNCHANGED <<cognito, portal>>
          /\ \/ UNCHANGED otp
             \/ \E h \in Challenges :
                  otp' = [otp EXCEPT ![h] = [email |-> e, attempts |-> 0, live |-> TRUE]]
      BY <1>22, <1>a, Types DEF Decide, CallOK, KnowsRecord
    <2> HIDE DEF e
    <2>2. ASSUME NEW g \in Challenges PROVE OtpOK(g)'
      <3>1. otp'[g].email \in {otp[g].email, e}
        BY <2>1, Types
      <3> QED
        BY <1>2, <1>c, <2>1, <3>1 DEF OtpOK
    <2> QED
      BY <1>1, <1>5, <1>12, <2>1, <2>2
  <1>23. ASSUME NEW c \in Callers, IncrementAttempts(c) PROVE Records'
    <2> DEFINE h == call[c].otp
    <2>1. /\ UNCHANGED <<cognito, portal>> /\ call[c].pc = "attempt" /\ h \in Challenges
          /\ call[c].email \in Emails /\ HasRecord(call[c].email) /\ Exists(call[c].email)
          /\ UNCHANGED otp \/ otp' = [otp EXCEPT ![h].attempts = @ + 1]
          /\ Return(c) \/ Goto(c, "consume") \/ Goto(c, "burn")
      BY <1>23, <1>a, Types DEF IncrementAttempts, CallOK, KnowsAccount, KnowsRecord, Steps
    <2> HIDE DEF h
    <2>2. ASSUME NEW g \in Challenges PROVE OtpOK(g)'
      <3>1. otp'[g].email = otp[g].email
        BY <2>1, Types DEF Challenge
      <3> QED
        BY <1>2, <3>1
    <2>3. {"consume", "burn"} \subseteq Steps \ HoldsRow
      BY DEF Steps, HoldsRow
    <2>4. \A d \in Callers : CallOK(d)'
      BY <1>11, <1>12, <1>c, <2>1, <2>3
    <2> QED
      BY <1>1, <1>5, <2>1, <2>2, <2>4
  <1>24. ASSUME NEW c \in Callers, NEW h \in Challenges, otp' = [otp EXCEPT ![h] = NoChallenge]
         PROVE  \A g \in Challenges : OtpOK(g)'
    <2> TAKE g \in Challenges
    <2>1. otp'[g].email \in {otp[g].email, NoOne}
      BY <1>24, Types, NoRecords
    <2> QED
      BY <1>2, <2>1 DEF OtpOK
  <1>25. ASSUME NEW c \in Callers, BurnChallenge(c) PROVE Records'
    <2>1. UNCHANGED <<cognito, portal>> /\ Return(c) /\ call[c].otp \in Challenges
          /\ otp' = [otp EXCEPT ![call[c].otp] = NoChallenge]
      BY <1>25, Types DEF BurnChallenge
    <2> QED
      BY <1>1, <1>5, <1>12, <1>24, <2>1
  <1>26. ASSUME NEW c \in Callers, ConsumeChallenge(c) PROVE Records'
    <2> DEFINE row == portal[call[c].email]
    <2>1. UNCHANGED <<cognito, portal>> /\ call[c].otp \in Challenges
          /\ otp' = [otp EXCEPT ![call[c].otp] = NoChallenge]
          /\ Hold(c, "verified", row)
      BY <1>26, Types DEF ConsumeChallenge, Hold
    <2>2. /\ call[c].email \in Emails /\ row \in Row /\ "verified" \in Steps
          /\ HasRecord(call[c].email) /\ Exists(call[c].email)
      BY <1>26, <1>a, Types DEF ConsumeChallenge, CallOK, KnowsAccount, KnowsRecord, Steps
    <2>3. row.status # "none"
      BY <2>2 DEF HasRecord
    <2> HIDE DEF row
    <2>4. \A d \in Callers : CallOK(d)'
      BY <1>18, <2>1, <2>2, <2>3
    <2> QED
      BY <1>1, <1>5, <1>24, <2>1, <2>4
  <1>27. ASSUME NEW c \in Callers, Crash(c) PROVE Records'
    <2>1. /\ UNCHANGED <<cognito, portal, otp>>
          /\ call'[c].pc = "idle" /\ \A d \in Callers \ {c} : call'[d] = call[d]
      BY <1>27, Types, NoRecords DEF Crash
    <2> QED
      BY <1>1, <1>2, <1>3, <1>4, <1>5, <2>1
  <1>28. ASSUME NextDay \/ \E h \in Challenges : ExpireChallenge(h) PROVE Records'
    <2>1. UNCHANGED <<cognito, portal, call>>
      BY <1>28 DEF NextDay, ExpireChallenge
    <2>2. ASSUME NEW g \in Challenges PROVE otp'[g].email = otp[g].email
      BY <1>28, Types DEF NextDay, ExpireChallenge, Challenge
    <2> QED
      BY <1>1, <1>2, <1>3, <1>5, <2>1, <2>2
  <1>29. CASE UNCHANGED vars
    BY <1>29, <1>1, <1>2, <1>3, <1>5 DEF vars
  <1> QED
    BY <1>6, <1>7, <1>8, <1>9, <1>10, <1>13, <1>14, <1>16, <1>17, <1>19, <1>20, <1>21, <1>22,
       <1>23, <1>25, <1>26, <1>27, <1>28, <1>29
    DEF Next, Request, Step

-----------------------------------------------------------------------------
(* What a request does when it begins, and that one request moves at a time. *)

Opens(c, e) == /\ call'[c].pc \in {"create", "resolve", "attempt"}
               /\ UNCHANGED <<cognito, proof>>
Resets(c, e) == /\ call'[c].pc = "mailbox"
                /\ cognito' = [cognito EXCEPT ![e].password = "chosen"]
                /\ cognito[e].password \in {"secret", "chosen"}
                /\ proof' = [proof EXCEPT ![e] = today]
Switches(c, e, enabled) ==
  /\ call'[c].pc = "status" /\ UNCHANGED proof /\ portal[e] # NoRow
  /\ cognito' = [cognito EXCEPT ![e].enabled = enabled]
  /\ call'[c].row = [portal[e] EXCEPT !.status = IF enabled THEN "Active" ELSE "Inactive"]

LEMMA Starts ==
  ASSUME Shape, NEW c \in Callers, Request(c)
  PROVE  /\ call[c].pc = "idle"
         /\ \A d \in Callers \ {c} : call'[d] = call[d]
         /\ today' = today /\ budget'.died = budget.died /\ (overlap => overlap')
         /\ ~overlap' => \A d \in Callers : call[d].pc = "idle"
         /\ UNCHANGED <<portal, otp, granted, compared, created, announced>>
         /\ \E e \in Emails : /\ call'[c].email = e
                              /\ \/ Opens(c, e) \/ Resets(c, e)
                                 \/ \E enabled \in BOOLEAN : Switches(c, e, enabled)
  <1> USE DEF stores, ghosts
  <1>1. ASSUME NEW e \in Emails, Register(c, e) \/ CreateUser(c, e) \/ ImportRow(c, e) \/ Login(c, e)
        PROVE  \E frame \in Frames : Begin(c, frame) /\ frame.email = e
                 /\ frame.pc \in {"create", "resolve"} /\ UNCHANGED <<stores, ghosts>>
    <2>1. PICK pc \in {"create", "resolve"} : Begin(c, [Idle EXCEPT !.pc = pc, !.email = e])
      BY <1>1 DEF Register, CreateUser, ImportRow, Create, Login
    <2> DEFINE frame == [Idle EXCEPT !.pc = pc, !.email = e]
    <2>2. frame \in Frames /\ frame.pc = pc /\ frame.email = e
      BY NumbersAssumption DEF Idle, Frames, Steps, NoRow, Row
    <2>3. UNCHANGED <<stores, ghosts>> /\ Begin(c, frame)
      BY <1>1, <2>1 DEF Register, CreateUser, ImportRow, Create, Login
    <2> HIDE DEF frame
    <2> QED
      BY <2>2, <2>3
  <1>2. ASSUME NEW h \in Challenges, NEW right \in BOOLEAN, VerifyOtp(c, h, right)
        PROVE  \E frame \in Frames : Begin(c, frame) /\ frame.email \in Emails
                 /\ frame.pc = "attempt" /\ UNCHANGED <<stores, ghosts>>
    <2> DEFINE e == otp[h].email
               frame == [Idle EXCEPT !.pc = "attempt", !.otp = h, !.email = e, !.right = right]
    <2>1. e \in Emails
      BY <1>2, Types DEF VerifyOtp
    <2>2. Begin(c, frame) /\ UNCHANGED <<stores, ghosts>>
      BY <1>2 DEF VerifyOtp
    <2> HIDE DEF e
    <2>3. frame \in Frames /\ frame.pc = "attempt" /\ frame.email = e
      BY <2>1, NumbersAssumption DEF Idle, Frames, Steps, NoRow, Row
    <2> HIDE DEF frame
    <2> QED
      BY <2>1, <2>2, <2>3
  <1>3. ASSUME NEW frame \in Frames, Begin(c, frame), frame.email \in Emails,
               frame.pc \in {"create", "resolve", "attempt"}, UNCHANGED <<stores, ghosts>>
        PROVE  /\ call'[c].email \in Emails /\ Opens(c, call'[c].email)
               /\ call[c].pc = "idle" /\ \A d \in Callers \ {c} : call'[d] = call[d]
               /\ today' = today /\ budget'.died = budget.died /\ (overlap => overlap')
               /\ ~overlap' => \A d \in Callers : call[d].pc = "idle"
               /\ UNCHANGED <<portal, otp, granted, compared, created, announced>>
    BY <1>3, BeginStep DEF Opens
  <1>4. ASSUME NEW e \in Emails, ConfirmReset(c, e)
        PROVE  /\ call'[c].email = e /\ Resets(c, e)
               /\ call[c].pc = "idle" /\ \A d \in Callers \ {c} : call'[d] = call[d]
               /\ today' = today /\ budget'.died = budget.died /\ (overlap => overlap')
               /\ ~overlap' => \A d \in Callers : call[d].pc = "idle"
               /\ UNCHANGED <<portal, otp, granted, compared, created, announced>>
    <2> DEFINE frame == [Idle EXCEPT !.pc = "mailbox", !.email = e]
    <2>1. frame \in Frames /\ frame.pc = "mailbox" /\ frame.email = e
      BY NumbersAssumption DEF Idle, Frames, Steps, NoRow, Row
    <2>2. Begin(c, frame)
      BY <1>4 DEF ConfirmReset
    <2> HIDE DEF frame
    <2> QED
      BY <1>4, <2>1, <2>2, BeginStep DEF ConfirmReset, Resets
  <1>5. ASSUME NEW e \in Emails, NEW enabled \in BOOLEAN, SetEnabled(c, e, enabled)
        PROVE  /\ call'[c].email = e /\ Switches(c, e, enabled)
               /\ call[c].pc = "idle" /\ \A d \in Callers \ {c} : call'[d] = call[d]
               /\ today' = today /\ budget'.died = budget.died /\ (overlap => overlap')
               /\ ~overlap' => \A d \in Callers : call[d].pc = "idle"
               /\ UNCHANGED <<portal, otp, granted, compared, created, announced>>
    <2> DEFINE row == [portal[e] EXCEPT !.status = IF enabled THEN "Active" ELSE "Inactive"]
               frame == [Idle EXCEPT !.pc = "status", !.email = e, !.row = row]
    <2>1. row \in Row
      BY Types DEF Row
    <2>2. /\ Begin(c, frame) /\ UNCHANGED <<portal, otp, ghosts>> /\ portal[e] # NoRow
          /\ cognito' = [cognito EXCEPT ![e].enabled = enabled]
      BY <1>5 DEF SetEnabled
    <2> HIDE DEF row
    <2>3. frame \in Frames /\ frame.pc = "status" /\ frame.email = e /\ frame.row = row
      BY <2>1 DEF Idle, Frames, Steps
    <2> HIDE DEF frame
    <2>4. /\ call'[c] = frame /\ call[c].pc = "idle" /\ \A d \in Callers \ {c} : call'[d] = call[d]
          /\ today' = today /\ budget'.died = budget.died /\ (overlap => overlap')
          /\ ~overlap' => \A d \in Callers : call[d].pc = "idle"
      BY <2>2, <2>3, BeginStep
    <2>5. Switches(c, e, enabled)
      BY <2>2, <2>3, <2>4 DEF Switches, row
    <2> QED
      BY <2>2, <2>3, <2>4, <2>5
  <1> QED
    BY <1>1, <1>2, <1>3, <1>4, <1>5 DEF Request

\* One request moves, all others stay; and unless it begins beside others it leaves
\* the overlap and the deaths as they were.
LEMMA OneMoves ==
  ASSUME Shape, [Next]_vars
  PROVE  /\ overlap => overlap'
         /\ \/ UNCHANGED call
            \/ \E c \in Callers :
                 /\ \A d \in Callers \ {c} : call'[d] = call[d]
                 /\ call[c].pc # "idle" \/ (~overlap' => \A d \in Callers : call[d].pc = "idle")
  <1> USE DEF At
  <1>1. ASSUME NEW c \in Callers, Request(c)
        PROVE  /\ overlap => overlap'
               /\ \A d \in Callers \ {c} : call'[d] = call[d]
               /\ ~overlap' => \A d \in Callers : call[d].pc = "idle"
    BY <1>1, Starts
  <1>2. ASSUME NEW c \in Callers, Step(c)
        PROVE  /\ UNCHANGED overlap /\ \A d \in Callers \ {c} : call'[d] = call[d]
               /\ call[c].pc # "idle"
    <2>1. /\ call[c].pc # "idle" /\ UNCHANGED overlap
          /\ \E f : call' = [call EXCEPT ![c] = f]
      BY <1>2
      DEF Step, CognitoCreate, CognitoSetPassword, PutNewUser, PublishProvisioned,
          ReadMailboxOwner, StampVerified, Resolve, JitProvision, JitAnnounce, Decide,
          IncrementAttempts, BurnChallenge, ConsumeChallenge, FinishOtpLogin, PutStatus,
          Goto, Return
    <2> QED
      BY <2>1, Types
  <1>3. ASSUME NEW c \in Callers, Crash(c)
        PROVE  /\ UNCHANGED overlap /\ \A d \in Callers \ {c} : call'[d] = call[d]
               /\ call[c].pc # "idle"
    BY <1>3, Types DEF Crash
  <1>4. ASSUME NextDay \/ (\E h \in Challenges : ExpireChallenge(h)) \/ UNCHANGED vars
        PROVE  UNCHANGED <<overlap, call>>
    BY <1>4 DEF NextDay, ExpireChallenge, vars
  <1> QED
    BY <1>1, <1>2, <1>3, <1>4 DEF Next

LEMMA AloneStep == Shape /\ Alone /\ [Next]_vars => Alone'
  <1> SUFFICES ASSUME Shape, Alone, [Next]_vars, ~overlap' PROVE Alone'
    BY DEF Alone
  <1>1. ~overlap
    BY OneMoves
  <1>2. \A c \in Callers : call[c].pc # "idle" => \A d \in Callers \ {c} : call[d].pc = "idle"
    BY <1>1 DEF Alone
  <1>3. CASE UNCHANGED call
    BY <1>2, <1>3 DEF Alone
  <1>4. CASE \E c \in Callers :
                 /\ \A d \in Callers \ {c} : call'[d] = call[d]
                 /\ call[c].pc # "idle" \/ (~overlap' => \A d \in Callers : call[d].pc = "idle")
    <2>1. PICK c \in Callers : /\ \A d \in Callers \ {c} : call'[d] = call[d]
                               /\ call[c].pc # "idle" \/ \A d \in Callers : call[d].pc = "idle"
      BY <1>4
    <2>2. \A d \in Callers \ {c} : call'[d].pc = "idle"
      BY <1>2, <2>1
    <2> QED
      BY <2>2 DEF Alone
  <1> QED
    BY <1>3, <1>4, OneMoves

-----------------------------------------------------------------------------
(* Guesses: the attempts of a challenge count the codes compared against it. *)

LEMMA CountedStep == Shape /\ Counted /\ [Next]_vars => Counted'
  <1> SUFFICES ASSUME Shape, Counted, [Next]_vars PROVE Counted'
    OBVIOUS
  <1> USE NumbersAssumption DEF stores, ghosts, At
  <1> DEFINE Right(h) == /\ compared[h] <= MaxAttempts
                         /\ otp[h].email # NoOne => compared[h] = otp[h].attempts
  <1>a. \A h \in Challenges : /\ Right(h) /\ otp[h] \in Challenge /\ compared[h] \in Nat
    BY Types DEF Counted, GuessesAreLimited, Shape
  <1>b. ASSUME \A h \in Challenges : Right(h)' PROVE Counted'
    BY <1>b DEF Counted, GuessesAreLimited
  <1>c. ASSUME UNCHANGED compared, NEW h \in Challenges,
               otp'[h].email = NoOne \/ (otp'[h].email = otp[h].email
                                          /\ otp'[h].attempts = otp[h].attempts)
        PROVE  Right(h)'
    BY <1>a, <1>c
  <1>1. ASSUME UNCHANGED <<otp, compared>> PROVE Counted'
    BY <1>1, <1>b, <1>c
  <1>2. ASSUME NEW c \in Callers, Request(c) PROVE UNCHANGED <<otp, compared>>
    BY <1>2, Starts
  <1>3. ASSUME NEW c \in Callers,
               \/ CognitoCreate(c) \/ CognitoSetPassword(c) \/ PutNewUser(c) \/ PublishProvisioned(c)
               \/ ReadMailboxOwner(c) \/ StampVerified(c) \/ Resolve(c) \/ JitProvision(c)
               \/ JitAnnounce(c) \/ FinishOtpLogin(c) \/ PutStatus(c) \/ Crash(c)
        PROVE  UNCHANGED <<otp, compared>>
    BY <1>3 DEF CognitoCreate, CognitoSetPassword, PutNewUser, PublishProvisioned,
                ReadMailboxOwner, StampVerified, Resolve, JitProvision, JitAnnounce,
                FinishOtpLogin, PutStatus, Crash
  <1>4. ASSUME NEW c \in Callers, Decide(c) PROVE Counted'
    <2> DEFINE first(e) == [email |-> e, attempts |-> 0, live |-> TRUE]
    <2>1. /\ UNCHANGED compared
          /\ UNCHANGED otp \/ \E h \in Challenges :
               compared[h] = 0 /\ otp' = [otp EXCEPT ![h] = first(call[c].email)]
      BY <1>4 DEF Decide
    <2>2. CASE UNCHANGED otp
      BY <1>1, <2>1, <2>2
    <2>3. ASSUME NEW h \in Challenges, compared[h] = 0,
                 otp' = [otp EXCEPT ![h] = first(call[c].email)]
          PROVE  Counted'
      <3>1. first(call[c].email).attempts = 0
        OBVIOUS
      <3> HIDE DEF first
      <3>2. Right(h)'
        BY <1>a, <2>1, <2>3, <3>1, Types
      <3>3. ASSUME NEW g \in Challenges, g # h PROVE Right(g)'
        BY <1>c, <2>1, <2>3, <3>3, Types
      <3> QED
        BY <1>b, <3>2, <3>3
    <2> QED
      BY <2>1, <2>2, <2>3
  <1>5. ASSUME NEW c \in Callers, IncrementAttempts(c) PROVE Counted'
    <2> DEFINE h == call[c].otp
    <2>1. h \in Challenges
      BY <1>5, Types DEF IncrementAttempts
    <2>2. CASE UNCHANGED <<otp, compared>>
      BY <1>1, <2>2
    <2>3. CASE /\ otp[h].email # NoOne /\ otp[h].attempts < MaxAttempts
               /\ otp' = [otp EXCEPT ![h].attempts = @ + 1]
               /\ compared' = [compared EXCEPT ![h] = @ + 1]
      <3> HIDE DEF h
      <3>1. /\ otp'[h].attempts = otp[h].attempts + 1 /\ otp'[h].email = otp[h].email
            /\ compared'[h] = compared[h] + 1
            /\ \A g \in Challenges : g # h => otp'[g] = otp[g] /\ compared'[g] = compared[g]
        BY <1>a, <2>1, <2>3, Types DEF Challenge, Shape
      <3>2. otp[h].attempts \in Nat
        BY <1>a, <2>1 DEF Challenge
      <3>3. \A g \in Challenges : Right(g)'
        BY <1>a, <2>1, <2>3, <3>1, <3>2
      <3> QED
        BY <1>b, <3>3
    <2> QED
      BY <1>5, <2>2, <2>3 DEF IncrementAttempts
  <1>6. ASSUME NEW c \in Callers, BurnChallenge(c) \/ ConsumeChallenge(c) PROVE Counted'
    <2>1. /\ UNCHANGED compared /\ call[c].otp \in Challenges
          /\ otp' = [otp EXCEPT ![call[c].otp] = NoChallenge]
      BY <1>6, Types DEF BurnChallenge, ConsumeChallenge
    <2>2. \A h \in Challenges : otp'[h] \in {otp[h], NoChallenge}
      BY <2>1, Types
    <2>3. \A h \in Challenges : Right(h)'
      BY <1>c, <2>1, <2>2, NoRecords
    <2> QED
      BY <1>b, <2>3
  <1>7. ASSUME NextDay \/ \E h \in Challenges : ExpireChallenge(h) PROVE Counted'
    <2>1. /\ UNCHANGED compared
          /\ \A g \in Challenges : /\ otp'[g].email = otp[g].email
                                   /\ otp'[g].attempts = otp[g].attempts
      BY <1>7, Types DEF NextDay, ExpireChallenge, Challenge
    <2> QED
      BY <1>b, <1>c, <2>1
  <1>8. CASE UNCHANGED vars
    BY <1>8, <1>1 DEF vars
  <1> QED
    BY <1>1, <1>2, <1>3, <1>4, <1>5, <1>6, <1>7, <1>8 DEF Next, Step

-----------------------------------------------------------------------------
(* Proofs: whatever stamp is stored or held, its owner entered a code on that day or later. *)

LEMMA Days ==
  Shape => /\ today \in 1..LastDay
           /\ \A e \in Emails : proof[e] \in {Never} \cup 1..LastDay /\ portal[e].verified \in Int
           /\ \A c \in Callers : call[c].row \in Row /\ call[c].row.verified \in Int
           /\ proof \in [Emails -> {Never} \cup 1..LastDay]
           /\ granted.day \in Int /\ granted.email \in Emails \cup {NoOne}
  <1> SUFFICES ASSUME Shape PROVE
           /\ today \in 1..LastDay
           /\ \A e \in Emails : proof[e] \in {Never} \cup 1..LastDay /\ portal[e].verified \in Int
           /\ \A c \in Callers : call[c].row \in Row /\ call[c].row.verified \in Int
           /\ proof \in [Emails -> {Never} \cup 1..LastDay]
           /\ granted.day \in Int /\ granted.email \in Emails \cup {NoOne}
    OBVIOUS
  <1>1. \A r \in Row : r.verified \in Int
    BY NumbersAssumption DEF Row, Never
  <1>2. \A c \in Callers : call[c].row \in Row
    BY Types DEF Frames
  <1>3. granted.day \in Int /\ granted.email \in Emails \cup {NoOne}
    BY NumbersAssumption DEF Shape, TypeOK, Session
  <1> QED
    BY <1>1, <1>2, <1>3, Types DEF Shape

RowProven(e) == proof[e] <= today /\ portal[e].verified <= proof[e]
CallProven(c) ==
  /\ call[c].pc \in HoldsRow => call[c].row.verified <= proof[call[c].email]
  /\ call[c].pc \in {"mailbox", "stamp", "verified"} => proof[call[c].email] = today

LEMMA ProvenStep == Shape /\ Proven /\ [Next]_vars => Proven'
  <1> SUFFICES ASSUME Shape, Proven, [Next]_vars PROVE Proven'
    OBVIOUS
  <1> USE NamesAssumption, NumbersAssumption DEF stores, ghosts, At
  <1>a. /\ \A e \in Emails : RowProven(e)
        /\ \A c \in Callers : CallProven(c)
        /\ SessionIsProven
    BY DEF Proven, RowProven, CallProven
  <1>b. ASSUME \A e \in Emails : RowProven(e)', \A c \in Callers : CallProven(c)', SessionIsProven'
        PROVE  Proven'
    BY <1>b DEF Proven, RowProven, CallProven
  <1>c. Shape'
    BY ShapeStep
  <1>d. \A c \in Callers : call[c].pc # "idle" => call[c].email \in Emails
    BY Types
  <1>z. Never \in Int /\ \A e \in Emails : Never <= proof[e]
    BY Days DEF Never
  \* Proofs grow: a code is entered today.
  <1>e. \A e \in Emails : proof'[e] = proof[e] \/ proof'[e] = today
    <2>1. ASSUME NEW c \in Callers, Request(c)
          PROVE  \A e \in Emails : proof'[e] = proof[e] \/ proof'[e] = today
      BY <2>1, Starts, Days DEF Opens, Resets, Switches
    <2>2. ASSUME NEW c \in Callers, Step(c)
          PROVE  UNCHANGED proof \/ \E e : proof' = [proof EXCEPT ![e] = today]
      BY <2>2
      DEF Step, CognitoCreate, CognitoSetPassword, PutNewUser, PublishProvisioned,
          ReadMailboxOwner, StampVerified, Resolve, JitProvision, JitAnnounce, Decide,
          IncrementAttempts, BurnChallenge, ConsumeChallenge, FinishOtpLogin, PutStatus
    <2>3. ASSUME NextDay \/ (\E h \in Challenges : ExpireChallenge(h))
                   \/ (\E c \in Callers : Crash(c)) \/ UNCHANGED vars
          PROVE  UNCHANGED proof
      BY <2>3 DEF NextDay, ExpireChallenge, Crash, vars
    <2> QED
      BY <2>1, <2>2, <2>3, Days DEF Next
  \* What a step leaves alone stays right.
  <1>1. ASSUME UNCHANGED granted PROVE SessionIsProven'
    <2>1. \A e \in Emails : proof[e] <= proof'[e] /\ proof[e] \in Int /\ proof'[e] \in Int
      BY <1>a, <1>e, <1>z, Days DEF RowProven
    <2>2. IntervalDays \in Int /\ granted.day \in Int /\ granted.email \in Emails \cup {NoOne}
      BY Days
    <2> QED
      BY <1>1, <1>a, <2>1, <2>2 DEF SessionIsProven
  <1>2. ASSUME NEW e \in Emails, UNCHANGED <<portal, today>> PROVE RowProven(e)'
    <2>1. proof[e] \in Int /\ proof'[e] \in Int /\ today \in Int /\ portal[e].verified \in Int
      BY <1>z, <1>e, Days
    <2> QED
      BY <1>2, <1>a, <1>e, <2>1 DEF RowProven
  <1>3. ASSUME NEW c \in Callers, call'[c] = call[c], UNCHANGED today PROVE CallProven(c)'
    <2>1. CASE call[c].pc = "idle"
      BY <1>3, <2>1 DEF CallProven, HoldsRow
    <2>2. CASE call[c].pc # "idle"
      <3> DEFINE e == call[c].email
      <3>1. e \in Emails /\ proof[e] \in Int /\ proof'[e] \in Int /\ call[c].row.verified \in Int
              /\ today \in Int
        BY <2>2, <1>d, <1>e, <1>z, Days
      <3>2. proof[e] <= proof'[e]
        BY <1>a, <1>e, <3>1 DEF RowProven
      <3> QED
        BY <1>3, <1>a, <1>e, <3>1, <3>2 DEF CallProven
    <2> QED
      BY <2>1, <2>2
  <1>4. ASSUME NEW c \in Callers, call'[c].pc \notin HoldsRow \cup {"mailbox"} PROVE CallProven(c)'
    BY <1>4 DEF CallProven, HoldsRow
  <1>5. ASSUME NEW c \in Callers, Return(c), UNCHANGED <<portal, granted>> PROVE Proven'
    <2>1. /\ call'[c].pc = "idle" /\ UNCHANGED today
          /\ \A d \in Callers \ {c} : call'[d] = call[d]
      BY <1>5, ReturnStep
    <2>2. CallProven(c)'
      BY <1>4, <2>1 DEF HoldsRow
    <2> QED
      BY <1>1, <1>2, <1>3, <1>5, <1>b, <2>1, <2>2
  <1>6. ASSUME NEW c \in Callers, NEW pc \in Steps, Goto(c, pc), UNCHANGED <<portal, granted>>,
               \/ pc \notin HoldsRow \cup {"mailbox"}
               \/ call[c].pc = "jitAnnounce" /\ pc = "decide" /\ UNCHANGED proof
        PROVE Proven'
    <2>1. /\ call'[c].pc = pc /\ call'[c].email = call[c].email /\ call'[c].row = call[c].row
          /\ UNCHANGED today
          /\ \A d \in Callers \ {c} : call'[d] = call[d]
      BY <1>6, GotoStep
    <2>2. CallProven(c)'
      <3>1. CASE pc \notin HoldsRow \cup {"mailbox"}
        BY <1>4, <2>1, <3>1
      <3>2. CASE call[c].pc = "jitAnnounce" /\ pc = "decide" /\ UNCHANGED proof
        BY <1>a, <2>1, <3>2 DEF CallProven, HoldsRow
      <3> QED
        BY <1>6, <3>1, <3>2
    <2> QED
      BY <1>1, <1>2, <1>3, <1>6, <1>b, <2>1, <2>2
  <1>7. ASSUME NEW c \in Callers, NEW e \in Emails, NEW row \in Row, call[c].email = e,
               NEW pc \in {"stamp", "jit", "decide", "verified"}, Hold(c, pc, row),
               UNCHANGED <<portal, granted, today>>, row.verified <= proof[e],
               pc \in {"stamp", "verified"} => proof'[e] = today
        PROVE  Proven'
    <2>1. /\ call'[c].pc = pc /\ call'[c].email = e /\ call'[c].row = row
          /\ \A d \in Callers \ {c} : call'[d] = call[d]
      <3>1. pc \in Steps
        BY DEF Steps
      <3> QED
        BY <1>7, <3>1, HoldStep
    <2>2. proof[e] \in Int /\ proof'[e] \in Int /\ today \in Int /\ row.verified \in Int
      BY <1>z, <1>e, Days DEF Row, Never
    <2>3. row.verified <= proof'[e]
      BY <1>7, <1>a, <1>e, <2>2 DEF RowProven
    <2>4. CallProven(c)'
      BY <1>7, <2>1, <2>3 DEF CallProven
    <2> QED
      BY <1>1, <1>2, <1>3, <1>7, <1>b, <2>1, <2>4
  \* A row is written whose stamp is backed.
  <1>8. ASSUME NEW e \in Emails, NEW row \in Row, row.verified <= proof[e],
               portal' = [portal EXCEPT ![e] = row], UNCHANGED <<today, proof>>
        PROVE  \A f \in Emails : RowProven(f)'
    <2> TAKE f \in Emails
    <2>1. portal'[f] = IF f = e THEN row ELSE portal[f]
      BY <1>8, Types
    <2> QED
      BY <1>8, <1>a, <2>1 DEF RowProven
  \* A session is granted on a row whose stamp is backed.
  <1>9. ASSUME NEW e \in Emails, Grant(e), today - proof[e] < IntervalDays, UNCHANGED proof
        PROVE  SessionIsProven'
    <2>1. granted'.email = e /\ granted'.day = today
      BY <1>9 DEF Grant
    <2> QED
      BY <1>9, <2>1 DEF SessionIsProven
  <1>10. ASSUME NEW c \in Callers, Request(c) PROVE Proven'
    <2>1. PICK e \in Emails : /\ call'[c].email = e
                              /\ \/ Opens(c, e) \/ Resets(c, e)
                                 \/ \E enabled \in BOOLEAN : Switches(c, e, enabled)
      BY <1>10, Starts
    <2>2. UNCHANGED <<portal, granted, today>> /\ \A d \in Callers \ {c} : call'[d] = call[d]
      BY <1>10, Starts
    <2>3. ASSUME Opens(c, e) PROVE CallProven(c)'
      BY <1>4, <2>3 DEF Opens, HoldsRow
    <2>4. ASSUME Resets(c, e) PROVE CallProven(c)'
      <3>1. proof'[e] = today
        BY <2>4, Days DEF Resets
      <3> QED
        BY <2>1, <2>2, <2>4, <3>1 DEF Resets, CallProven, HoldsRow
    <2>5. ASSUME NEW enabled \in BOOLEAN, Switches(c, e, enabled) PROVE CallProven(c)'
      <3>1. call'[c].row.verified = portal[e].verified /\ UNCHANGED proof /\ call'[c].pc = "status"
        BY <2>5, Types DEF Switches, Row
      <3> QED
        BY <1>a, <2>1, <3>1 DEF CallProven, RowProven
    <2>6. CallProven(c)'
      BY <2>1, <2>3, <2>4, <2>5
    <2> QED
      BY <1>1, <1>2, <1>3, <1>b, <2>2, <2>6
  <1>11. ASSUME NEW c \in Callers, CognitoCreate(c) \/ CognitoSetPassword(c) PROVE Proven'
    <2>1. UNCHANGED <<portal, granted>> /\ (Return(c) \/ Goto(c, "password") \/ Goto(c, "record"))
      BY <1>11 DEF CognitoCreate, CognitoSetPassword
    <2>2. {"password", "record"} \subseteq Steps \ (HoldsRow \cup {"mailbox"})
      BY DEF Steps, HoldsRow
    <2> QED
      BY <1>5, <1>6, <2>1, <2>2
  <1>12. ASSUME NEW c \in Callers, PutNewUser(c) \/ JitProvision(c) PROVE Proven'
    <2>1. /\ UNCHANGED <<granted, proof>> /\ (Goto(c, "announce") \/ Goto(c, "jitAnnounce"))
          /\ call[c].email \in Emails /\ portal' = [portal EXCEPT ![call[c].email] = NewRow]
      BY <1>12, <1>d DEF PutNewUser, JitProvision
    <2>2. {"announce", "jitAnnounce"} \subseteq Steps
      BY DEF Steps
    <2>3. /\ call'[c].pc \in {"announce", "jitAnnounce"} /\ call'[c].email = call[c].email
          /\ call'[c].row = call[c].row
          /\ UNCHANGED today /\ \A d \in Callers \ {c} : call'[d] = call[d]
      BY <2>1, <2>2, GotoStep
    <2>4. \A f \in Emails : RowProven(f)'
      BY <1>8, <1>z, <2>1, <2>3, NoRecords
    <2>5. CallProven(c)'
      <3>1. CASE JitProvision(c)
        BY <3>1, <1>a, <2>1, <2>3 DEF CallProven, HoldsRow, JitProvision
      <3>2. CASE PutNewUser(c)
        <4>1. Goto(c, "announce")
          BY <3>2 DEF PutNewUser
        <4>2. call'[c].pc = "announce"
          BY <4>1, <2>2, GotoStep
        <4> QED
          BY <1>4, <4>2 DEF HoldsRow
      <3> QED
        BY <1>12, <3>1, <3>2
    <2> QED
      BY <1>1, <1>3, <1>b, <2>1, <2>3, <2>4, <2>5
  <1>13. ASSUME NEW c \in Callers, PublishProvisioned(c) \/ JitAnnounce(c) PROVE Proven'
    <2>1. /\ UNCHANGED <<portal, granted, proof>>
          /\ Return(c) \/ (Goto(c, "decide") /\ call[c].pc = "jitAnnounce")
      BY <1>13 DEF PublishProvisioned, JitAnnounce
    <2>2. "decide" \in Steps
      BY DEF Steps
    <2> QED
      BY <1>5, <1>6, <2>1, <2>2
  <1>14. ASSUME NEW c \in Callers, ReadMailboxOwner(c) PROVE Proven'
    <2> DEFINE e == call[c].email
    <2>1. /\ UNCHANGED <<portal, granted, proof>> /\ e \in Emails /\ call[c].pc = "mailbox"
          /\ Return(c) \/ (Hold(c, "stamp", portal[e]) /\ UNCHANGED today)
      BY <1>14, <1>d DEF ReadMailboxOwner, Hold
    <2>2. /\ portal[e] \in Row /\ portal[e].verified <= proof[e] /\ proof[e] = today
      BY <1>a, <2>1, Types DEF RowProven, CallProven
    <2> HIDE DEF e
    <2>3. e = call[c].email
      BY DEF e
    <2> QED
      BY <1>5, <1>7, <2>1, <2>2, <2>3
  <1>15. ASSUME NEW c \in Callers, Resolve(c) PROVE Proven'
    <2> DEFINE e == call[c].email
               row == IF portal[e] = NoRow THEN NewRow ELSE portal[e]
    <2>1. /\ UNCHANGED <<portal, granted, proof, today>> /\ e \in Emails
          /\ \E pc \in {"jit", "decide"} : Hold(c, pc, row)
      BY <1>15, <1>d DEF Resolve, Hold
    <2>2. row \in Row /\ row.verified <= proof[e]
      BY <1>a, <1>z, <2>1, Types, NoRecords DEF RowProven
    <2> HIDE DEF row, e
    <2>3. e = call[c].email
      BY DEF e
    <2> QED
      BY <1>7, <2>1, <2>2, <2>3
  <1>16. ASSUME NEW c \in Callers, StampVerified(c) PROVE Proven'
    <2> DEFINE e == call[c].email
               row == [call[c].row EXCEPT !.verified = today]
    <2>1. /\ UNCHANGED <<granted, proof>> /\ e \in Emails /\ call[c].pc = "stamp"
          /\ portal' = [portal EXCEPT ![e] = row] /\ Return(c)
      BY <1>16, <1>d DEF StampVerified
    <2>2. row \in Row /\ row.verified = today /\ today \in Int
      BY Days DEF Row
    <2>3. proof[e] = today
      BY <1>a, <2>1 DEF CallProven
    <2>p. row.verified <= proof[e]
      BY <2>2, <2>3
    <2> HIDE DEF row, e
    <2>4. /\ call'[c].pc = "idle" /\ UNCHANGED today
          /\ \A d \in Callers \ {c} : call'[d] = call[d]
      BY <2>1, ReturnStep
    <2>5. \A f \in Emails : RowProven(f)'
      BY <1>8, <2>1, <2>2, <2>p, <2>4
    <2>6. CallProven(c)'
      BY <1>4, <2>4 DEF HoldsRow
    <2> QED
      BY <1>1, <1>3, <1>b, <2>1, <2>4, <2>5, <2>6
  <1>17. ASSUME NEW c \in Callers, FinishOtpLogin(c) PROVE Proven'
    <2> DEFINE e == call[c].email
               row == [call[c].row EXCEPT !.verified = today]
    <2>1. /\ UNCHANGED proof /\ e \in Emails /\ call[c].pc = "verified" /\ Grant(e)
          /\ portal' = [portal EXCEPT ![e] = row] /\ Return(c)
      BY <1>17, <1>d DEF FinishOtpLogin
    <2>2. row \in Row /\ row.verified = today /\ today \in Int
      BY Days DEF Row
    <2>3. proof[e] = today
      BY <1>a, <2>1 DEF CallProven
    <2>p. row.verified <= proof[e]
      BY <2>2, <2>3
    <2> HIDE DEF row, e
    <2>4. /\ call'[c].pc = "idle" /\ UNCHANGED today
          /\ \A d \in Callers \ {c} : call'[d] = call[d]
      BY <2>1, ReturnStep
    <2>5. \A f \in Emails : RowProven(f)'
      BY <1>8, <2>1, <2>2, <2>p, <2>4
    <2>6. CallProven(c)'
      BY <1>4, <2>4 DEF HoldsRow
    <2>7. SessionIsProven'
      BY <1>9, <2>1, <2>2, <2>3
    <2> QED
      BY <1>3, <1>b, <2>4, <2>5, <2>6, <2>7
  <1>18. ASSUME NEW c \in Callers, Decide(c) PROVE Proven'
    <2> DEFINE e == call[c].email
               row == call[c].row
    <2>1. /\ UNCHANGED <<portal, proof>> /\ e \in Emails /\ call[c].pc = "decide" /\ Return(c)
          /\ UNCHANGED granted \/ (Grant(e) /\ ~ OtpDue(row))
      BY <1>18, <1>d DEF Decide
    <2>2. CASE UNCHANGED granted
      BY <1>5, <2>1, <2>2
    <2>3. CASE Grant(e) /\ ~ OtpDue(row)
      <3>1. row.verified <= proof[e] /\ row.verified \in Int /\ today \in Int /\ proof[e] \in Int
        BY <1>a, <1>z, <2>1, Days DEF CallProven, HoldsRow
      <3>2. today - proof[e] < IntervalDays
        BY <2>3, <3>1 DEF OtpDue
      <3>3. SessionIsProven'
        BY <1>9, <2>1, <2>3, <3>2
      <3>4. /\ call'[c].pc = "idle" /\ UNCHANGED today
            /\ \A d \in Callers \ {c} : call'[d] = call[d]
        BY <2>1, ReturnStep
      <3>5. CallProven(c)'
        BY <1>4, <3>4 DEF HoldsRow
      <3> QED
        BY <1>2, <1>3, <1>b, <2>1, <3>3, <3>4, <3>5
    <2> QED
      BY <2>1, <2>2, <2>3
  <1>19. ASSUME NEW c \in Callers, IncrementAttempts(c) \/ BurnChallenge(c) PROVE Proven'
    <2>1. /\ UNCHANGED <<portal, granted>>
          /\ Return(c) \/ Goto(c, "consume") \/ Goto(c, "burn")
      BY <1>19 DEF IncrementAttempts, BurnChallenge
    <2>2. {"consume", "burn"} \subseteq Steps \ (HoldsRow \cup {"mailbox"})
      BY DEF Steps, HoldsRow
    <2> QED
      BY <1>5, <1>6, <2>1, <2>2
  <1>20. ASSUME NEW c \in Callers, ConsumeChallenge(c) PROVE Proven'
    <2> DEFINE e == call[c].email
    <2>1. /\ UNCHANGED <<portal, granted, today>> /\ e \in Emails
          /\ Hold(c, "verified", portal[e]) /\ proof' = [proof EXCEPT ![e] = today]
      BY <1>20, <1>d DEF ConsumeChallenge, Hold
    <2>2. portal[e] \in Row /\ portal[e].verified <= proof[e] /\ proof'[e] = today
      BY <1>a, <2>1, Types, Days DEF RowProven
    <2> HIDE DEF e
    <2>3. e = call[c].email
      BY DEF e
    <2> QED
      BY <1>7, <2>1, <2>2, <2>3
  <1>21. ASSUME NEW c \in Callers, PutStatus(c) PROVE Proven'
    <2> DEFINE e == call[c].email
    <2>1. /\ UNCHANGED <<granted, proof>> /\ e \in Emails /\ call[c].pc = "status"
          /\ portal' = [portal EXCEPT ![e] = call[c].row] /\ Return(c)
      BY <1>21, <1>d DEF PutStatus
    <2>2. call[c].row \in Row /\ call[c].row.verified <= proof[e]
      BY <1>a, <2>1, Days DEF CallProven, HoldsRow
    <2>3. /\ call'[c].pc = "idle" /\ UNCHANGED today
          /\ \A d \in Callers \ {c} : call'[d] = call[d]
      BY <2>1, ReturnStep
    <2>4. \A f \in Emails : RowProven(f)'
      BY <1>8, <2>1, <2>2, <2>3
    <2>5. CallProven(c)'
      BY <1>4, <2>3 DEF HoldsRow
    <2> QED
      BY <1>1, <1>3, <1>b, <2>1, <2>3, <2>4, <2>5
  <1>22. ASSUME NEW c \in Callers, Crash(c) PROVE Proven'
    <2>1. /\ UNCHANGED <<portal, granted, today>> /\ call'[c].pc = "idle"
          /\ \A d \in Callers \ {c} : call'[d] = call[d]
      BY <1>22, Types, NoRecords DEF Crash
    <2>2. CallProven(c)'
      BY <1>4, <2>1 DEF HoldsRow
    <2> QED
      BY <1>1, <1>2, <1>3, <1>b, <2>1, <2>2
  <1>23. CASE NextDay
    <2>1. /\ UNCHANGED <<portal, proof, granted, call>> /\ today' = today + 1
          /\ \A c \in Callers : call[c].pc = "idle"
      BY <1>23 DEF NextDay
    <2>2. \A c \in Callers : CallProven(c)'
      BY <1>4, <2>1 DEF HoldsRow
    <2>3. \A e \in Emails : RowProven(e)'
      <3> TAKE e \in Emails
      <3>1. proof[e] \in Int /\ today \in Int
        BY <1>z, Days
      <3> QED
        BY <1>a, <2>1, <3>1 DEF RowProven
    <2> QED
      BY <1>1, <1>b, <2>1, <2>2, <2>3
  <1>24. ASSUME (\E h \in Challenges : ExpireChallenge(h)) \/ UNCHANGED vars PROVE Proven'
    <2>1. UNCHANGED <<portal, granted, today, call>>
      BY <1>24 DEF ExpireChallenge, vars
    <2> QED
      BY <1>1, <1>2, <1>3, <1>b, <2>1
  <1> QED
    BY <1>10, <1>11, <1>12, <1>13, <1>14, <1>15, <1>16, <1>17, <1>18, <1>19, <1>20, <1>21, <1>22,
       <1>23, <1>24
    DEF Next, Step

-----------------------------------------------------------------------------
(* Accounts are made once, and announced once while requests do not overlap. *)

Made == \A e \in Emails : created[e] <= 1 /\ (~Exists(e) => created[e] = 0)
RowTold(e) == announced[e] <= 1 /\ (announced[e] # 0 => portal[e] # NoRow)
CallTold(c) ==
  /\ call[c].pc \in {"password", "record", "jit"} => portal[call[c].email] = NoRow
  /\ call[c].pc \in {"announce", "jitAnnounce"} => announced[call[c].email] = 0
Told == (\A e \in Emails : RowTold(e)) /\ \A c \in Callers : CallTold(c)

LEMMA MadeStep == Shape /\ Records /\ Made /\ [Next]_vars => Made'
  <1> SUFFICES ASSUME Shape, Records, Made, [Next]_vars PROVE Made'
    OBVIOUS
  <1> USE DEF stores, ghosts, At
  <1>a. \A e \in Emails : created[e] \in Nat
    BY DEF Shape
  <1>1. ASSUME UNCHANGED created PROVE Made'
    BY <1>1, Kept DEF Made
  <1>2. ASSUME NEW c \in Callers, Request(c) PROVE UNCHANGED created
    BY <1>2, Starts
  <1>3. ASSUME NEW c \in Callers,
               \/ CognitoSetPassword(c) \/ PutNewUser(c) \/ PublishProvisioned(c)
               \/ ReadMailboxOwner(c) \/ StampVerified(c) \/ Resolve(c) \/ JitProvision(c)
               \/ JitAnnounce(c) \/ Decide(c) \/ IncrementAttempts(c) \/ BurnChallenge(c)
               \/ ConsumeChallenge(c) \/ FinishOtpLogin(c) \/ PutStatus(c) \/ Crash(c)
        PROVE  UNCHANGED created
    BY <1>3 DEF CognitoSetPassword, PutNewUser, PublishProvisioned, ReadMailboxOwner,
                StampVerified, Resolve, JitProvision, JitAnnounce, Decide, IncrementAttempts,
                BurnChallenge, ConsumeChallenge, FinishOtpLogin, PutStatus, Crash
  <1>4. ASSUME NEW c \in Callers, CognitoCreate(c) PROVE Made'
    <2>1. PICK e \in Emails : e = call[c].email
      BY <1>4, Types DEF CognitoCreate
    <2>2. CASE UNCHANGED created
      BY <1>1, <2>2
    <2>3. CASE /\ ~Exists(e) /\ created' = [created EXCEPT ![e] = @ + 1]
               /\ cognito' = [cognito EXCEPT ![e] = [password |-> "unset", enabled |-> TRUE]]
      <3>1. Exists(e)'
        BY <2>1, <2>3, Types DEF Exists
      <3>2. created[e] = 0
        BY <2>1, <2>3 DEF Made
      <3>3. /\ created'[e] = 1
            /\ \A f \in Emails : f # e => created'[f] = created[f]
        BY <2>1, <2>3, <3>2 DEF Shape
      <3> QED
        BY <2>1, <3>1, <3>3, Kept DEF Made
    <2> QED
      BY <1>4, <2>1, <2>2, <2>3 DEF CognitoCreate
  <1>5. ASSUME NextDay \/ (\E h \in Challenges : ExpireChallenge(h)) \/ UNCHANGED vars
        PROVE  UNCHANGED created
    BY <1>5 DEF NextDay, ExpireChallenge, vars
  <1> QED
    BY <1>1, <1>2, <1>3, <1>4, <1>5 DEF Next, Step

\* While requests do not overlap, a request that moves is the only one there is.
LEMMA OthersIdle ==
  ASSUME Shape, Alone, [Next]_vars, ~overlap', NEW c \in Callers, Step(c)
  PROVE  ~overlap /\ \A d \in Callers \ {c} : call[d].pc = "idle"
  <1>1. ~overlap
    BY OneMoves
  <1>2. call[c].pc # "idle"
    BY DEF At, Step, CognitoCreate, CognitoSetPassword, PutNewUser, PublishProvisioned,
          ReadMailboxOwner, StampVerified, Resolve, JitProvision, JitAnnounce, Decide,
          IncrementAttempts, BurnChallenge, ConsumeChallenge, FinishOtpLogin, PutStatus
  <1> QED
    BY <1>1, <1>2 DEF Alone

LEMMA ToldStep ==
  ASSUME Shape, Records, Alone, ~overlap => Told, [Next]_vars, ~overlap'
  PROVE  Told'
  <1> USE DEF stores, ghosts, At
  <1>a. Told /\ ~overlap
    BY OneMoves
  <1>b. \A e \in Emails : portal[e] # NoRow => portal'[e] # NoRow
    BY Kept, RowThere, RecordsStep, NoRecords DEF HasRecord
  <1>c. \A e \in Emails : announced[e] \in Nat
    BY DEF Shape
  <1>1. ASSUME UNCHANGED announced PROVE \A e \in Emails : RowTold(e)'
    BY <1>1, <1>a, <1>b DEF Told, RowTold
  <1>2. ASSUME NEW c \in Callers,
               call'[c].pc \notin {"password", "record", "jit", "announce", "jitAnnounce"}
        PROVE  CallTold(c)'
    BY <1>2 DEF CallTold
  <1>3. ASSUME NEW c \in Callers, Step(c), \A e \in Emails : RowTold(e)', CallTold(c)',
               \A d \in Callers \ {c} : call'[d] = call[d]
        PROVE  Told'
    <2>1. \A d \in Callers \ {c} : call'[d].pc = "idle"
      BY <1>3, OthersIdle
    <2>2. \A d \in Callers \ {c} : CallTold(d)'
      BY <1>2, <2>1
    <2> QED
      BY <1>3, <2>2 DEF Told
  <1>4. ASSUME NEW c \in Callers, Step(c), UNCHANGED announced, Return(c) PROVE Told'
    <2>1. call'[c].pc = "idle" /\ \A d \in Callers \ {c} : call'[d] = call[d]
      BY <1>4, ReturnStep
    <2> QED
      BY <1>1, <1>2, <1>3, <1>4, <2>1
  <1>5. ASSUME NEW c \in Callers, Step(c), UNCHANGED announced, NEW pc \in Steps, Goto(c, pc),
               pc \in {"consume", "burn"}
        PROVE  Told'
    <2>1. call'[c].pc = pc /\ \A d \in Callers \ {c} : call'[d] = call[d]
      BY <1>5, GotoStep
    <2> QED
      BY <1>1, <1>2, <1>3, <1>5, <2>1
  <1>6. ASSUME NEW c \in Callers, Step(c), UNCHANGED announced, NEW pc \in Steps, NEW row \in Row,
               Hold(c, pc, row), pc \in {"stamp", "verified", "decide"}
        PROVE  Told'
    <2>1. call'[c].pc = pc /\ \A d \in Callers \ {c} : call'[d] = call[d]
      BY <1>6, HoldStep
    <2> QED
      BY <1>1, <1>2, <1>3, <1>6, <2>1
  <1>7. ASSUME NEW c \in Callers, Request(c) PROVE Told'
    <2>1. UNCHANGED announced /\ \A d \in Callers \ {c} : call'[d].pc = "idle"
      BY <1>7, Starts
    <2>2. PICK e \in Emails : \/ Opens(c, e) \/ Resets(c, e)
                              \/ \E enabled \in BOOLEAN : Switches(c, e, enabled)
      BY <1>7, Starts
    <2>3. call'[c].pc \in {"create", "resolve", "attempt", "mailbox", "status"}
      BY <2>2 DEF Opens, Resets, Switches
    <2>4. \A d \in Callers : CallTold(d)'
      BY <1>2, <2>1, <2>3
    <2> QED
      BY <1>1, <2>1, <2>4 DEF Told
  <1>8. ASSUME NEW c \in Callers, CognitoCreate(c) \/ CognitoSetPassword(c) PROVE Told'
    <2> DEFINE e == call[c].email
    <2>1. Step(c) /\ UNCHANGED <<announced, portal>> /\ e \in Emails
      BY <1>8, Types DEF Step, CognitoCreate, CognitoSetPassword
    <2>2. \/ Return(c)
          \/ Goto(c, "password") /\ ~Exists(e)
          \/ Goto(c, "record") /\ call[c].pc = "password"
      BY <1>8 DEF CognitoCreate, CognitoSetPassword
    <2>3. portal[e] = NoRow \/ Return(c)
      BY <1>a, <2>1, <2>2 DEF Told, CallTold, Records
    <2>4. CASE Return(c)
      BY <1>4, <2>1, <2>4
    <2>5. ASSUME NEW pc \in {"password", "record"}, Goto(c, pc), portal[e] = NoRow PROVE Told'
      <3>1. pc \in Steps
        BY DEF Steps
      <3>2. call'[c].pc = pc /\ call'[c].email = e /\ \A d \in Callers \ {c} : call'[d] = call[d]
        BY <2>5, <3>1, GotoStep
      <3>3. CallTold(c)'
        BY <2>1, <2>5, <3>2 DEF CallTold
      <3> QED
        BY <1>1, <1>3, <2>1, <3>2, <3>3
    <2> QED
      BY <2>2, <2>3, <2>4, <2>5
  <1>9. ASSUME NEW c \in Callers, PutNewUser(c) \/ JitProvision(c) PROVE Told'
    <2> DEFINE e == call[c].email
    <2>1. /\ Step(c) /\ UNCHANGED announced /\ e \in Emails
          /\ call[c].pc \in {"record", "jit"} /\ (Goto(c, "announce") \/ Goto(c, "jitAnnounce"))
      BY <1>9, Types DEF Step, PutNewUser, JitProvision
    <2>2. announced[e] = 0
      BY <1>a, <1>c, <2>1 DEF Told, CallTold, RowTold
    <2>3. {"announce", "jitAnnounce"} \subseteq Steps
      BY DEF Steps
    <2>4. /\ call'[c].pc \in {"announce", "jitAnnounce"} /\ call'[c].email = e
          /\ \A d \in Callers \ {c} : call'[d] = call[d]
      BY <2>1, <2>3, GotoStep
    <2>5. CallTold(c)'
      BY <2>1, <2>2, <2>4 DEF CallTold
    <2> QED
      BY <1>1, <1>3, <2>1, <2>4, <2>5
  <1>10. ASSUME NEW c \in Callers, PublishProvisioned(c) \/ JitAnnounce(c) PROVE Told'
    <2> DEFINE e == call[c].email
    <2>1. /\ Step(c) /\ UNCHANGED portal /\ e \in Emails
          /\ call[c].pc \in {"announce", "jitAnnounce"} /\ (Return(c) \/ Goto(c, "decide"))
          /\ announced' = [announced EXCEPT ![e] = @ + 1]
      BY <1>10, Types DEF Step, PublishProvisioned, JitAnnounce
    <2>2. announced[e] = 0 /\ portal[e] # NoRow
      BY <1>a, <2>1, RowThere DEF Told, CallTold, Records, KnowsRecord
    <2>3. \A f \in Emails : announced'[f] = IF f = e THEN 1 ELSE announced[f]
      BY <2>1, <2>2 DEF Shape
    <2>4. \A f \in Emails : RowTold(f)'
      BY <1>a, <2>1, <2>2, <2>3 DEF Told, RowTold
    <2>5. "decide" \in Steps
      BY DEF Steps
    <2>6. call'[c].pc \in {"idle", "decide"} /\ \A d \in Callers \ {c} : call'[d] = call[d]
      BY <2>1, <2>5, GotoStep, ReturnStep
    <2> QED
      BY <1>2, <1>3, <2>1, <2>4, <2>6
  <1>11. ASSUME NEW c \in Callers, ReadMailboxOwner(c) \/ ConsumeChallenge(c) PROVE Told'
    <2> DEFINE row == portal[call[c].email]
    <2>1. /\ Step(c) /\ UNCHANGED announced /\ row \in Row
          /\ Return(c) \/ Hold(c, "stamp", row) \/ Hold(c, "verified", row)
      BY <1>11, Types DEF Step, ReadMailboxOwner, ConsumeChallenge, Hold
    <2>2. {"stamp", "verified"} \subseteq Steps
      BY DEF Steps
    <2> HIDE DEF row
    <2> QED
      BY <1>4, <1>6, <2>1, <2>2
  <1>12. ASSUME NEW c \in Callers, Resolve(c) PROVE Told'
    <2> DEFINE e == call[c].email
    <2>1. Step(c) /\ UNCHANGED <<announced, portal>> /\ e \in Emails /\ portal[e] \in Row
      BY <1>12, Types DEF Step, Resolve
    <2>2. {"jit", "decide"} \subseteq Steps
      BY DEF Steps
    <2>3. CASE portal[e] = NoRow
      <3>1. Hold(c, "jit", NewRow)
        BY <1>12, <2>3 DEF Resolve, Hold
      <3>2. call'[c].pc = "jit" /\ call'[c].email = e /\ \A d \in Callers \ {c} : call'[d] = call[d]
        BY <2>2, <3>1, HoldStep, NoRecords
      <3>3. CallTold(c)'
        BY <2>1, <2>3, <3>2 DEF CallTold
      <3> QED
        BY <1>1, <1>3, <2>1, <3>2, <3>3
    <2>4. CASE portal[e] # NoRow
      <3>1. Hold(c, "decide", portal[e])
        BY <1>12, <2>4 DEF Resolve, Hold
      <3> QED
        BY <1>6, <2>1, <2>2, <3>1
    <2> QED
      BY <2>3, <2>4
  <1>13. ASSUME NEW c \in Callers,
                \/ StampVerified(c) \/ Decide(c) \/ FinishOtpLogin(c) \/ PutStatus(c)
                \/ IncrementAttempts(c) \/ BurnChallenge(c)
         PROVE  Told'
    <2>1. /\ Step(c) /\ UNCHANGED announced
          /\ Return(c) \/ Goto(c, "consume") \/ Goto(c, "burn")
      BY <1>13 DEF Step, StampVerified, Decide, FinishOtpLogin, PutStatus, IncrementAttempts,
                   BurnChallenge
    <2>2. {"consume", "burn"} \subseteq Steps
      BY DEF Steps
    <2> QED
      BY <1>4, <1>5, <2>1, <2>2
  <1>14. ASSUME NEW c \in Callers, Crash(c) PROVE Told'
    <2>1. /\ UNCHANGED announced /\ call[c].pc # "idle" /\ call'[c].pc = "idle"
          /\ \A d \in Callers \ {c} : call'[d] = call[d]
      BY <1>14, Types, NoRecords DEF Crash
    <2>2. \A d \in Callers : CallTold(d)'
      BY <1>2, <1>a, <2>1 DEF Alone
    <2> QED
      BY <1>1, <2>1, <2>2 DEF Told
  <1>15. ASSUME NextDay \/ (\E h \in Challenges : ExpireChallenge(h)) \/ UNCHANGED vars PROVE Told'
    <2>1. UNCHANGED <<announced, portal, call>>
      BY <1>15 DEF NextDay, ExpireChallenge, vars
    <2> QED
      BY <1>a, <2>1 DEF Told, RowTold, CallTold
  <1> QED
    BY <1>7, <1>8, <1>9, <1>10, <1>11, <1>12, <1>13, <1>14, <1>15 DEF Next, Step

LEMMA OnceStep == Shape /\ Records /\ Alone /\ Once /\ [Next]_vars => Once'
  <1> SUFFICES ASSUME Shape, Records, Alone, Once, [Next]_vars PROVE Once'
    OBVIOUS
  <1>1. Made /\ (~overlap => Told)
    BY DEF Once, Made, Told, RowTold, CallTold
  <1>2. Made'
    BY <1>1, MadeStep
  <1>3. ~overlap' => Told'
    BY <1>1, ToldStep
  <1> QED
    BY <1>2, <1>3 DEF Once, Made, Told, RowTold, CallTold

-----------------------------------------------------------------------------
(* Cognito and the portal agree, while requests neither overlap nor die. *)

Pending(e) == \E c \in Callers : call[c].pc = "status" /\ call[c].email = e
RowAgrees(e) ==
  portal[e] # NoRow => (cognito[e].enabled <=> portal[e].status = "Active") \/ Pending(e)
CallAgrees(c) ==
  /\ call[c].pc = "status" => (cognito[call[c].email].enabled <=> call[c].row.status = "Active")
  /\ call[c].pc \in {"stamp", "verified"} => call[c].row.status = portal[call[c].email].status
Agreed == (\A e \in Emails : RowAgrees(e)) /\ \A c \in Callers : CallAgrees(c)
Harmless == ~overlap /\ budget.died = 0

LEMMA Deaths ==
  ASSUME Shape, [Next]_vars, budget'.died = 0
  PROVE  budget.died = 0 /\ \A c \in Callers : ~Crash(c)
  <1> USE DEF stores, ghosts, At
  <1>a. budget \in Budget
    BY DEF Shape
  <1>1. ASSUME NEW c \in Callers PROVE ~Crash(c)
    <2> SUFFICES ASSUME Crash(c) PROVE FALSE
      OBVIOUS
    <2>1. budget' = [budget EXCEPT !.crash = @ - 1, !.died = @ + 1]
      BY DEF Crash
    <2>2. budget'.died = budget.died + 1
      BY <1>a, <2>1 DEF Budget
    <2> QED
      BY <1>a, <2>2 DEF Budget
  <1>2. ASSUME NEW c \in Callers, Request(c) PROVE budget'.died = budget.died
    BY <1>2, Starts
  <1>3. ASSUME NEW c \in Callers, Step(c) PROVE UNCHANGED budget
    BY <1>3
    DEF Step, CognitoCreate, CognitoSetPassword, PutNewUser, PublishProvisioned,
        ReadMailboxOwner, StampVerified, Resolve, JitProvision, JitAnnounce, Decide,
        IncrementAttempts, BurnChallenge, ConsumeChallenge, FinishOtpLogin, PutStatus,
        Goto, Return
  <1>4. ASSUME NextDay \/ (\E h \in Challenges : ExpireChallenge(h)) \/ UNCHANGED vars
        PROVE  UNCHANGED budget
    BY <1>4 DEF NextDay, ExpireChallenge, vars
  <1> QED
    BY <1>1, <1>2, <1>3, <1>4 DEF Next

LEMMA AgreedStep ==
  ASSUME Shape, Records, Alone, Once, Harmless => Agreed, [Next]_vars, Harmless'
  PROVE  Agreed'
  <1> USE DEF stores, ghosts, At
  <1>a. Agreed /\ ~overlap /\ ~overlap'
    BY OneMoves, Deaths DEF Harmless
  <1>b. \A c \in Callers : call'[c].pc \notin {"status", "stamp", "verified"} => CallAgrees(c)'
    BY DEF CallAgrees
  <1>c. \A c \in Callers : ~Crash(c)
    BY Deaths DEF Harmless
  \* A step of the only request there is: no change of status but its own is pending.
  <1>1. ASSUME NEW c \in Callers, Step(c), \A d \in Callers \ {c} : call'[d] = call[d],
               \A e \in Emails : RowAgrees(e)', CallAgrees(c)'
        PROVE  Agreed'
    <2>1. \A d \in Callers \ {c} : call'[d].pc = "idle"
      BY <1>1, OthersIdle, <1>a
    <2>2. \A d \in Callers \ {c} : CallAgrees(d)'
      BY <1>b, <2>1
    <2> QED
      BY <1>1, <2>2 DEF Agreed
  <1>2. ASSUME NEW c \in Callers, Step(c), call[c].pc # "status", NEW e \in Emails,
               portal[e] # NoRow
        PROVE  cognito[e].enabled <=> portal[e].status = "Active"
    <2>1. ~Pending(e)
      BY <1>2, <1>a, OthersIdle DEF Pending
    <2> QED
      BY <1>2, <1>a, <2>1 DEF Agreed, RowAgrees
  <1>3. ASSUME NEW c \in Callers, Step(c), call[c].pc # "status", UNCHANGED portal,
               \A e \in Emails : portal[e] # NoRow => cognito'[e].enabled = cognito[e].enabled
        PROVE  \A e \in Emails : RowAgrees(e)'
    BY <1>2, <1>3 DEF RowAgrees
  <1>4. ASSUME NEW c \in Callers, Step(c), Return(c), \A e \in Emails : RowAgrees(e)'
        PROVE  Agreed'
    <2>1. call'[c].pc = "idle" /\ \A d \in Callers \ {c} : call'[d] = call[d]
      BY <1>4, ReturnStep
    <2> QED
      BY <1>1, <1>4, <1>b, <2>1
  <1>5. ASSUME NEW c \in Callers, Step(c), NEW pc \in Steps, Goto(c, pc),
               pc \notin {"status", "stamp", "verified"}, \A e \in Emails : RowAgrees(e)'
        PROVE  Agreed'
    <2>1. call'[c].pc = pc /\ \A d \in Callers \ {c} : call'[d] = call[d]
      BY <1>5, GotoStep
    <2> QED
      BY <1>1, <1>5, <1>b, <2>1
  <1>6. ASSUME NEW c \in Callers, Request(c) PROVE Agreed'
    <2>1. /\ UNCHANGED portal /\ \A d \in Callers \ {c} : call'[d].pc = "idle"
          /\ \A d \in Callers : call[d].pc = "idle"
      BY <1>6, <1>a, Starts
    <2>2. PICK e \in Emails : /\ call'[c].email = e
                              /\ \/ Opens(c, e) \/ Resets(c, e)
                                 \/ \E enabled \in BOOLEAN : Switches(c, e, enabled)
      BY <1>6, Starts
    <2>3. \A f \in Emails : portal[f] # NoRow => (cognito[f].enabled <=> portal[f].status = "Active")
      BY <1>a, <2>1 DEF Agreed, RowAgrees, Pending
    <2>4. \A d \in Callers \ {c} : CallAgrees(d)'
      BY <1>b, <2>1
    <2>5. ASSUME Opens(c, e) PROVE CallAgrees(c)' /\ \A f \in Emails : RowAgrees(f)'
      BY <1>b, <2>1, <2>3, <2>5 DEF Opens, RowAgrees
    <2>6. ASSUME Resets(c, e) PROVE CallAgrees(c)' /\ \A f \in Emails : RowAgrees(f)'
      <3>1. \A f \in Emails : cognito'[f].enabled = cognito[f].enabled
        BY <2>6, Types DEF Resets, Account
      <3> QED
        BY <1>b, <2>1, <2>3, <2>6, <3>1 DEF Resets, RowAgrees
    <2>7. ASSUME NEW enabled \in BOOLEAN, Switches(c, e, enabled)
          PROVE  CallAgrees(c)' /\ \A f \in Emails : RowAgrees(f)'
      <3>1. /\ cognito'[e].enabled = enabled
            /\ \A f \in Emails : f # e => cognito'[f] = cognito[f]
        BY <2>7, Types DEF Switches, Account
      <3>2. call'[c].pc = "status" /\ (call'[c].row.status = "Active" <=> enabled)
        BY <2>7, Types DEF Switches, Row
      <3>3. CallAgrees(c)'
        BY <2>2, <3>1, <3>2 DEF CallAgrees
      <3>4. Pending(e)'
        BY <2>2, <3>2 DEF Pending
      <3> QED
        BY <2>1, <2>3, <3>1, <3>3, <3>4 DEF RowAgrees
    <2> QED
      BY <2>2, <2>4, <2>5, <2>6, <2>7 DEF Agreed
  <1>7. ASSUME NEW c \in Callers, CognitoCreate(c) PROVE Agreed'
    <2>1. /\ Step(c) /\ call[c].pc = "create" /\ UNCHANGED portal
          /\ call[c].email \in Emails /\ "password" \in Steps
      BY <1>7, Types DEF Step, CognitoCreate, Steps
    <2>2. \/ Return(c) /\ UNCHANGED cognito
          \/ /\ Goto(c, "password") /\ ~Exists(call[c].email)
             /\ cognito' = [cognito EXCEPT ![call[c].email] = [password |-> "unset", enabled |-> TRUE]]
      BY <1>7 DEF CognitoCreate
    <2>3. \A e \in Emails : portal[e] # NoRow => cognito'[e].enabled = cognito[e].enabled
      BY <2>1, <2>2, Types DEF Records
    <2>4. \A e \in Emails : RowAgrees(e)'
      BY <1>3, <2>1, <2>3
    <2> QED
      BY <1>4, <1>5, <2>1, <2>2, <2>4
  <1>8. ASSUME NEW c \in Callers, CognitoSetPassword(c) PROVE Agreed'
    <2>1. /\ Step(c) /\ call[c].pc = "password" /\ UNCHANGED portal
          /\ Goto(c, "record") /\ "record" \in Steps
          /\ cognito' = [cognito EXCEPT ![call[c].email].password = "secret"]
      BY <1>8 DEF Step, CognitoSetPassword, Steps
    <2>2. \A e \in Emails : cognito'[e].enabled = cognito[e].enabled
      BY <2>1, Types DEF Account
    <2>3. \A e \in Emails : RowAgrees(e)'
      BY <1>3, <2>1, <2>2
    <2> QED
      BY <1>5, <2>1, <2>3
  <1>9. ASSUME NEW c \in Callers, PutNewUser(c) \/ JitProvision(c) PROVE Agreed'
    <2>1. PICK e \in Emails : e = call[c].email
      BY <1>9, Types DEF PutNewUser, JitProvision
    <2>2. /\ Step(c) /\ call[c].pc \in {"record", "jit"} /\ UNCHANGED cognito
          /\ Goto(c, "announce") \/ Goto(c, "jitAnnounce")
          /\ portal' = [portal EXCEPT ![e] = NewRow]
      BY <1>9, <2>1 DEF Step, PutNewUser, JitProvision
    <2>3. portal[e] = NoRow
      BY <1>a, <2>1, <2>2 DEF Once
    <2>4. cognito[e].enabled
      BY <2>3 DEF Records
    <2>5. /\ portal'[e] = NewRow
          /\ \A f \in Emails : f # e => portal'[f] = portal[f]
      BY <2>2, Types
    <2>6. \A f \in Emails : RowAgrees(f)'
      BY <1>2, <2>2, <2>4, <2>5, NoRecords DEF RowAgrees
    <2>7. {"announce", "jitAnnounce"} \subseteq Steps
      BY DEF Steps
    <2> QED
      BY <1>5, <2>2, <2>6, <2>7
  <1>10. ASSUME NEW c \in Callers,
                \/ PublishProvisioned(c) \/ JitAnnounce(c) \/ Decide(c) \/ IncrementAttempts(c)
                \/ BurnChallenge(c)
         PROVE  Agreed'
    <2>1. /\ Step(c) /\ call[c].pc # "status" /\ UNCHANGED <<cognito, portal>>
          /\ Return(c) \/ Goto(c, "decide") \/ Goto(c, "consume") \/ Goto(c, "burn")
      BY <1>10 DEF Step, PublishProvisioned, JitAnnounce, Decide, IncrementAttempts, BurnChallenge
    <2>2. {"decide", "consume", "burn"} \subseteq Steps
      BY DEF Steps
    <2>3. \A e \in Emails : RowAgrees(e)'
      BY <1>3, <2>1
    <2> QED
      BY <1>4, <1>5, <2>1, <2>2, <2>3
  \* A request reads a row, and nothing moves until it writes it back.
  <1>11. ASSUME NEW c \in Callers, Step(c), call[c].pc # "status", UNCHANGED <<cognito, portal>>,
                NEW e \in Emails, call[c].email = e, NEW row \in Row,
                NEW pc \in {"stamp", "verified", "jit", "decide"}, Hold(c, pc, row),
                pc \in {"stamp", "verified"} => row = portal[e]
         PROVE  Agreed'
    <2>1. pc \in Steps
      BY DEF Steps
    <2>2. /\ call'[c].pc = pc /\ call'[c].email = e /\ call'[c].row = row
          /\ \A d \in Callers \ {c} : call'[d] = call[d]
      BY <1>11, <2>1, HoldStep
    <2>3. CallAgrees(c)'
      BY <1>11, <2>2 DEF CallAgrees
    <2>4. \A f \in Emails : RowAgrees(f)'
      BY <1>3, <1>11
    <2> QED
      BY <1>1, <1>11, <2>2, <2>3, <2>4
  <1>12. ASSUME NEW c \in Callers, ReadMailboxOwner(c) \/ ConsumeChallenge(c) PROVE Agreed'
    <2>1. PICK e \in Emails : e = call[c].email
      BY <1>12, Types DEF ReadMailboxOwner, ConsumeChallenge
    <2>2. /\ Step(c) /\ call[c].pc # "status" /\ UNCHANGED <<cognito, portal>> /\ portal[e] \in Row
          /\ Return(c) \/ Hold(c, "stamp", portal[e]) \/ Hold(c, "verified", portal[e])
      BY <1>12, <2>1, Types DEF Step, ReadMailboxOwner, ConsumeChallenge, Hold
    <2>3. CASE Return(c)
      BY <1>3, <1>4, <2>2, <2>3
    <2>4. CASE Hold(c, "stamp", portal[e]) \/ Hold(c, "verified", portal[e])
      BY <1>11, <2>1, <2>2, <2>4
    <2> QED
      BY <2>2, <2>3, <2>4
  <1>13. ASSUME NEW c \in Callers, Resolve(c) PROVE Agreed'
    <2>1. PICK e \in Emails : e = call[c].email
      BY <1>13, Types DEF Resolve
    <2> DEFINE row == IF portal[e] = NoRow THEN NewRow ELSE portal[e]
    <2>2. /\ Step(c) /\ call[c].pc # "status" /\ UNCHANGED <<cognito, portal>>
          /\ Hold(c, "jit", row) \/ Hold(c, "decide", row)
      BY <1>13, <2>1 DEF Step, Resolve, Hold
    <2>3. row \in Row
      BY Types, NoRecords
    <2> HIDE DEF row
    <2> QED
      BY <1>11, <2>1, <2>2, <2>3
  <1>14. ASSUME NEW c \in Callers, StampVerified(c) \/ FinishOtpLogin(c) PROVE Agreed'
    <2>1. PICK e \in Emails : e = call[c].email
      BY <1>14, Types DEF StampVerified, FinishOtpLogin
    <2> DEFINE row == [call[c].row EXCEPT !.verified = today]
    <2>2. /\ Step(c) /\ call[c].pc \in {"stamp", "verified"} /\ UNCHANGED cognito /\ Return(c)
          /\ portal' = [portal EXCEPT ![e] = row]
      BY <1>14, <2>1 DEF Step, StampVerified, FinishOtpLogin
    <2>3. row.status = call[c].row.status
      BY Days DEF Row
    <2>4. call[c].row.status = portal[e].status /\ portal[e] # NoRow
      BY <1>a, <2>1, <2>2, RowThere DEF Agreed, CallAgrees, Records, KnowsRecord
    <2> HIDE DEF row
    <2>5. /\ portal'[e] = row
          /\ \A f \in Emails : f # e => portal'[f] = portal[f]
      BY <2>2, Types
    <2>6. \A f \in Emails : RowAgrees(f)'
      BY <1>2, <2>2, <2>3, <2>4, <2>5 DEF RowAgrees
    <2> QED
      BY <1>4, <2>2, <2>6
  <1>15. ASSUME NEW c \in Callers, PutStatus(c) PROVE Agreed'
    <2>1. PICK e \in Emails : e = call[c].email
      BY <1>15, Types DEF PutStatus
    <2>2. /\ Step(c) /\ call[c].pc = "status" /\ UNCHANGED cognito /\ Return(c)
          /\ portal' = [portal EXCEPT ![e] = call[c].row]
      BY <1>15, <2>1 DEF Step, PutStatus
    <2>3. cognito[e].enabled <=> call[c].row.status = "Active"
      BY <1>a, <2>1, <2>2 DEF Agreed, CallAgrees
    <2>4. /\ portal'[e] = call[c].row
          /\ \A f \in Emails : f # e => portal'[f] = portal[f]
      BY <2>2, Types
    <2>5. \A f \in Emails : f # e => ~Pending(f)
      BY <1>a, <2>1, <2>2, OthersIdle DEF Pending
    <2>6. \A f \in Emails : RowAgrees(f)'
      BY <1>a, <2>2, <2>3, <2>4, <2>5 DEF Agreed, RowAgrees
    <2> QED
      BY <1>4, <2>2, <2>6
  <1>16. ASSUME NextDay \/ (\E h \in Challenges : ExpireChallenge(h)) \/ UNCHANGED vars PROVE Agreed'
    <2>1. UNCHANGED <<cognito, portal, call>>
      BY <1>16 DEF NextDay, ExpireChallenge, vars
    <2> QED
      BY <1>a, <2>1 DEF Agreed, RowAgrees, CallAgrees, Pending
  <1> QED
    BY <1>c, <1>6, <1>7, <1>8, <1>9, <1>10, <1>12, <1>13, <1>14, <1>15, <1>16 DEF Next, Step

LEMMA AgreeStep == Shape /\ Records /\ Alone /\ Once /\ Agree /\ [Next]_vars => Agree'
  <1> SUFFICES ASSUME Shape, Records, Alone, Once, Agree, [Next]_vars PROVE Agree'
    OBVIOUS
  <1>1. Harmless => Agreed
    BY DEF Agree, Harmless, Agreed, RowAgrees, CallAgrees, Pending
  <1>2. Harmless' => Agreed'
    BY <1>1, AgreedStep
  <1> QED
    BY <1>2 DEF Agree, Harmless, Agreed, RowAgrees, CallAgrees, Pending

-----------------------------------------------------------------------------
(* The theorems. *)

\* The invariant is one: it holds at first and no step of the identity service breaks it.
THEOREM Inductive == Spec => []IInv
  <1>1. IInv /\ [Next]_vars => IInv'
    <2> SUFFICES ASSUME IInv, [Next]_vars PROVE IInv'
      OBVIOUS
    <2>1. Shape' /\ Records'
      BY ShapeStep, RecordsStep DEF IInv
    <2>2. Alone' /\ Once'
      BY AloneStep, OnceStep DEF IInv
    <2>3. Proven' /\ Counted' /\ Agree'
      BY ProvenStep, CountedStep, AgreeStep DEF IInv
    <2> QED
      BY <2>1, <2>2, <2>3 DEF IInv
  <1> QED
    BY <1>1, InitIInv, PTL DEF Spec

\* Accounts, records, challenges and sessions keep their types (the rows auth_service and
\* user_service write back as they were read among them).
THEOREM TypeCorrect == Spec => []TypeOK
  <1>1. IInv => TypeOK
    BY DEF IInv, Shape
  <1> QED
    BY <1>1, Inductive, PTL

\* An address has one account, announced once; a session follows a code entered within the
\* interval; a challenge takes no more than its guesses; Cognito and the portal agree
\* (auth_service, otp_service, user_service).
THEOREM AccountsAlwaysHold == Spec => []AccountsHold
  <1>1. IInv => AccountsHold
    <2> SUFFICES ASSUME IInv PROVE AccountsHold
      OBVIOUS
    <2>1. OneAccount
      BY DEF IInv, Once, OneAccount
    <2>2. SessionIsProven /\ GuessesAreLimited
      BY DEF IInv, Proven, Counted
    <2>3. StatusAgrees
      BY DEF IInv, Agree, StatusAgrees, Quiet
    <2> QED
      BY <2>1, <2>2, <2>3 DEF AccountsHold
  <1> QED
    BY <1>1, Inductive, PTL

=============================================================================
