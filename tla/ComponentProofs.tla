--------------------------- MODULE ComponentProofs ---------------------------
(***************************************************************************)
(* Proofs of the components that MemberParts and the modules like it have, *)
(* each through the instance there.  A theorem here is of one component,   *)
(* for every value of its constants.  Its section gives the assumptions on *)
(* the constants, the inductive invariant, a lemma for each action, and    *)
(* the theorem.                                                            *)
(***************************************************************************)
EXTENDS MemberParts, EventParts, CommunityParts, Integers, Sequences, FiniteSets,
        FiniteSetTheorems, TLAPS

-----------------------------------------------------------------------------
(* Settings.  A value is 0 or 1 and a field that is not stored is neither. *)
SettingsAssumption ==
  /\ Default \in [St!Fields -> {0, 1}] /\ EnvDefault \in [St!Fields -> {0, 1}]
  /\ Unset \notin {0, 1} /\ 0 \notin Templates /\ Ttl \in Nat

\* The fields an administrator's save is about.
Told == {"open", "days", "teams"}
Shown(f) == IF stored[f] = Unset THEN Default[f] ELSE stored[f]

SaveRequest ==
  [do : {"idle", "put", "tell", "template"}, body : SUBSET {"open", "days", "teams"},
   copy : [St!Fields -> {0, 1}], template : Templates \cup {0}, text : Int]

SettingsTypes ==
  /\ stored \in [St!Fields -> {Unset, 0, 1}] /\ stored["teams"] = 0 /\ stored["points"] \in {0, 1}
  /\ clock \in Nat /\ client \in St!Clients
  /\ heldAt \in [St!Fields -> [{0, 1} -> Int]] /\ failedAt \in [Containers -> Int]
  /\ cache \in [Containers -> [from : {"none", "live", "env", "empty"}, at : Nat,
                               val : [St!Fields -> {0, 1}]]]
  /\ answer \in [Containers -> [from : {"none", "live", "env", "empty"}, stale : BOOLEAN,
                                age : Int, since : Int]]
  /\ save \in [Admins -> SaveRequest]
  /\ template \in [Templates -> Int]
  /\ toldSettings \in [St!Fields -> {0, 1}]
  /\ saveOverlap \in BOOLEAN

\* What a request holds goes with what it is about to do.
SavesAreWhole ==
  \A a \in Admins :
    /\ save[a].do = "idle" => save[a] = St!NoSave
    /\ save[a].do = "put" => save[a].template = 0 /\ save[a].copy["teams"] = 0
    /\ save[a].do = "template" => save[a].template # 0

\* A value read is the stored one, or was when it was read.
CacheWasTrue ==
  \A k \in Containers :
    /\ cache[k].at <= clock
    /\ cache[k].from = "live" =>
         \A f \in St!Fields : Shown(f) = cache[k].val[f] \/ heldAt[f][cache[k].val[f]] >= cache[k].at

\* What is kept of a failed call is as old as the failure; of point values nothing is.
FallbackIsDated ==
  \A k \in Containers :
    /\ cache[k].from \in {"env", "empty"} => failedAt[k] = cache[k].at
    /\ client = "points" => cache[k].from \in {"none", "live"}

Telling(a) == save[a].do = "tell" /\ save[a].template = 0

\* Saves one after the other: what is being told is stored, or else what was told is.
OneSaveTells ==
  ~saveOverlap =>
    /\ \A a, b \in Admins : save[a].do # "idle" /\ save[b].do # "idle" => a = b
    /\ \A a \in Admins : Telling(a) => \A f \in Told : save[a].copy[f] = Shown(f)
    /\ (\A a \in Admins : ~Telling(a)) => \A f \in Told : toldSettings[f] = Shown(f)

SettingsInv ==
  /\ SettingsTypes /\ SavesAreWhole /\ CacheWasTrue /\ FallbackIsDated /\ OneSaveTells
  /\ St!AnswersAreRecent /\ St!FallbackIsBrief

LEMMA StShown == ASSUME SettingsTypes, SettingsAssumption
                 PROVE  /\ St!settings_public(stored) = [f \in St!Fields |-> Shown(f)]
                        /\ \A f \in St!Fields : Shown(f) \in {0, 1}
                        /\ Shown("points") = stored["points"] /\ Shown("teams") = 0
  BY DEF St!settings_public, Shown, SettingsTypes, SettingsAssumption, St!Fields, St!Saved

LEMMA StInitially == SettingsAssumption /\ St!Init => SettingsInv
<1> SUFFICES ASSUME SettingsAssumption, St!Init PROVE SettingsInv
  OBVIOUS
<1> USE DEF St!Fields, St!Saved, St!Values
<1>1. stored \in [St!Fields -> {Unset, 0, 1}] /\ stored["teams"] = 0 /\ stored["points"] = 0
  BY DEF St!Init
<1>2. toldSettings \in [St!Fields -> {0, 1}] /\ \A f \in St!Fields : toldSettings[f] = Shown(f)
  BY <1>1 DEF St!Init, St!settings_public, Shown, SettingsAssumption
<1>3. \A a \in Admins : save[a] = St!NoSave
  BY DEF St!Init
<1>4. SettingsTypes
  <2>1. heldAt \in [St!Fields -> [{0, 1} -> Int]] /\ failedAt \in [Containers -> Int]
        /\ template \in [Templates -> Int] /\ clock \in Nat /\ client \in St!Clients
    BY DEF St!Init
  <2>2. cache \in [Containers -> [from : {"none", "live", "env", "empty"}, at : Nat,
                                  val : [St!Fields -> {0, 1}]]]
    BY DEF St!Init, St!NoCache, SettingsAssumption
  <2>3. answer \in [Containers -> [from : {"none", "live", "env", "empty"}, stale : BOOLEAN,
                                   age : Int, since : Int]]
    BY DEF St!Init, St!NoAnswer
  <2>4. save \in [Admins -> SaveRequest]
    BY DEF St!Init, St!NoSave, SettingsAssumption, SaveRequest
  <2>5. saveOverlap \in BOOLEAN
    BY DEF St!Init
  <2> QED BY <1>1, <1>2, <2>1, <2>2, <2>3, <2>4, <2>5 DEF SettingsTypes
<1>5. SavesAreWhole /\ OneSaveTells
  BY <1>2, <1>3 DEF SavesAreWhole, OneSaveTells, Telling, St!NoSave, Told
<1>6. CacheWasTrue /\ FallbackIsDated /\ St!AnswersAreRecent /\ St!FallbackIsBrief
  BY DEF St!Init, CacheWasTrue, FallbackIsDated, St!AnswersAreRecent, St!FallbackIsBrief,
     St!NoCache, St!NoAnswer
<1> QED BY <1>4, <1>5, <1>6 DEF SettingsInv
-----------------------------------------------------------------------------
\* The administrator's row may change in this way: what was shown until now was held until now.
RowMoves ==
  /\ stored' \in [St!Fields -> {Unset, 0, 1}]
  /\ \A f \in St!Fields : \A v \in {0, 1} :
        IF Shown(f) = v /\ Shown(f)' # v THEN heldAt'[f][v] = clock ELSE heldAt'[f][v] = heldAt[f][v]

\* No container asks.
ClientsRest == UNCHANGED <<client, cache, answer, failedAt>>

LEMMA StClientsRest ==
  ASSUME SettingsAssumption, SettingsInv, SettingsTypes', RowMoves, ClientsRest, clock' = clock
  PROVE  CacheWasTrue' /\ FallbackIsDated' /\ St!AnswersAreRecent' /\ St!FallbackIsBrief'
<1>1. CacheWasTrue'
  <2> SUFFICES ASSUME NEW k \in Containers
               PROVE  /\ cache[k].at <= clock
                      /\ cache[k].from = "live" => \A f \in St!Fields :
                            Shown(f)' = cache[k].val[f] \/ heldAt'[f][cache[k].val[f]] >= cache[k].at
    BY DEF CacheWasTrue, ClientsRest
  <2>1. cache[k].at <= clock /\ cache[k].val \in [St!Fields -> {0, 1}]
        /\ cache[k].at \in Nat /\ clock \in Nat
    BY DEF SettingsInv, CacheWasTrue, SettingsTypes
  <2>2. ASSUME cache[k].from = "live", NEW f \in St!Fields
        PROVE  Shown(f)' = cache[k].val[f] \/ heldAt'[f][cache[k].val[f]] >= cache[k].at
    <3> DEFINE v == cache[k].val[f]
    <3>1. v \in {0, 1} /\ (Shown(f) = v \/ heldAt[f][v] >= cache[k].at)
      BY <2>1, <2>2 DEF SettingsInv, CacheWasTrue
    <3>2. IF Shown(f) = v /\ Shown(f)' # v THEN heldAt'[f][v] = clock
          ELSE heldAt'[f][v] = heldAt[f][v]
      BY <3>1 DEF RowMoves
    <3> QED BY <2>1, <3>1, <3>2
  <2> QED BY <2>1, <2>2
<1>2. FallbackIsDated' /\ St!AnswersAreRecent' /\ St!FallbackIsBrief'
  BY DEF ClientsRest, SettingsInv, FallbackIsDated, St!AnswersAreRecent, St!FallbackIsBrief
<1> QED BY <1>1, <1>2

LEMMA StRowRests ==
  ASSUME SettingsTypes, UNCHANGED <<stored, heldAt>>
  PROVE  RowMoves /\ \A f \in St!Fields : Shown(f)' = Shown(f)
  BY DEF RowMoves, Shown, SettingsTypes

LEMMA StGoesOn ==
  ASSUME NEW s \in SaveRequest
  PROVE  /\ [s EXCEPT !.do = "tell"] \in SaveRequest
         /\ [s EXCEPT !.do = "tell"].do = "tell"
         /\ [s EXCEPT !.do = "tell"].copy = s.copy /\ [s EXCEPT !.do = "tell"].template = s.template
  BY DEF SaveRequest

LEMMA StRequest ==
  ASSUME NEW fs, NEW m
  PROVE  [St!NoSave EXCEPT !.do = "put", !.body = fs, !.copy = m]
           = [do |-> "put", body |-> fs, copy |-> m, template |-> 0, text |-> 0]
<1> DEFINE r == [body |-> {}, copy |-> Default, do |-> "put", template |-> 0, text |-> 0]
           q == [body |-> fs, copy |-> Default, do |-> "put", template |-> 0, text |-> 0]
<1>1. [St!NoSave EXCEPT !.do = "put"] = r
  BY DEF St!NoSave
<1>2. [r EXCEPT !.body = fs] = q
  OBVIOUS
<1>3. [q EXCEPT !.copy = m] = [do |-> "put", body |-> fs, copy |-> m, template |-> 0, text |-> 0]
  OBVIOUS
<1> QED BY <1>1, <1>2, <1>3

LEMMA StUpdateReads ==
  ASSUME SettingsAssumption, SettingsInv, NEW a \in Admins, St!UpdateReads(a)
  PROVE  SettingsInv'
<1> USE DEF St!row, St!clients
<1>1. PICK fs \in SUBSET {"open", "days", "teams"} : \E body \in [fs -> {0, 1}] :
        save' = [save EXCEPT ![a] = [St!NoSave EXCEPT !.do = "put", !.body = fs,
                                                      !.copy = St!Merged(body)]]
  BY DEF St!UpdateReads, St!Saved, St!Values
<1>2. PICK body \in [fs -> {0, 1}] :
        save' = [save EXCEPT ![a] = [St!NoSave EXCEPT !.do = "put", !.body = fs,
                                                      !.copy = St!Merged(body)]]
  BY <1>1
<1>3. St!Merged(body) \in [St!Fields -> {0, 1}] /\ St!Merged(body)["teams"] = 0
  BY StShown DEF St!Merged, SettingsInv, St!Fields
<1> DEFINE s == [do |-> "put", body |-> fs, copy |-> St!Merged(body), template |-> 0, text |-> 0]
<1>4. save' = [save EXCEPT ![a] = s]
  BY <1>2, StRequest
<1> HIDE DEF s
<1>5. s.do = "put" /\ s.template = 0 /\ s.copy["teams"] = 0
      /\ s \in SaveRequest
  BY <1>3 DEF s, SaveRequest
<1>6. UNCHANGED <<stored, heldAt, template, toldSettings, client, cache, answer, failedAt, clock>>
  BY DEF St!UpdateReads
<1>7. SettingsTypes'
  BY <1>4, <1>5, <1>6 DEF SettingsInv, SettingsTypes, St!UpdateReads
<1>8. SavesAreWhole'
  BY <1>4, <1>5 DEF SettingsInv, SettingsTypes, SavesAreWhole
<1>9. OneSaveTells'
  <2> SUFFICES ASSUME ~saveOverlap' PROVE OneSaveTells'
    BY DEF OneSaveTells
  <2>1. \A b \in Admins : save[b] = St!NoSave
    BY DEF St!UpdateReads, St!Saving
  <2>2. \A b \in Admins : ~Telling(b) /\ ~Telling(b)' /\ (b # a => save'[b].do = "idle")
    BY <1>4, <1>5, <2>1 DEF Telling, St!NoSave, SettingsInv, SettingsTypes
  <2>3. ~saveOverlap
    BY DEF St!UpdateReads, SettingsInv, SettingsTypes
  <2>4. \A f \in Told : toldSettings'[f] = Shown(f)'
    BY <1>6, <2>2, <2>3 DEF SettingsInv, OneSaveTells, Shown
  <2> QED BY <2>2, <2>4 DEF OneSaveTells
<1> QED BY <1>6, <1>7, <1>8, <1>9, StRowRests, StClientsRest DEF SettingsInv, ClientsRest
LEMMA StUpdatePuts ==
  ASSUME SettingsAssumption, SettingsInv, NEW a \in Admins, St!UpdatePuts(a)
  PROVE  SettingsInv'
<1> USE DEF St!clients
<1> DEFINE m == save[a].copy
<1>1. m \in [St!Fields -> {0, 1}] /\ m["teams"] = 0 /\ save[a].template = 0 /\ save[a].do = "put"
  BY DEF SettingsInv, SettingsTypes, SavesAreWhole, St!UpdatePuts, SaveRequest
<1>2. stored' = [m EXCEPT !["points"] = stored["points"]]
  BY DEF St!UpdatePuts, St!put_settings
<1> HIDE DEF m
<1>3. /\ stored' \in [St!Fields -> {Unset, 0, 1}] /\ stored'["teams"] = 0
      /\ stored'["points"] = stored["points"]
      /\ \A f \in Told : stored'[f] = m[f] /\ m[f] # Unset
  BY <1>1, <1>2 DEF SettingsInv, SettingsTypes, SettingsAssumption, St!Fields, St!Saved, Told
<1>4. \A f \in Told : Shown(f)' = m[f]
  BY <1>3 DEF Shown
<1>5. heldAt' = [f \in St!Fields |-> [v \in {0, 1} |->
                  IF Shown(f) = v /\ Shown(f)' # v THEN clock ELSE heldAt[f][v]]]
  BY <1>3 DEF St!UpdatePuts, St!put_settings, St!settings_public, Shown, St!Values
<1>6. RowMoves
  BY <1>3, <1>5 DEF RowMoves
<1>7. save' = [save EXCEPT ![a].do = "tell"]
      /\ UNCHANGED <<template, toldSettings, saveOverlap, client, cache, answer, failedAt, clock>>
  BY DEF St!UpdatePuts
<1>8. /\ save' \in [Admins -> SaveRequest]
      /\ save'[a].do = "tell" /\ save'[a].copy = m /\ save'[a].template = 0
      /\ \A b \in Admins : b # a => save'[b] = save[b]
  <2>1. save[a] \in SaveRequest /\ save' = [save EXCEPT ![a] = [save[a] EXCEPT !.do = "tell"]]
    BY <1>7 DEF SettingsInv, SettingsTypes
  <2>2. save \in [Admins -> SaveRequest]
    BY DEF SettingsInv, SettingsTypes
  <2> QED BY <1>1, <2>1, <2>2, StGoesOn DEF m
<1>9. SettingsTypes'
  <2>1. heldAt' \in [St!Fields -> [{0, 1} -> Int]]
    BY <1>5 DEF SettingsInv, SettingsTypes
  <2> QED BY <1>3, <1>7, <1>8, <2>1 DEF SettingsInv, SettingsTypes
<1>10. SavesAreWhole'
  BY <1>8 DEF SettingsInv, SavesAreWhole
<1>11. OneSaveTells'
  <2> SUFFICES ASSUME ~saveOverlap' PROVE OneSaveTells'
    BY DEF OneSaveTells
  <2>1. \A b \in Admins : save[b].do # "idle" => b = a
    BY <1>1, <1>7 DEF SettingsInv, OneSaveTells
  <2>2. \A b \in Admins : save'[b].do # "idle" => b = a
    BY <1>8, <2>1
  <2>3. Telling(a)' /\ \A b \in Admins : Telling(b)' => b = a
    BY <1>8, <2>2 DEF Telling
  <2>4. \A f \in Told : save'[a].copy[f] = Shown(f)'
    BY <1>4, <1>8
  <2> QED BY <2>2, <2>3, <2>4 DEF OneSaveTells
<1> QED BY <1>6, <1>7, <1>9, <1>10, <1>11, StClientsRest DEF SettingsInv, ClientsRest

LEMMA StTells ==
  ASSUME SettingsAssumption, SettingsInv, NEW a \in Admins, St!Tells(a)
  PROVE  SettingsInv'
<1> USE DEF St!row, St!clients
<1>1. /\ save[a].do = "tell" /\ save' = [save EXCEPT ![a] = St!NoSave]
      /\ UNCHANGED <<stored, heldAt, template, saveOverlap, client, cache, answer, failedAt, clock>>
      /\ toldSettings' = IF save[a].template # 0 THEN toldSettings ELSE save[a].copy
  BY DEF St!Tells
<1>2. St!NoSave \in SaveRequest
      /\ St!NoSave.do = "idle"
  BY DEF St!NoSave, SettingsAssumption, SaveRequest
<1>3. SettingsTypes' /\ SavesAreWhole'
  <2>1. toldSettings' \in [St!Fields -> {0, 1}]
    BY <1>1 DEF SettingsInv, SettingsTypes, SaveRequest
  <2>2. save' \in [Admins -> SaveRequest]
    BY <1>1, <1>2 DEF SettingsInv, SettingsTypes
  <2>3. SettingsTypes'
    BY <1>1, <2>1, <2>2 DEF SettingsInv, SettingsTypes
  <2>4. \A b \in Admins : save'[b] = IF b = a THEN St!NoSave ELSE save[b]
    BY <1>1 DEF SettingsInv, SettingsTypes
  <2> QED BY <1>2, <2>3, <2>4 DEF SettingsInv, SavesAreWhole
<1>4. OneSaveTells'
  <2> SUFFICES ASSUME ~saveOverlap' PROVE OneSaveTells'
    BY DEF OneSaveTells
  <2>1. \A b \in Admins : save[b].do # "idle" => b = a
    BY <1>1 DEF SettingsInv, OneSaveTells
  <2>2. \A b \in Admins : save'[b].do = "idle"
    BY <1>1, <1>2, <2>1 DEF SettingsInv, SettingsTypes
  <2>3. \A f \in Told : toldSettings'[f] = Shown(f)
    <3>1. CASE Telling(a)
      BY <1>1, <3>1 DEF SettingsInv, OneSaveTells, Telling
    <3>2. CASE ~Telling(a)
      <4>1. \A b \in Admins : ~Telling(b)
        BY <2>1, <3>2 DEF Telling
      <4> QED BY <1>1, <3>2, <4>1 DEF SettingsInv, OneSaveTells, Telling
    <3> QED BY <3>1, <3>2
  <2>4. \A f \in Told : toldSettings'[f] = Shown(f)'
    BY <1>1, <2>3 DEF Shown
  <2> QED BY <2>2, <2>4 DEF OneSaveTells, Telling
<1>5. SettingsTypes BY DEF SettingsInv
<1> QED BY <1>1, <1>3, <1>4, StRowRests, StClientsRest DEF SettingsInv, ClientsRest

LEMMA StTemplateReads ==
  ASSUME SettingsAssumption, SettingsInv, NEW a \in Admins, St!TemplateReads(a)
  PROVE  SettingsInv'
<1> USE DEF St!row, St!clients
<1>1. PICK t \in Templates :
        save' = [save EXCEPT ![a] = [St!NoSave EXCEPT !.do = "template", !.template = t,
                                                      !.text = template[t] + 1]]
  BY DEF St!TemplateReads, St!get_template
<1> DEFINE s == [St!NoSave EXCEPT !.do = "template", !.template = t, !.text = template[t] + 1]
<1>2. /\ s \in SaveRequest
      /\ s.do = "template" /\ s.template # 0
  <2>1. St!NoSave \in SaveRequest
    BY DEF St!NoSave, SettingsAssumption, SaveRequest
  <2>2. template[t] + 1 \in Int /\ t # 0
    BY DEF SettingsAssumption, SettingsInv, SettingsTypes
  <2> QED BY <2>1, <2>2 DEF SaveRequest
<1>3. save' = [save EXCEPT ![a] = s]
  BY <1>1
<1> HIDE DEF s
<1>4. UNCHANGED <<stored, heldAt, template, toldSettings, client, cache, answer, failedAt, clock>>
  BY DEF St!TemplateReads
<1>5. SettingsTypes'
  BY <1>2, <1>3, <1>4 DEF SettingsInv, SettingsTypes, St!TemplateReads
<1>6. SavesAreWhole'
  BY <1>2, <1>3 DEF SettingsInv, SettingsTypes, SavesAreWhole
<1>7. OneSaveTells'
  <2> SUFFICES ASSUME ~saveOverlap' PROVE OneSaveTells'
    BY DEF OneSaveTells
  <2>1. \A b \in Admins : save[b] = St!NoSave
    BY DEF St!TemplateReads, St!Saving
  <2>2. \A b \in Admins : ~Telling(b) /\ ~Telling(b)' /\ (b # a => save'[b].do = "idle")
    BY <1>2, <1>3, <2>1 DEF Telling, St!NoSave, SettingsInv, SettingsTypes
  <2>3. ~saveOverlap
    BY DEF St!TemplateReads, SettingsInv, SettingsTypes
  <2>4. \A f \in Told : toldSettings'[f] = Shown(f)'
    BY <1>4, <2>2, <2>3 DEF SettingsInv, OneSaveTells, Shown
  <2> QED BY <2>2, <2>4 DEF OneSaveTells
<1> QED BY <1>4, <1>5, <1>6, <1>7, StRowRests, StClientsRest DEF SettingsInv, ClientsRest

LEMMA StTemplatePuts ==
  ASSUME SettingsAssumption, SettingsInv, NEW a \in Admins, St!TemplatePuts(a)
  PROVE  SettingsInv'
<1> USE DEF St!row, St!clients
<1>1. /\ save[a].do = "template" /\ save' = [save EXCEPT ![a].do = "tell"]
      /\ template' = [template EXCEPT ![save[a].template] = save[a].text]
      /\ UNCHANGED <<stored, heldAt, toldSettings, saveOverlap, client, cache, answer, failedAt, clock>>
  BY DEF St!TemplatePuts
<1>2. /\ save' \in [Admins -> SaveRequest]
      /\ save'[a].do = "tell" /\ save'[a].template # 0
      /\ \A b \in Admins : b # a => save'[b] = save[b]
  <2>1. save[a] \in SaveRequest /\ save' = [save EXCEPT ![a] = [save[a] EXCEPT !.do = "tell"]]
    BY <1>1 DEF SettingsInv, SettingsTypes
  <2>2. save \in [Admins -> SaveRequest] /\ save[a].template # 0
    BY <1>1 DEF SettingsInv, SettingsTypes, SavesAreWhole
  <2> QED BY <2>1, <2>2, StGoesOn
<1>3. SettingsTypes' /\ SavesAreWhole'
  <2>1. template' \in [Templates -> Int]
    BY <1>1 DEF SettingsInv, SettingsTypes, SaveRequest
  <2> QED BY <1>1, <1>2, <2>1 DEF SettingsInv, SettingsTypes, SavesAreWhole
<1>4. OneSaveTells'
  <2> SUFFICES ASSUME ~saveOverlap' PROVE OneSaveTells'
    BY DEF OneSaveTells
  <2>1. \A b \in Admins : save[b].do # "idle" => b = a
    BY <1>1 DEF SettingsInv, OneSaveTells
  <2>2. \A b \in Admins : ~Telling(b) /\ ~Telling(b)' /\ (b # a => save'[b].do = "idle")
    BY <1>1, <1>2, <2>1 DEF Telling
  <2>3. \A f \in Told : toldSettings'[f] = Shown(f)'
    BY <1>1, <2>2 DEF SettingsInv, OneSaveTells, Shown
  <2> QED BY <2>2, <2>3 DEF OneSaveTells
<1>5. SettingsTypes BY DEF SettingsInv
<1> QED BY <1>1, <1>3, <1>4, StRowRests, StClientsRest DEF SettingsInv, ClientsRest

LEMMA StEditPoints ==
  ASSUME SettingsAssumption, SettingsInv, St!EditPoints
  PROVE  SettingsInv'
<1> USE DEF St!admin, St!clients
<1>1. /\ stored' = [stored EXCEPT !["points"] = 1 - stored["points"]]
      /\ heldAt' = [heldAt EXCEPT !["points"][stored["points"]] = clock]
      /\ UNCHANGED <<template, save, toldSettings, saveOverlap, client, cache, answer, failedAt, clock>>
  BY DEF St!EditPoints
<1>2. /\ stored' \in [St!Fields -> {Unset, 0, 1}] /\ stored'["teams"] = 0
      /\ stored'["points"] = 1 - stored["points"] /\ stored'["points"] \in {0, 1}
      /\ \A f \in St!Fields : f # "points" => stored'[f] = stored[f]
  BY <1>1 DEF SettingsInv, SettingsTypes, St!Fields, St!Saved
<1>3. /\ heldAt' \in [St!Fields -> [{0, 1} -> Int]]
      /\ heldAt'["points"][stored["points"]] = clock
      /\ \A f \in St!Fields, v \in {0, 1} : f # "points" \/ v # stored["points"] =>
            heldAt'[f][v] = heldAt[f][v]
  BY <1>1 DEF SettingsInv, SettingsTypes, St!Fields, St!Saved
<1>4. Shown("points") = stored["points"] /\ Shown("points")' = stored'["points"]
  BY <1>2 DEF Shown, SettingsInv, SettingsTypes, SettingsAssumption
<1>5. \A f \in St!Fields : f # "points" => Shown(f)' = Shown(f)
  BY <1>2 DEF Shown
<1>6. RowMoves
  BY <1>2, <1>3, <1>4, <1>5 DEF RowMoves, SettingsInv, SettingsTypes
<1>7. SettingsTypes' /\ SavesAreWhole'
  BY <1>1, <1>2, <1>3 DEF SettingsInv, SettingsTypes, SavesAreWhole
<1>8. OneSaveTells'
  <2>1. \A f \in Told : Shown(f)' = Shown(f)
    BY <1>5 DEF Told, St!Fields, St!Saved
  <2> QED BY <1>1, <2>1 DEF SettingsInv, OneSaveTells, Telling
<1> QED BY <1>1, <1>6, <1>7, <1>8, StClientsRest DEF SettingsInv, ClientsRest

-----------------------------------------------------------------------------
\* The record and the administrators' requests rest.
SavesRest == UNCHANGED <<stored, heldAt, template, save, toldSettings, saveOverlap>>

LEMMA StSavesRest ==
  ASSUME SettingsInv, SavesRest
  PROVE  SavesAreWhole' /\ OneSaveTells'
  BY DEF SettingsInv, SavesRest, SavesAreWhole, OneSaveTells, Telling, Shown

\* Container k gives an answer from what it holds now.
Answers(k) ==
  \E f \in St!Fields :
    answer' = [answer EXCEPT ![k] =
      [from |-> cache'[k].from, stale |-> cache'[k].val[f] # Shown(f),
       age |-> clock - heldAt[f][cache'[k].val[f]], since |-> clock - failedAt'[k]]]

\* An answer from what is held, and true, is recent enough.
LEMMA StAnswer ==
  ASSUME SettingsAssumption, SettingsInv, SettingsTypes', CacheWasTrue', FallbackIsDated', SavesRest,
         clock' = clock, NEW k \in Containers, Answers(k),
         clock - cache'[k].at <= Ttl
  PROVE  St!AnswersAreRecent' /\ St!FallbackIsBrief'
<1>1. PICK f \in St!Fields :
        answer' = [answer EXCEPT ![k] =
          [from |-> cache'[k].from, stale |-> cache'[k].val[f] # Shown(f),
           age |-> clock - heldAt[f][cache'[k].val[f]], since |-> clock - failedAt'[k]]]
  BY DEF Answers
<1>2. /\ answer'[k].from = cache'[k].from
      /\ answer'[k].stale = (cache'[k].val[f] # Shown(f))
      /\ answer'[k].age = clock - heldAt[f][cache'[k].val[f]]
      /\ answer'[k].since = clock - failedAt'[k]
      /\ \A o \in Containers : o # k => answer'[o] = answer[o]
  BY <1>1 DEF SettingsInv, SettingsTypes
<1>3. Shown(f)' = Shown(f) /\ heldAt' = heldAt
  BY DEF SavesRest, Shown
<1>4. cache'[k].at \in Nat /\ cache'[k].val[f] \in {0, 1} /\ clock \in Nat /\ Ttl \in Nat
      /\ heldAt[f][cache'[k].val[f]] \in Int
  BY DEF SettingsTypes, SettingsAssumption, SettingsInv
<1>5. answer'[k].from = "live" /\ answer'[k].stale => answer'[k].age <= Ttl
  <2> SUFFICES ASSUME cache'[k].from = "live", cache'[k].val[f] # Shown(f)
               PROVE  clock - heldAt[f][cache'[k].val[f]] <= Ttl
    BY <1>2
  <2>1. heldAt[f][cache'[k].val[f]] >= cache'[k].at
    BY <1>3 DEF CacheWasTrue
  <2> QED BY <1>4, <2>1
<1>6. answer'[k].from \in {"env", "empty"} => answer'[k].since <= Ttl
  BY <1>2, <1>4 DEF FallbackIsDated
<1> QED BY <1>2, <1>5, <1>6 DEF SettingsInv, St!AnswersAreRecent, St!FallbackIsBrief

LEMMA StAnswerTypes ==
  ASSUME SettingsTypes, NEW k \in Containers, Answers(k), UNCHANGED <<heldAt, clock>>,
         cache' \in [Containers -> [from : {"none", "live", "env", "empty"}, at : Nat,
                                    val : [St!Fields -> {0, 1}]]],
         failedAt' \in [Containers -> Int]
  PROVE  answer' \in [Containers -> [from : {"none", "live", "env", "empty"}, stale : BOOLEAN,
                                     age : Int, since : Int]]
<1>1. PICK f \in St!Fields :
        answer' = [answer EXCEPT ![k] =
          [from |-> cache'[k].from, stale |-> cache'[k].val[f] # Shown(f),
           age |-> clock - heldAt[f][cache'[k].val[f]], since |-> clock - failedAt'[k]]]
  BY DEF Answers
<1>2. cache'[k].val[f] \in {0, 1} /\ clock \in Nat /\ heldAt[f][cache'[k].val[f]] \in Int
      /\ failedAt'[k] \in Int /\ cache'[k].from \in {"none", "live", "env", "empty"}
  BY DEF SettingsTypes
<1> QED BY <1>1, <1>2 DEF SettingsTypes

LEMMA StFromCache ==
  ASSUME SettingsAssumption, SettingsInv, NEW k \in Containers, St!FromCache(k)
  PROVE  SettingsInv'
<1> USE DEF St!row, St!admin
<1>1. UNCHANGED <<stored, heldAt, template, save, toldSettings, saveOverlap, client, cache, failedAt, clock>>
  BY DEF St!FromCache
<1>2. clock - cache[k].at <= Ttl
  BY DEF St!FromCache, St!Fresh, St!Age, SettingsInv, SettingsTypes, SettingsAssumption
<1>3. Answers(k)
  <2>1. PICK f \in St!Asked : St!Answer(k, f, cache[k])
    BY DEF St!FromCache
  <2>2. f \in St!Fields
    BY DEF SettingsInv, SettingsTypes, St!Clients, St!Asked, St!Fields, St!Saved
  <2>3. St!settings_public(stored)[f] = Shown(f)
    BY <2>2, StShown DEF SettingsInv
  <2> QED BY <1>1, <2>1, <2>2, <2>3 DEF Answers, St!Answer
<1>4. SettingsTypes'
  BY <1>1, <1>3, StAnswerTypes DEF SettingsInv, SettingsTypes
<1>5. CacheWasTrue' /\ FallbackIsDated'
  BY <1>1 DEF SettingsInv, CacheWasTrue, FallbackIsDated, Shown
<1> QED BY <1>1, <1>2, <1>3, <1>4, <1>5, StAnswer, StSavesRest DEF SettingsInv, SavesRest
LEMMA StFetched ==
  ASSUME SettingsAssumption, SettingsInv, NEW k \in Containers, St!Fetched(k)
  PROVE  SettingsInv'
<1> USE DEF St!row, St!admin
<1> DEFINE e == [from |-> "live", at |-> clock, val |-> St!settings_public(stored)]
<1>1. /\ UNCHANGED <<stored, heldAt, template, save, toldSettings, saveOverlap, client, failedAt, clock>>
      /\ cache' = [cache EXCEPT ![k] = e]
  BY DEF St!Fetched
<1>2. /\ e \in [from : {"none", "live", "env", "empty"}, at : Nat, val : [St!Fields -> {0, 1}]]
      /\ e.from = "live" /\ e.at = clock /\ \A f \in St!Fields : e.val[f] = Shown(f)
  BY StShown DEF SettingsInv, SettingsTypes
<1> HIDE DEF e
<1>3. cache' \in [Containers -> [from : {"none", "live", "env", "empty"}, at : Nat,
                                 val : [St!Fields -> {0, 1}]]]
      /\ cache'[k] = e /\ \A o \in Containers : o # k => cache'[o] = cache[o]
  BY <1>1, <1>2 DEF SettingsInv, SettingsTypes
<1>4. Answers(k)
  <2>1. PICK f \in St!Asked : St!Answer(k, f, cache'[k])
    BY DEF St!Fetched
  <2>2. f \in St!Fields
    BY DEF SettingsInv, SettingsTypes, St!Clients, St!Asked, St!Fields, St!Saved
  <2>3. St!settings_public(stored)[f] = Shown(f)
    BY <2>2, StShown DEF SettingsInv
  <2> QED BY <1>1, <2>1, <2>2, <2>3 DEF Answers, St!Answer
<1>5. SettingsTypes'
  BY <1>1, <1>3, <1>4, StAnswerTypes DEF SettingsInv, SettingsTypes
<1>6. CacheWasTrue' /\ FallbackIsDated'
  <2>1. \A f \in St!Fields : Shown(f)' = Shown(f)
    BY <1>1 DEF Shown
  <2>2. clock \in Nat
    BY DEF SettingsInv, SettingsTypes
  <2>3. CacheWasTrue'
    BY <1>1, <1>2, <1>3, <2>1, <2>2 DEF SettingsInv, CacheWasTrue
  <2>4. FallbackIsDated'
    BY <1>1, <1>2, <1>3 DEF SettingsInv, FallbackIsDated
  <2> QED BY <2>3, <2>4
<1>7. clock - cache'[k].at <= Ttl
  BY <1>2, <1>3 DEF SettingsInv, SettingsTypes, SettingsAssumption
<1> QED BY <1>1, <1>4, <1>5, <1>6, <1>7, StAnswer, StSavesRest DEF SettingsInv, SavesRest

LEMMA StEmpty ==
  LET e == [St!NoAnswer EXCEPT !.from = "empty"]
  IN  /\ e \in [from : {"none", "live", "env", "empty"}, stale : BOOLEAN, age : Int, since : Int]
      /\ e.from = "empty" /\ e.since = 0
<1>1. St!NoAnswer \in [from : {"none", "live", "env", "empty"}, stale : BOOLEAN, age : Int, since : Int]
      /\ St!NoAnswer.since = 0
  BY DEF St!NoAnswer
<1> QED BY <1>1

LEMMA StFetchFails ==
  ASSUME SettingsAssumption, SettingsInv, NEW k \in Containers, St!FetchFails(k)
  PROVE  SettingsInv'
<1> USE DEF St!row, St!admin
<1>1. /\ UNCHANGED <<stored, heldAt, template, save, toldSettings, saveOverlap, client, clock>>
      /\ cache' = [cache EXCEPT ![k] = St!Failed(k)]
      /\ failedAt' = [failedAt EXCEPT ![k] = clock]
  BY DEF St!FetchFails
<1>2. client \in {"identity", "teams", "points"} /\ clock \in Nat /\ cache[k].at <= clock
  BY DEF SettingsInv, SettingsTypes, St!Clients, CacheWasTrue
<1>3. failedAt' \in [Containers -> Int] /\ failedAt'[k] = clock
      /\ \A o \in Containers : o # k => failedAt'[o] = failedAt[o]
  BY <1>1, <1>2 DEF SettingsInv, SettingsTypes
<1>4. CASE client = "points"
  <2>1. St!Failed(k) = cache[k]
    BY <1>4 DEF St!Failed
  <2>2. cache' = cache
    BY <1>1, <2>1 DEF SettingsInv, SettingsTypes
  <2>3. answer' = [answer EXCEPT ![k] = [St!NoAnswer EXCEPT !.from = "empty"]]
    BY <1>4 DEF St!FetchFails
  <2>4. PICK e \in [from : {"none", "live", "env", "empty"}, stale : BOOLEAN, age : Int, since : Int] :
          e.from = "empty" /\ e.since = 0 /\ answer' = [answer EXCEPT ![k] = e]
    BY <2>3, StEmpty
  <2>5. SettingsTypes'
    <3>1. answer' \in [Containers -> [from : {"none", "live", "env", "empty"}, stale : BOOLEAN,
                                      age : Int, since : Int]]
      BY <2>4 DEF SettingsInv, SettingsTypes
    <3> QED BY <1>1, <1>3, <2>2, <3>1 DEF SettingsInv, SettingsTypes
  <2>6. CacheWasTrue'
    BY <1>1, <2>2 DEF SettingsInv, CacheWasTrue, Shown
  <2>7. FallbackIsDated'
    BY <1>1, <1>3, <1>4, <2>2 DEF SettingsInv, FallbackIsDated
  <2>8. St!AnswersAreRecent' /\ St!FallbackIsBrief'
    BY <2>4 DEF SettingsInv, SettingsTypes, SettingsAssumption, St!AnswersAreRecent,
       St!FallbackIsBrief
  <2> QED BY <1>1, <2>5, <2>6, <2>7, <2>8, StSavesRest DEF SettingsInv, SavesRest
<1>5. CASE client # "points"
  <2> DEFINE e == St!Failed(k)
  <2>1. e = [from |-> "env", at |-> clock, val |-> EnvDefault]
        \/ e = [from |-> "empty", at |-> clock, val |-> [Default EXCEPT !["teams"] = 0]]
    BY <1>2, <1>5 DEF St!Failed
  <2>2. [Default EXCEPT !["teams"] = 0] \in [St!Fields -> {0, 1}]
    BY DEF SettingsAssumption
  <2>3. /\ e \in [from : {"none", "live", "env", "empty"}, at : Nat, val : [St!Fields -> {0, 1}]]
        /\ e.from \in {"env", "empty"} /\ e.at = clock
    BY <1>2, <2>1, <2>2 DEF SettingsAssumption
  <2> HIDE DEF e
  <2>4. cache' \in [Containers -> [from : {"none", "live", "env", "empty"}, at : Nat,
                                   val : [St!Fields -> {0, 1}]]]
        /\ cache'[k] = e /\ \A o \in Containers : o # k => cache'[o] = cache[o]
    BY <1>1, <2>3 DEF SettingsInv, SettingsTypes, e
  <2>5. Answers(k)
    <3>1. PICK f \in St!Asked : St!Answer(k, f, cache'[k])
      BY <1>5 DEF St!FetchFails
    <3>2. f \in St!Fields
      BY DEF SettingsInv, SettingsTypes, St!Clients, St!Asked, St!Fields, St!Saved
    <3>3. St!settings_public(stored)[f] = Shown(f)
      BY <3>2, StShown DEF SettingsInv
    <3> QED BY <1>1, <3>1, <3>2, <3>3 DEF Answers, St!Answer
  <2>6. SettingsTypes'
    BY <1>1, <1>3, <2>4, <2>5, StAnswerTypes DEF SettingsInv, SettingsTypes
  <2>7. \A f \in St!Fields : Shown(f)' = Shown(f)
    BY <1>1 DEF Shown
  <2>8. CacheWasTrue'
    BY <1>1, <1>2, <2>3, <2>4, <2>7 DEF SettingsInv, CacheWasTrue
  <2>9. FallbackIsDated'
    BY <1>1, <1>3, <1>5, <2>3, <2>4 DEF SettingsInv, FallbackIsDated
  <2>10. clock - cache'[k].at <= Ttl
    BY <1>2, <2>3, <2>4 DEF SettingsAssumption
  <2> QED BY <1>1, <2>5, <2>6, <2>8, <2>9, <2>10, StAnswer, StSavesRest DEF SettingsInv, SavesRest
<1> QED BY <1>4, <1>5

LEMMA StTick ==
  ASSUME SettingsInv, St!Tick
  PROVE  SettingsInv'
<1> USE DEF St!row, St!admin, St!clients
<1>1. clock' = clock + 1 /\ clock \in Nat
      /\ UNCHANGED <<stored, heldAt, template, save, toldSettings, saveOverlap, client, cache, answer, failedAt>>
  BY DEF St!Tick, SettingsInv, SettingsTypes
<1>2. SettingsTypes'
  BY <1>1 DEF SettingsInv, SettingsTypes
<1>3. \A k \in Containers : cache[k].at \in Nat
  BY DEF SettingsInv, SettingsTypes
<1>4. CacheWasTrue'
  BY <1>1, <1>3 DEF SettingsInv, CacheWasTrue, Shown
<1>5. FallbackIsDated' /\ St!AnswersAreRecent' /\ St!FallbackIsBrief'
  BY <1>1 DEF SettingsInv, FallbackIsDated, St!AnswersAreRecent, St!FallbackIsBrief
<1> QED BY <1>1, <1>2, <1>4, <1>5, StSavesRest DEF SettingsInv, SavesRest

LEMMA StPreserved ==
  ASSUME SettingsAssumption, SettingsInv, [St!Next]_(St!vars)
  PROVE  SettingsInv'
<1>1. CASE UNCHANGED St!vars
  BY <1>1 DEF St!vars, St!row, St!admin, St!clients, SettingsInv, SettingsTypes, SavesAreWhole,
     CacheWasTrue, FallbackIsDated, OneSaveTells, Telling, Shown, St!AnswersAreRecent,
     St!FallbackIsBrief
<1>2. CASE St!Next
  BY <1>2, StUpdateReads, StUpdatePuts, StTells, StTemplateReads, StTemplatePuts, StFromCache,
     StFetched, StFetchFails, StEditPoints, StTick DEF St!Next
<1> QED BY <1>1, <1>2

LEMMA StImplied == ASSUME SettingsAssumption, SettingsInv PROVE St!SettingsHold
<1>1. \A f \in Told : St!settings_public(stored)[f] = Shown(f)
  BY StShown DEF SettingsInv, Told, St!Fields, St!Saved
<1>2. St!ToldIsStored
  <2> SUFFICES ASSUME St!Saving = {}, ~saveOverlap PROVE \A f \in Told : toldSettings[f] = Shown(f)
    BY <1>1 DEF St!ToldIsStored, St!Saved, Told
  <2>1. \A a \in Admins : save[a] = St!NoSave
    BY DEF St!Saving
  <2> QED BY <2>1 DEF SettingsInv, OneSaveTells, Telling, St!NoSave
<1>3. St!TypeOK
  BY DEF SettingsInv, SettingsTypes, SavesAreWhole, CacheWasTrue, St!TypeOK
<1> QED BY <1>2, <1>3 DEF SettingsInv, St!SettingsHold

\* No service goes by a setting older than its cache may be, a failed read is made good once
\* the cache expires, and what was announced last is what is stored, for any administrators,
\* containers, templates and lifetime of a cache (update_settings, the clients' get).
THEOREM SettingsAlwaysHold ==
  SettingsAssumption => (St!Spec => [](St!SettingsHold /\ SettingsHold))
<1> SUFFICES ASSUME SettingsAssumption PROVE St!Spec => [](St!SettingsHold /\ SettingsHold)
  OBVIOUS
<1>1. St!Init => SettingsInv
  BY StInitially
<1>2. SettingsInv /\ [St!Next]_(St!vars) => SettingsInv'
  BY StPreserved
<1>3. SettingsInv => St!SettingsHold /\ SettingsHold
  BY StImplied DEF SettingsHold
<1> QED BY <1>1, <1>2, <1>3, PTL DEF St!Spec

-----------------------------------------------------------------------------
(* Ideas.  There may be any number of them; the sweep takes what it finds in some order. *)
IdeasAssumption == IsFiniteSet(IdeaIds) /\ IsFiniteSet(IdeaCallers)

\* What a request has still to do: one step of a vote, one of a decision, or a sweep's list.
VoteOps == [do : {"vote", "unvote", "count", "sort"}, idea : IdeaIds, user : Id!People, by : Int]
StatusOps == [do : {"status"}, idea : IdeaIds, to : {"Greenlit"}]
DeclineOps == [do : {"delete"}, idea : IdeaIds]
ArchiveOps == [do : {"archive"}, idea : IdeaIds, to : {"Archived"}]
IdeaRows == [status : {"none", "partial", "Open", "Greenlit", "Archived"},
             group : Id!Groups, count : Int, key : Nat, old : BOOLEAN]

IdeaCallTypes(s) ==
  \/ s = <<>>
  \/ \E op \in VoteOps : s = <<op>>
  \/ \E op \in StatusOps : s = <<op>>
  \/ \E op \in DeclineOps : s = <<op>>
  \/ s \in Seq(ArchiveOps)

IdeasTypes ==
  /\ ideas \in [IdeaIds -> IdeaRows]
  /\ votes \subseteq IdeaIds \X Id!People /\ IsFiniteSet(votes)
  /\ DOMAIN ideaCall = IdeaCallers /\ \A c \in IdeaCallers : IdeaCallTypes(ideaCall[c])
  /\ declined \subseteq IdeaIds
  /\ ideaOverlap \in BOOLEAN /\ ideaRaced \in BOOLEAN /\ ideaTwice \in BOOLEAN
  /\ ideaDeaths \in Nat

Top(c) == Head(ideaCall[c])
Votes(c) == Id!Does(c, "vote") \/ Id!Does(c, "unvote") \/ Id!Does(c, "count") \/ Id!Does(c, "sort")
Decides(c) == Id!Does(c, "status") \/ Id!Does(c, "delete") \/ Id!Does(c, "archive")

\* Until a decision meets another request, a request that decides is alone.
DecidesAlone ==
  ~ideaRaced => \A c, d \in IdeaCallers : Decides(c) /\ ~Id!Idle(d) => c = d

\* Until a user clicks twice, two requests are votes of two users or on two ideas.
VotesApart ==
  ~ideaTwice => \A c, d \in IdeaCallers :
    Votes(c) /\ Votes(d) /\ Top(c).idea = Top(d).idea /\ Top(c).user = Top(d).user => c = d

\* The requests that have changed i's vote rows and will add n to its count.
Counting(i, n) == {c \in IdeaCallers : Id!Does(c, "count") /\ Top(c).idea = i /\ Top(c).by = n}

VotesOn(i) == {v \in votes : v[1] = i}

\* The count of an idea is behind its vote rows by what is still to be counted.
VotesAreCounted ==
  ~ideaRaced /\ ~ideaTwice /\ ideaDeaths = 0 =>
    /\ \A i \in IdeaIds : ideas[i].count + Cardinality(Counting(i, 1)) - Cardinality(Counting(i, -1))
                            = Cardinality(VotesOn(i))
    /\ \A c \in IdeaCallers : Id!Does(c, "unvote") => <<Top(c).idea, Top(c).user>> \in votes
    /\ \A c \in IdeaCallers : Id!Does(c, "count") => Top(c).by \in {1, -1}

\* Requests one after the other: the sort key is that of the count, or about to be.
CountIsSorted ==
  ~ideaOverlap /\ ideaDeaths = 0 =>
    /\ \A c, d \in IdeaCallers : ~Id!Idle(c) /\ ~Id!Idle(d) => c = d
    /\ \A c \in IdeaCallers : Id!Does(c, "sort") => Top(c).by = ideas[Top(c).idea].count
    /\ \A i \in IdeaIds : \/ ideas[i].key = Id!SortCount(ideas[i].count)
                          \/ \E c \in IdeaCallers : Id!Does(c, "sort") /\ Top(c).idea = i

\* Nothing is under way for a declined idea.
DeclinedIsLeft ==
  ~ideaRaced => \A i \in declined :
    /\ ideas[i] = Id!NoIdea
    /\ \A v \in votes : v[1] # i
    /\ \A c \in IdeaCallers : \A k \in DOMAIN ideaCall[c] : ideaCall[c][k].idea # i

\* An id that was never submitted has no votes; who votes may see the idea's group.
VotersSee ==
  /\ \A i \in IdeaIds \ declined : ideas[i].status = "none" =>
       /\ \A v \in votes : v[1] # i
       /\ \A c \in IdeaCallers : Votes(c) => Top(c).idea # i
  /\ \A v \in votes : ideas[v[1]].group \in Id!Scopes(v[2])
  /\ \A c \in IdeaCallers : Votes(c) => ideas[Top(c).idea].group \in Id!Scopes(Top(c).user)

IdeasInv ==
  /\ IdeasTypes /\ DecidesAlone /\ VotesApart /\ VotesAreCounted /\ CountIsSorted
  /\ DeclinedIsLeft /\ VotersSee

LEMMA IdCardinality == \A S : Id!Cardinality(S) = Cardinality(S)
  BY Zenon DEF Id!Cardinality, Cardinality

LEMMA IdHeads ==
  ASSUME IdeasTypes, NEW c \in IdeaCallers, ~Id!Idle(c)
  PROVE  /\ Votes(c) => Top(c) \in VoteOps /\ ideaCall[c] = <<Top(c)>>
         /\ Id!Does(c, "status") => Top(c) \in StatusOps /\ ideaCall[c] = <<Top(c)>>
         /\ Id!Does(c, "delete") => Top(c) \in DeclineOps /\ ideaCall[c] = <<Top(c)>>
         /\ Id!Does(c, "archive") => Top(c) \in ArchiveOps /\ ideaCall[c] \in Seq(ArchiveOps)
         /\ Votes(c) \/ Decides(c)
<1>1. ideaCall[c] # <<>> /\ IdeaCallTypes(ideaCall[c])
  BY DEF IdeasTypes, Id!Idle
<1>2. CASE \E op \in VoteOps : ideaCall[c] = <<op>>
  <2> PICK op \in VoteOps : ideaCall[c] = <<op>>
    BY <1>2
  <2>1. Top(c) = op /\ op.do \in {"vote", "unvote", "count", "sort"}
    BY DEF Top, VoteOps
  <2> QED BY <2>1 DEF Votes, Decides, Id!Does, Top
<1>3. CASE \E op \in StatusOps : ideaCall[c] = <<op>>
  <2> PICK op \in StatusOps : ideaCall[c] = <<op>>
    BY <1>3
  <2>1. Top(c) = op /\ op.do = "status"
    BY DEF Top, StatusOps
  <2> QED BY <2>1, <1>1 DEF Votes, Decides, Id!Does, Top
<1>4. CASE \E op \in DeclineOps : ideaCall[c] = <<op>>
  <2> PICK op \in DeclineOps : ideaCall[c] = <<op>>
    BY <1>4
  <2>1. Top(c) = op /\ op.do = "delete"
    BY DEF Top, DeclineOps
  <2> QED BY <2>1, <1>1 DEF Votes, Decides, Id!Does, Top
<1>5. CASE ideaCall[c] \in Seq(ArchiveOps)
  <2>1. Top(c) \in ArchiveOps
    BY <1>1, <1>5 DEF Top
  <2>2. Top(c).do = "archive"
    BY <2>1 DEF ArchiveOps
  <2> QED BY <1>1, <1>5, <2>1, <2>2 DEF Votes, Decides, Id!Does, Top
<1> QED BY <1>1, <1>2, <1>3, <1>4, <1>5 DEF IdeaCallTypes

LEMMA IdInitially == ASSUME Id!Init PROVE IdeasInv
<1> USE DEF Id!Init
<1>1. \A c \in IdeaCallers : ideaCall[c] = <<>> /\ Id!Idle(c) /\ ~Votes(c) /\ ~Decides(c)
  BY DEF Id!Idle, Votes, Decides, Id!Does
<1>2. IdeasTypes
  <2>1. Id!NoIdea \in IdeaRows
    BY DEF Id!NoIdea, IdeaRows, Id!Groups
  <2>2. ideas \in [IdeaIds -> IdeaRows] /\ DOMAIN ideaCall = IdeaCallers
    BY <2>1
  <2> QED BY <1>1, <2>2, FS_EmptySet DEF IdeasTypes, IdeaCallTypes
<1>3. DecidesAlone /\ VotesApart /\ DeclinedIsLeft
  BY <1>1 DEF DecidesAlone, VotesApart, DeclinedIsLeft
<1>4. VotesAreCounted
  <2>1. \A i \in IdeaIds : Counting(i, 1) = {} /\ Counting(i, -1) = {}
    BY <1>1 DEF Counting, Votes
  <2>2. \A i \in IdeaIds : ideas[i].count = 0 /\ VotesOn(i) = {}
    BY DEF Id!NoIdea, VotesOn
  <2>3. Cardinality({}) = 0
    BY FS_EmptySet
  <2>4. \A c \in IdeaCallers : ~Id!Does(c, "unvote") /\ ~Id!Does(c, "count")
    BY <1>1 DEF Votes
  <2>5. \A i \in IdeaIds : ideas[i].count + Cardinality(Counting(i, 1)) - Cardinality(Counting(i, -1))
                            = Cardinality(VotesOn(i))
    <3> SUFFICES ASSUME NEW i \in IdeaIds PROVE ideas[i].count + Cardinality(Counting(i, 1))
                                 - Cardinality(Counting(i, -1)) = Cardinality(VotesOn(i))
      OBVIOUS
    <3>1. Cardinality(Counting(i, 1)) = 0 /\ Cardinality(Counting(i, -1)) = 0
          /\ Cardinality(VotesOn(i)) = 0 /\ ideas[i].count = 0
      BY <2>1, <2>2, <2>3
    <3> QED BY <3>1
  <2> QED BY <2>4, <2>5 DEF VotesAreCounted
<1>5. CountIsSorted
  BY <1>1 DEF CountIsSorted, Votes, Id!NoIdea, Id!SortCount
<1>6. VotersSee
  BY <1>1 DEF VotersSee
<1> QED BY <1>2, <1>3, <1>4, <1>5, <1>6 DEF IdeasInv
-----------------------------------------------------------------------------
\* The request c goes from one step of a vote to the next.
GoesOn(c, op) ==
  /\ op \in VoteOps /\ op.idea = Top(c).idea /\ op.user = Top(c).user
  /\ ideaCall' = [ideaCall EXCEPT ![c] = <<op>>]
  /\ UNCHANGED <<declined, ideaOverlap, ideaRaced, ideaTwice, ideaRequests, ideaDeaths>>

LEMMA IdGoesOn ==
  ASSUME IdeasInv, NEW c \in IdeaCallers, Votes(c), NEW op, GoesOn(c, op)
  PROVE  /\ DOMAIN ideaCall' = IdeaCallers /\ \A d \in IdeaCallers : IdeaCallTypes(ideaCall[d])'
         /\ DecidesAlone' /\ VotesApart'
         /\ Top(c)' = op /\ ideaCall'[c] = <<op>> /\ Votes(c)'
         /\ (Id!Does(c, "vote")' <=> op.do = "vote") /\ (Id!Does(c, "unvote")' <=> op.do = "unvote")
         /\ (Id!Does(c, "count")' <=> op.do = "count") /\ (Id!Does(c, "sort")' <=> op.do = "sort")
         /\ Top(c) \in VoteOps /\ ideaCall[c] = <<Top(c)>>
         /\ \A d \in IdeaCallers \ {c} : ideaCall'[d] = ideaCall[d]
<1>1. /\ ~Id!Idle(c) /\ Top(c) \in VoteOps /\ ideaCall[c] = <<Top(c)>>
  BY IdHeads DEF IdeasInv, Votes, Id!Does, Id!Idle
<1>2. /\ DOMAIN ideaCall' = IdeaCallers /\ ideaCall'[c] = <<op>>
      /\ \A d \in IdeaCallers \ {c} : ideaCall'[d] = ideaCall[d]
  BY DEF GoesOn, IdeasInv, IdeasTypes
<1>3. Top(c)' = op /\ op.do \in {"vote", "unvote", "count", "sort"}
  BY <1>2 DEF Top, GoesOn, VoteOps
<1>4. /\ (Id!Does(c, "vote")' <=> op.do = "vote") /\ (Id!Does(c, "unvote")' <=> op.do = "unvote")
      /\ (Id!Does(c, "count")' <=> op.do = "count") /\ (Id!Does(c, "sort")' <=> op.do = "sort")
      /\ ~Decides(c)' /\ ~Id!Idle(c)'
  BY <1>2, <1>3 DEF Top, Id!Does, Decides, Id!Idle
<1>5. \A d \in IdeaCallers : IdeaCallTypes(ideaCall[d])'
  <2> SUFFICES ASSUME NEW d \in IdeaCallers PROVE IdeaCallTypes(ideaCall'[d])
    OBVIOUS
  <2>1. d # c => ideaCall'[d] = ideaCall[d] /\ IdeaCallTypes(ideaCall[d])
    BY <1>2 DEF IdeasInv, IdeasTypes
  <2>2. IdeaCallTypes(<<op>>)
    BY DEF GoesOn, IdeaCallTypes
  <2> QED BY <2>1, <2>2, <1>2
<1>6. \A d \in IdeaCallers \ {c} : /\ Top(d)' = Top(d) /\ (Id!Idle(d)' <=> Id!Idle(d))
                                   /\ (Votes(d)' <=> Votes(d)) /\ (Decides(d)' <=> Decides(d))
  BY <1>2 DEF Top, Id!Idle, Votes, Decides, Id!Does
<1>7. DecidesAlone'
  BY <1>1, <1>4, <1>6 DEF DecidesAlone, IdeasInv, GoesOn
<1>8. VotesApart'
  BY <1>3, <1>6 DEF VotesApart, IdeasInv, GoesOn
<1> QED BY <1>1, <1>2, <1>3, <1>4, <1>5, <1>7, <1>8 DEF Votes

\* A step of a vote is about an idea that is not declined, and which its user may see.
LEMMA IdVoteStep ==
  ASSUME IdeasInv, NEW c \in IdeaCallers, Votes(c), NEW op, GoesOn(c, op), IdeasTypes',
         NEW i, NEW u, i = Top(c).idea, u = Top(c).user,
         votes' \subseteq votes \cup {<<i, u>>},
         \A j \in IdeaIds : /\ j # i => ideas'[j] = ideas[j]
                            /\ ideas'[j].group = ideas[j].group
                            /\ ideas'[j].status = "none" => ideas[j].status = "none"
  PROVE  DeclinedIsLeft' /\ VotersSee'
<1>1. /\ Top(c)' = op /\ ideaCall'[c] = <<op>> /\ ideaCall[c] = <<Top(c)>> /\ Votes(c)'
      /\ \A d \in IdeaCallers \ {c} : ideaCall'[d] = ideaCall[d]
  BY IdGoesOn
<1>2. op.idea = i /\ op.user = u /\ UNCHANGED <<declined, ideaRaced>> /\ i \in IdeaIds
      /\ op \in VoteOps
  BY DEF GoesOn, VoteOps
<1>3. \A d \in IdeaCallers \ {c} : Top(d)' = Top(d) /\ (Votes(d)' <=> Votes(d))
  BY <1>1 DEF Top, Votes, Id!Does
<1>4. DeclinedIsLeft'
  <2> SUFFICES ASSUME ~ideaRaced, NEW j \in declined
               PROVE  /\ ideas'[j] = Id!NoIdea
                      /\ \A v \in votes' : v[1] # j
                      /\ \A d \in IdeaCallers : \A k \in DOMAIN ideaCall'[d] : ideaCall'[d][k].idea # j
    BY <1>2 DEF DeclinedIsLeft
  <2>1. /\ ideas[j] = Id!NoIdea /\ j \in IdeaIds
        /\ \A v \in votes : v[1] # j
        /\ \A d \in IdeaCallers : \A k \in DOMAIN ideaCall[d] : ideaCall[d][k].idea # j
    BY DEF DeclinedIsLeft, IdeasInv, IdeasTypes
  <2>2. i # j
    <3>1. 1 \in DOMAIN ideaCall[c] /\ ideaCall[c][1] = Top(c)
      BY <1>1
    <3> QED BY <2>1, <3>1
  <2>3. ASSUME NEW d \in IdeaCallers, NEW k \in DOMAIN ideaCall'[d]
        PROVE  ideaCall'[d][k].idea # j
    <3>1. CASE d = c
      <4>1. k = 1 /\ ideaCall'[d][k] = op
        BY <3>1, <2>3, <1>1
      <4> QED BY <4>1, <2>2, <1>2
    <3>2. CASE d # c
      BY <3>2, <2>1, <2>3, <1>1
    <3> QED BY <3>1, <3>2
  <2>4. \A v \in votes' : v[1] # j
    BY <2>1, <2>2
  <2>5. ideas'[j] = ideas[j]
    BY <2>1, <2>2
  <2> QED BY <2>1, <2>3, <2>4, <2>5
<1>5. \A v \in votes' : (ideas[v[1]].group \in Id!Scopes(v[2]))'
  <2> SUFFICES ASSUME NEW v \in votes' PROVE ideas'[v[1]].group \in Id!Scopes(v[2])
    BY DEF Id!Scopes
  <2>1. v[1] \in IdeaIds
    BY DEF IdeasTypes
  <2>2. CASE v \in votes
    BY <2>1, <2>2 DEF IdeasInv, VotersSee
  <2>3. CASE v = <<i, u>>
    BY <1>2, <2>3 DEF IdeasInv, VotersSee
  <2> QED BY <2>2, <2>3
<1>6. \A d \in IdeaCallers : (Votes(d) => ideas[Top(d).idea].group \in Id!Scopes(Top(d).user))'
  <2> SUFFICES ASSUME NEW d \in IdeaCallers, Votes(d)'
               PROVE  ideas'[Top(d)'.idea].group \in Id!Scopes(Top(d)'.user)
    BY DEF Id!Scopes
  <2>1. Votes(d) /\ Top(d)'.idea = Top(d).idea /\ Top(d)'.user = Top(d).user
    BY <1>1, <1>2, <1>3
  <2>2. Top(d).idea \in IdeaIds
    BY <2>1, IdHeads DEF Votes, Id!Does, Id!Idle, VoteOps, IdeasInv
  <2> QED BY <2>1, <2>2 DEF IdeasInv, VotersSee
<1>7. ASSUME NEW j \in IdeaIds \ declined', ideas'[j].status = "none"
      PROVE  /\ \A v \in votes' : v[1] # j
             /\ \A d \in IdeaCallers : Votes(d)' => Top(d)'.idea # j
  <2>1. /\ \A v \in votes : v[1] # j
        /\ \A d \in IdeaCallers : Votes(d) => Top(d).idea # j
    BY <1>2, <1>7 DEF IdeasInv, VotersSee
  <2> QED BY <1>1, <1>2, <1>3, <2>1
<1>8. VotersSee'
  BY <1>5, <1>6, <1>7 DEF VotersSee
<1> QED BY <1>4, <1>8

\* Before the count, what the backlog is sorted by is not touched.
LEMMA IdSortLater ==
  ASSUME IdeasInv, NEW c \in IdeaCallers, Votes(c), ~Id!Does(c, "sort"),
         NEW op, GoesOn(c, op), op.do # "sort", UNCHANGED ideas
  PROVE  CountIsSorted'
<1> SUFFICES ASSUME ~ideaOverlap, ideaDeaths = 0 PROVE CountIsSorted'
  BY DEF CountIsSorted, GoesOn
<1>1. /\ Top(c)' = op /\ Votes(c)' /\ (Id!Does(c, "sort")' <=> op.do = "sort")
      /\ \A d \in IdeaCallers \ {c} : ideaCall'[d] = ideaCall[d]
  BY IdGoesOn
<1>2. \A d \in IdeaCallers : ~Id!Idle(d) => d = c
  BY DEF CountIsSorted, IdeasInv, Votes, Id!Does, Id!Idle
<1>3. \A d \in IdeaCallers : ~Id!Idle(d)' => d = c
  BY <1>1, <1>2 DEF Id!Idle
<1>4. \A d \in IdeaCallers : ~Id!Does(d, "sort") /\ ~Id!Does(d, "sort")'
  BY <1>1, <1>2, <1>3 DEF Id!Does, Id!Idle
<1>5. \A j \in IdeaIds : ideas[j].key = Id!SortCount(ideas[j].count)
  BY <1>4 DEF CountIsSorted, IdeasInv
<1> QED BY <1>3, <1>4, <1>5 DEF CountIsSorted, Id!SortCount

\* What goes on in c's request leaves the rest of the counting as it is.
LEMMA IdCounting ==
  ASSUME IdeasTypes, NEW c \in IdeaCallers, NEW i, NEW n,
         \A d \in IdeaCallers \ {c} : ideaCall'[d] = ideaCall[d],
         DOMAIN ideaCall' = IdeaCallers, IsFiniteSet(IdeaCallers)
  PROVE  /\ IsFiniteSet(Counting(i, n)) /\ IsFiniteSet(Counting(i, n)')
         /\ Cardinality(Counting(i, n)) \in Nat /\ Cardinality(Counting(i, n))' \in Nat
         /\ (c \in Counting(i, n) <=> c \in Counting(i, n)') => Counting(i, n)' = Counting(i, n)
         /\ c \in Counting(i, n)' /\ c \notin Counting(i, n) =>
              Cardinality(Counting(i, n))' = Cardinality(Counting(i, n)) + 1
         /\ c \notin Counting(i, n)' /\ c \in Counting(i, n) =>
              Cardinality(Counting(i, n))' = Cardinality(Counting(i, n)) - 1
<1>1. Counting(i, n) \subseteq IdeaCallers /\ Counting(i, n)' \subseteq IdeaCallers
  BY DEF Counting
<1>2. IsFiniteSet(Counting(i, n)) /\ IsFiniteSet(Counting(i, n)')
  BY <1>1, FS_Subset
<1>3. \A d \in IdeaCallers \ {c} : d \in Counting(i, n) <=> d \in Counting(i, n)'
  BY DEF Counting, Id!Does, Top
<1>4. (c \in Counting(i, n) <=> c \in Counting(i, n)') => Counting(i, n)' = Counting(i, n)
  BY <1>1, <1>3
<1>5. c \in Counting(i, n)' /\ c \notin Counting(i, n) => Counting(i, n)' = Counting(i, n) \cup {c}
  BY <1>1, <1>3
<1>6. c \notin Counting(i, n)' /\ c \in Counting(i, n) => Counting(i, n)' = Counting(i, n) \ {c}
  BY <1>1, <1>3
<1>7. Cardinality(Counting(i, n)) \in Nat /\ Cardinality(Counting(i, n)') \in Nat
  BY <1>2, FS_CardinalityType
<1>8. Cardinality(Counting(i, n))' = Cardinality(Counting(i, n)')
  OBVIOUS
<1> QED BY <1>2, <1>4, <1>5, <1>6, <1>7, <1>8, FS_AddElement, FS_RemoveElement

LEMMA IdVotesOn ==
  ASSUME IdeasTypes, NEW i \in IdeaIds, NEW u \in Id!People
  PROVE  /\ IsFiniteSet(VotesOn(i)) /\ Cardinality(VotesOn(i)) \in Nat
         /\ votes' = votes \cup {<<i, u>>} /\ <<i, u>> \notin votes =>
              /\ Cardinality(VotesOn(i))' = Cardinality(VotesOn(i)) + 1
              /\ \A j \in IdeaIds : j # i => VotesOn(j)' = VotesOn(j)
         /\ votes' = votes \ {<<i, u>>} /\ <<i, u>> \in votes =>
              /\ Cardinality(VotesOn(i))' = Cardinality(VotesOn(i)) - 1
              /\ \A j \in IdeaIds : j # i => VotesOn(j)' = VotesOn(j)
<1>1. IsFiniteSet(votes) /\ VotesOn(i) \subseteq votes
  BY DEF IdeasTypes, VotesOn
<1>2. IsFiniteSet(VotesOn(i)) /\ Cardinality(VotesOn(i)) \in Nat
  BY <1>1, FS_Subset, FS_CardinalityType
<1>3. ASSUME votes' = votes \cup {<<i, u>>}, <<i, u>> \notin votes
      PROVE  /\ VotesOn(i)' = VotesOn(i) \cup {<<i, u>>} /\ <<i, u>> \notin VotesOn(i)
             /\ \A j \in IdeaIds : j # i => VotesOn(j)' = VotesOn(j)
  BY <1>3 DEF VotesOn
<1>4. ASSUME votes' = votes \ {<<i, u>>}, <<i, u>> \in votes
      PROVE  /\ VotesOn(i)' = VotesOn(i) \ {<<i, u>>} /\ <<i, u>> \in VotesOn(i)
             /\ \A j \in IdeaIds : j # i => VotesOn(j)' = VotesOn(j)
  BY <1>4 DEF VotesOn
<1>5. ASSUME votes' = votes \cup {<<i, u>>}, <<i, u>> \notin votes
      PROVE  Cardinality(VotesOn(i))' = Cardinality(VotesOn(i)) + 1
  BY <1>2, <1>3, <1>5, FS_AddElement
<1>6. ASSUME votes' = votes \ {<<i, u>>}, <<i, u>> \in votes
      PROVE  Cardinality(VotesOn(i))' = Cardinality(VotesOn(i)) - 1
  BY <1>2, <1>4, <1>6, FS_RemoveElement
<1> QED BY <1>2, <1>3, <1>4, <1>5, <1>6
-----------------------------------------------------------------------------
\* The next step of a vote is about the same idea and user.
UnvoteOp(op) == [op EXCEPT !.do = "unvote"]
CountOp(op, n) == [op EXCEPT !.do = "count", !.by = n]
SortOp(op, n) == [op EXCEPT !.do = "sort", !.by = n]

LEMMA IdNextOp ==
  ASSUME NEW op \in VoteOps, NEW n \in Int
  PROVE  /\ /\ UnvoteOp(op) \in VoteOps /\ UnvoteOp(op).do = "unvote"
            /\ UnvoteOp(op).idea = op.idea /\ UnvoteOp(op).user = op.user
         /\ /\ CountOp(op, n) \in VoteOps /\ CountOp(op, n).do = "count" /\ CountOp(op, n).by = n
            /\ CountOp(op, n).idea = op.idea /\ CountOp(op, n).user = op.user
         /\ /\ SortOp(op, n) \in VoteOps /\ SortOp(op, n).do = "sort" /\ SortOp(op, n).by = n
            /\ SortOp(op, n).idea = op.idea /\ SortOp(op, n).user = op.user
<1>1. /\ UnvoteOp(op) \in VoteOps /\ UnvoteOp(op).do = "unvote"
      /\ UnvoteOp(op).idea = op.idea /\ UnvoteOp(op).user = op.user
  BY DEF VoteOps, UnvoteOp
<1>2. /\ CountOp(op, n) \in VoteOps /\ CountOp(op, n).do = "count" /\ CountOp(op, n).by = n
      /\ CountOp(op, n).idea = op.idea /\ CountOp(op, n).user = op.user
  BY DEF VoteOps, CountOp
<1>3. /\ SortOp(op, n) \in VoteOps /\ SortOp(op, n).do = "sort" /\ SortOp(op, n).by = n
      /\ SortOp(op, n).idea = op.idea /\ SortOp(op, n).user = op.user
  BY DEF VoteOps, SortOp
<1> QED BY <1>1, <1>2, <1>3

LEMMA IdPutVote ==
  ASSUME IdeasAssumption, IdeasInv, NEW c \in IdeaCallers, Id!PutVote(c)
  PROVE  IdeasInv'
<1>0. Id!Does(c, "vote") /\ Votes(c) /\ ~Id!Idle(c)
  BY DEF Id!PutVote, Votes, Id!Does, Id!Idle
<1> PICK now \in VoteOps : now = Top(c) /\ ideaCall[c] = <<now>>
  BY <1>0, IdHeads DEF IdeasInv
<1> DEFINE i == now.idea
           u == now.user
           op == IF <<i, u>> \in votes THEN UnvoteOp(now) ELSE CountOp(now, 1)
<1>1. Top(c).idea = i /\ Top(c).user = u /\ i \in IdeaIds /\ u \in Id!People
  BY DEF VoteOps
<1>2. op \in VoteOps /\ op.idea = i /\ op.user = u
      /\ \/ op.do = "unvote" /\ <<i, u>> \in votes
         \/ op.do = "count" /\ op.by = 1 /\ <<i, u>> \notin votes
  BY IdNextOp
<1>3. ideaCall' = [ideaCall EXCEPT ![c] = <<op>> \o Tail(@)] /\ UNCHANGED ideas
      /\ UNCHANGED <<declined, ideaOverlap, ideaRaced, ideaTwice, ideaRequests, ideaDeaths>>
      /\ votes' = IF <<i, u>> \in votes THEN votes ELSE votes \cup {<<i, u>>}
  BY DEF Id!PutVote, Id!Continue, Id!ghosts, Top, UnvoteOp, CountOp
<1>4. <<op>> \o Tail(ideaCall[c]) = <<op>>
  BY <1>1
<1>5. GoesOn(c, op)
  BY <1>2, <1>3, <1>4 DEF GoesOn, IdeasInv, IdeasTypes
<1> HIDE DEF op
<1>6. /\ DOMAIN ideaCall' = IdeaCallers /\ \A d \in IdeaCallers : IdeaCallTypes(ideaCall[d])'
      /\ DecidesAlone' /\ VotesApart' /\ Top(c)' = op /\ ideaCall'[c] = <<op>> /\ Votes(c)'
      /\ (Id!Does(c, "unvote")' <=> op.do = "unvote") /\ (Id!Does(c, "count")' <=> op.do = "count")
      /\ (Id!Does(c, "sort")' <=> op.do = "sort") /\ (Id!Does(c, "vote")' <=> op.do = "vote")
      /\ \A d \in IdeaCallers \ {c} : ideaCall'[d] = ideaCall[d]
  BY <1>0, <1>5, IdGoesOn
<1>7. IdeasTypes'
  BY <1>1, <1>3, <1>6, FS_AddElement DEF IdeasInv, IdeasTypes
<1>8. VotesAreCounted'
  <2> SUFFICES ASSUME ~ideaRaced, ~ideaTwice, ideaDeaths = 0
               PROVE  VotesAreCounted'
    BY <1>3 DEF VotesAreCounted
  <2>1. \A d \in IdeaCallers : Id!Does(d, "unvote")' => (<<Top(d).idea, Top(d).user>> \in votes)'
    BY <1>2, <1>3, <1>6 DEF IdeasInv, VotesAreCounted, Id!Does, Top
  <2>2. \A d \in IdeaCallers : Id!Does(d, "count")' => Top(d)'.by \in {1, -1}
    BY <1>2, <1>6 DEF IdeasInv, VotesAreCounted, Id!Does, Top
  <2>3. ~Id!Does(c, "count")
    BY <1>0 DEF Id!Does
  <2>4. ASSUME NEW j \in IdeaIds
        PROVE  (ideas[j].count + Cardinality(Counting(j, 1)) - Cardinality(Counting(j, -1))
                 = Cardinality(VotesOn(j)))'
    <3>1. /\ ideas[j].count + Cardinality(Counting(j, 1)) - Cardinality(Counting(j, -1))
                = Cardinality(VotesOn(j))
          /\ ideas[j].count \in Int
      BY DEF IdeasInv, VotesAreCounted, IdeasTypes, IdeaRows
    <3>2. Counting(j, -1)' = Counting(j, -1)
      <4>1. c \notin Counting(j, -1)' /\ c \notin Counting(j, -1)
        BY <1>2, <1>6, <2>3 DEF Counting
      <4> QED BY <4>1, <1>6, IdCounting DEF IdeasAssumption, IdeasInv
    <3>3. CASE <<i, u>> \notin votes /\ j = i
      <4>1. c \in Counting(j, 1)' /\ c \notin Counting(j, 1)
        BY <1>2, <1>6, <2>3, <3>3 DEF Counting
      <4>2. Cardinality(Counting(j, 1))' = Cardinality(Counting(j, 1)) + 1
            /\ Cardinality(Counting(j, 1)) \in Nat /\ Cardinality(Counting(j, -1)) \in Nat
        BY <4>1, <1>6, IdCounting DEF IdeasAssumption, IdeasInv
      <4>3. Cardinality(VotesOn(j))' = Cardinality(VotesOn(j)) + 1 /\ Cardinality(VotesOn(j)) \in Nat
        BY <1>1, <1>3, <3>3, IdVotesOn DEF IdeasInv
      <4> QED BY <1>3, <3>1, <3>2, <4>2, <4>3
    <3>4. CASE <<i, u>> \in votes \/ j # i
      <4>1. Counting(j, 1)' = Counting(j, 1)
        <5>1. c \notin Counting(j, 1)' /\ c \notin Counting(j, 1)
          BY <1>2, <1>6, <2>3, <3>4 DEF Counting
        <5> QED BY <5>1, <1>6, IdCounting DEF IdeasAssumption, IdeasInv
      <4>2. VotesOn(j)' = VotesOn(j)
        <5>1. CASE <<i, u>> \in votes
          BY <5>1, <1>3 DEF VotesOn
        <5>2. CASE <<i, u>> \notin votes /\ j # i
          BY <5>2, <1>1, <1>3, IdVotesOn DEF IdeasInv
        <5> QED BY <5>1, <5>2, <3>4
      <4> QED BY <1>3, <3>1, <3>2, <4>1, <4>2
    <3> QED BY <3>3, <3>4
  <2> QED BY <2>1, <2>2, <2>4 DEF VotesAreCounted
<1>9. CountIsSorted'
  BY <1>0, <1>2, <1>3, <1>5, IdSortLater DEF Id!Does
<1>10. DeclinedIsLeft' /\ VotersSee'
  BY <1>0, <1>1, <1>3, <1>5, <1>7, IdVoteStep
<1> QED BY <1>6, <1>7, <1>8, <1>9, <1>10 DEF IdeasInv

LEMMA IdDeleteVote ==
  ASSUME IdeasAssumption, IdeasInv, NEW c \in IdeaCallers, Id!DeleteVote(c)
  PROVE  IdeasInv'
<1>0. Id!Does(c, "unvote") /\ Votes(c) /\ ~Id!Idle(c) /\ ~Id!Does(c, "sort") /\ ~Id!Does(c, "count")
  BY DEF Id!DeleteVote, Votes, Id!Does, Id!Idle
<1> PICK now \in VoteOps : now = Top(c) /\ ideaCall[c] = <<now>>
  BY <1>0, IdHeads DEF IdeasInv
<1> DEFINE i == now.idea
           u == now.user
           op == CountOp(now, -1)
<1>1. Top(c).idea = i /\ Top(c).user = u /\ i \in IdeaIds /\ u \in Id!People
  BY DEF VoteOps
<1>2. op \in VoteOps /\ op.idea = i /\ op.user = u /\ op.do = "count" /\ op.by = -1
  BY IdNextOp
<1>3. ideaCall' = [ideaCall EXCEPT ![c] = <<op>> \o Tail(@)] /\ UNCHANGED ideas
      /\ UNCHANGED <<declined, ideaOverlap, ideaRaced, ideaTwice, ideaRequests, ideaDeaths>>
      /\ votes' = votes \ {<<i, u>>}
  BY DEF Id!DeleteVote, Id!Continue, Id!ghosts, Top, CountOp
<1>4. <<op>> \o Tail(ideaCall[c]) = <<op>>
  BY <1>1
<1>5. GoesOn(c, op)
  BY <1>2, <1>3, <1>4 DEF GoesOn, IdeasInv, IdeasTypes
<1> HIDE DEF op
<1>6. /\ DOMAIN ideaCall' = IdeaCallers /\ \A d \in IdeaCallers : IdeaCallTypes(ideaCall[d])'
      /\ DecidesAlone' /\ VotesApart' /\ Top(c)' = op /\ ideaCall'[c] = <<op>> /\ Votes(c)'
      /\ ~Id!Does(c, "unvote")' /\ Id!Does(c, "count")'
      /\ \A d \in IdeaCallers \ {c} : ideaCall'[d] = ideaCall[d]
  BY <1>0, <1>2, <1>5, IdGoesOn
<1>7. IdeasTypes'
  BY <1>1, <1>3, <1>6, FS_RemoveElement DEF IdeasInv, IdeasTypes
<1>8. VotesAreCounted'
  <2> SUFFICES ASSUME ~ideaRaced, ~ideaTwice, ideaDeaths = 0
               PROVE  VotesAreCounted'
    BY <1>3 DEF VotesAreCounted
  <2>0. <<i, u>> \in votes
    BY <1>0, <1>1 DEF IdeasInv, VotesAreCounted
  <2>1. ASSUME NEW d \in IdeaCallers, Id!Does(d, "unvote")'
        PROVE  (<<Top(d).idea, Top(d).user>> \in votes)'
    <3>1. d # c /\ Top(d)' = Top(d) /\ Id!Does(d, "unvote")
      BY <1>6, <2>1 DEF Id!Does, Top
    <3>2. <<Top(d).idea, Top(d).user>> \in votes
      BY <3>1 DEF IdeasInv, VotesAreCounted
    <3>3. <<Top(d).idea, Top(d).user>> # <<i, u>>
      BY <1>0, <1>1, <3>1 DEF IdeasInv, VotesApart, Votes
    <3> QED BY <1>3, <3>1, <3>2, <3>3
  <2>2. \A d \in IdeaCallers : Id!Does(d, "count")' => Top(d)'.by \in {1, -1}
    BY <1>2, <1>6 DEF IdeasInv, VotesAreCounted, Id!Does, Top
  <2>4. ASSUME NEW j \in IdeaIds
        PROVE  (ideas[j].count + Cardinality(Counting(j, 1)) - Cardinality(Counting(j, -1))
                 = Cardinality(VotesOn(j)))'
    <3>1. /\ ideas[j].count + Cardinality(Counting(j, 1)) - Cardinality(Counting(j, -1))
                = Cardinality(VotesOn(j))
          /\ ideas[j].count \in Int
      BY DEF IdeasInv, VotesAreCounted, IdeasTypes, IdeaRows
    <3>2. Counting(j, 1)' = Counting(j, 1)
      <4>1. c \notin Counting(j, 1)' /\ c \notin Counting(j, 1)
        BY <1>0, <1>2, <1>6 DEF Counting
      <4> QED BY <4>1, <1>6, IdCounting DEF IdeasAssumption, IdeasInv
    <3>3. CASE j = i
      <4>1. c \in Counting(j, -1)' /\ c \notin Counting(j, -1)
        BY <1>0, <1>2, <1>6, <3>3 DEF Counting
      <4>2. Cardinality(Counting(j, -1))' = Cardinality(Counting(j, -1)) + 1
            /\ Cardinality(Counting(j, 1)) \in Nat /\ Cardinality(Counting(j, -1)) \in Nat
        BY <4>1, <1>6, IdCounting DEF IdeasAssumption, IdeasInv
      <4>3. Cardinality(VotesOn(j))' = Cardinality(VotesOn(j)) - 1 /\ Cardinality(VotesOn(j)) \in Nat
        BY <1>1, <1>3, <2>0, <3>3, IdVotesOn DEF IdeasInv
      <4> QED BY <1>3, <3>1, <3>2, <4>2, <4>3
    <3>4. CASE j # i
      <4>1. Counting(j, -1)' = Counting(j, -1)
        <5>1. c \notin Counting(j, -1)' /\ c \notin Counting(j, -1)
          BY <1>0, <1>2, <1>6, <3>4 DEF Counting
        <5> QED BY <5>1, <1>6, IdCounting DEF IdeasAssumption, IdeasInv
      <4>2. VotesOn(j)' = VotesOn(j)
        BY <1>1, <1>3, <2>0, <3>4, IdVotesOn DEF IdeasInv
      <4> QED BY <1>3, <3>1, <3>2, <4>1, <4>2
    <3> QED BY <3>3, <3>4
  <2> QED BY <2>1, <2>2, <2>4 DEF VotesAreCounted
<1>9. CountIsSorted'
  BY <1>0, <1>2, <1>3, <1>5, IdSortLater
<1>10. DeclinedIsLeft' /\ VotersSee'
  BY <1>0, <1>1, <1>3, <1>5, <1>7, IdVoteStep
<1> QED BY <1>6, <1>7, <1>8, <1>9, <1>10 DEF IdeasInv

LEMMA IdCountVote ==
  ASSUME IdeasAssumption, IdeasInv, NEW c \in IdeaCallers, Id!CountVote(c)
  PROVE  IdeasInv'
<1>0. Id!Does(c, "count") /\ Votes(c) /\ ~Id!Idle(c) /\ ~Id!Does(c, "sort") /\ ~Id!Does(c, "unvote")
  BY DEF Id!CountVote, Votes, Id!Does, Id!Idle
<1> PICK now \in VoteOps : now = Top(c) /\ ideaCall[c] = <<now>>
  BY <1>0, IdHeads DEF IdeasInv
<1>1. Top(c).idea = now.idea /\ Top(c).user = now.user /\ Top(c).by = now.by
      /\ now.idea \in IdeaIds /\ now.user \in Id!People /\ now.by \in Int
  BY DEF VoteOps
<1> DEFINE i == now.idea
           n == ideas[i].count + now.by
           op == SortOp(now, n)
<1>2. n \in Int /\ ideas[i] \in IdeaRows
  BY <1>1 DEF IdeasInv, IdeasTypes, IdeaRows
<1>3. op \in VoteOps /\ op.idea = i /\ op.user = now.user /\ op.do = "sort" /\ op.by = n
  BY <1>2, IdNextOp
<1>4. ideaCall' = [ideaCall EXCEPT ![c] = <<op>> \o Tail(@)] /\ UNCHANGED votes
      /\ UNCHANGED <<declined, ideaOverlap, ideaRaced, ideaTwice, ideaRequests, ideaDeaths>>
      /\ ideas' = [ideas EXCEPT ![i].count = n, ![i].old = FALSE,
                                ![i].status = IF @ = "none" THEN "partial" ELSE @]
  BY DEF Id!CountVote, Id!Continue, Id!ghosts, Top, SortOp
<1>5. <<op>> \o Tail(ideaCall[c]) = <<op>>
  BY <1>1
<1>6. GoesOn(c, op)
  BY <1>1, <1>3, <1>4, <1>5 DEF GoesOn, IdeasInv, IdeasTypes
<1>7. /\ ideas' \in [IdeaIds -> IdeaRows]
      /\ ideas'[i].count = n /\ ideas'[i].key = ideas[i].key /\ ideas'[i].group = ideas[i].group
      /\ ideas'[i].status # "none"
      /\ \A j \in IdeaIds : j # i => ideas'[j] = ideas[j]
  BY <1>1, <1>2, <1>4 DEF IdeasInv, IdeasTypes, IdeaRows
<1> HIDE DEF op, n
<1>8. /\ DOMAIN ideaCall' = IdeaCallers /\ \A d \in IdeaCallers : IdeaCallTypes(ideaCall[d])'
      /\ DecidesAlone' /\ VotesApart' /\ Top(c)' = op /\ ideaCall'[c] = <<op>> /\ Votes(c)'
      /\ ~Id!Does(c, "unvote")' /\ ~Id!Does(c, "count")' /\ Id!Does(c, "sort")'
      /\ \A d \in IdeaCallers \ {c} : ideaCall'[d] = ideaCall[d]
  BY <1>0, <1>3, <1>6, IdGoesOn
<1>9. IdeasTypes'
  BY <1>4, <1>7, <1>8 DEF IdeasInv, IdeasTypes
<1>10. VotesAreCounted'
  <2> SUFFICES ASSUME ~ideaRaced, ~ideaTwice, ideaDeaths = 0
               PROVE  VotesAreCounted'
    BY <1>4 DEF VotesAreCounted
  <2>1. \A d \in IdeaCallers : Id!Does(d, "unvote")' => (<<Top(d).idea, Top(d).user>> \in votes)'
    BY <1>4, <1>8 DEF IdeasInv, VotesAreCounted, Id!Does, Top
  <2>2. \A d \in IdeaCallers : Id!Does(d, "count")' => Top(d)'.by \in {1, -1}
    BY <1>8 DEF IdeasInv, VotesAreCounted, Id!Does, Top
  <2>3. now.by = 1 \/ now.by = -1
    BY <1>0, <1>1 DEF IdeasInv, VotesAreCounted
  <2>4. ASSUME NEW j \in IdeaIds
        PROVE  (ideas[j].count + Cardinality(Counting(j, 1)) - Cardinality(Counting(j, -1))
                 = Cardinality(VotesOn(j)))'
    <3>1. /\ ideas[j].count + Cardinality(Counting(j, 1)) - Cardinality(Counting(j, -1))
                = Cardinality(VotesOn(j))
          /\ ideas[j].count \in Int /\ VotesOn(j)' = VotesOn(j)
      BY <1>4 DEF IdeasInv, VotesAreCounted, IdeasTypes, IdeaRows, VotesOn
    <3>2. c \notin Counting(j, 1)' /\ c \notin Counting(j, -1)'
      BY <1>8 DEF Counting
    <3>3. CASE j # i
      <4>1. c \notin Counting(j, 1) /\ c \notin Counting(j, -1)
        BY <1>1, <3>3 DEF Counting
      <4>2. Counting(j, 1)' = Counting(j, 1) /\ Counting(j, -1)' = Counting(j, -1)
        BY <3>2, <4>1, <1>8, IdCounting DEF IdeasAssumption, IdeasInv
      <4> QED BY <1>7, <3>1, <3>3, <4>2
    <3>4. CASE j = i
      <4>0. ideas'[j].count = ideas[j].count + now.by /\ now.by \in Int
        BY <1>1, <1>7, <3>4 DEF n
      <4>1. CASE now.by = 1
        <5>1. c \in Counting(j, 1) /\ c \notin Counting(j, -1)
          BY <1>0, <1>1, <3>4, <4>1 DEF Counting
        <5>2. Counting(j, -1)' = Counting(j, -1)
          BY <3>2, <5>1, <1>8, IdCounting DEF IdeasAssumption, IdeasInv
        <5>3. Cardinality(Counting(j, 1))' = Cardinality(Counting(j, 1)) - 1
              /\ Cardinality(Counting(j, 1)) \in Nat /\ Cardinality(Counting(j, -1)) \in Nat
          BY <3>2, <5>1, <1>8, IdCounting DEF IdeasAssumption, IdeasInv
        <5> QED BY <3>1, <4>0, <4>1, <5>2, <5>3
      <4>2. CASE now.by = -1
        <5>1. c \in Counting(j, -1) /\ c \notin Counting(j, 1)
          BY <1>0, <1>1, <3>4, <4>2 DEF Counting
        <5>2. Counting(j, 1)' = Counting(j, 1)
          BY <3>2, <5>1, <1>8, IdCounting DEF IdeasAssumption, IdeasInv
        <5>3. Cardinality(Counting(j, -1))' = Cardinality(Counting(j, -1)) - 1
              /\ Cardinality(Counting(j, 1)) \in Nat /\ Cardinality(Counting(j, -1)) \in Nat
          BY <3>2, <5>1, <1>8, IdCounting DEF IdeasAssumption, IdeasInv
        <5> QED BY <3>1, <4>0, <4>2, <5>2, <5>3
      <4> QED BY <2>3, <4>1, <4>2
    <3> QED BY <3>3, <3>4
  <2> QED BY <2>1, <2>2, <2>4 DEF VotesAreCounted
<1>11. CountIsSorted'
  <2> SUFFICES ASSUME ~ideaOverlap, ideaDeaths = 0 PROVE CountIsSorted'
    BY <1>4 DEF CountIsSorted
  <2>1. \A d \in IdeaCallers : ~Id!Idle(d) => d = c
    BY <1>0 DEF CountIsSorted, IdeasInv
  <2>2. \A d \in IdeaCallers : ~Id!Idle(d)' => d = c
    BY <1>8, <2>1 DEF Id!Idle
  <2>3. \A d \in IdeaCallers : ~Id!Does(d, "sort") /\ (Id!Does(d, "sort")' => d = c)
    BY <1>0, <2>1, <2>2 DEF Id!Does, Id!Idle
  <2>4. \A j \in IdeaIds : ideas[j].key = Id!SortCount(ideas[j].count)
    BY <2>3 DEF CountIsSorted, IdeasInv
  <2>5. (Top(c).by = ideas[Top(c).idea].count)'
    BY <1>3, <1>7, <1>8
  <2>6. \A j \in IdeaIds : \/ ideas'[j].key = Id!SortCount(ideas'[j].count)
                           \/ Id!Does(c, "sort")' /\ Top(c)'.idea = j
    BY <1>3, <1>7, <1>8, <2>4
  <2> QED BY <2>2, <2>3, <2>5, <2>6 DEF CountIsSorted, Id!SortCount
<1>12. \A j \in IdeaIds : /\ j # i => ideas'[j] = ideas[j]
                          /\ ideas'[j].group = ideas[j].group
                          /\ ideas'[j].status = "none" => ideas[j].status = "none"
  BY <1>7
<1>13. DeclinedIsLeft' /\ VotersSee'
  BY <1>0, <1>1, <1>4, <1>6, <1>9, <1>12, IdVoteStep
<1> QED BY <1>8, <1>9, <1>10, <1>11, <1>13 DEF IdeasInv
-----------------------------------------------------------------------------
\* The request c does one step less: it ends, or goes on with the rest of a sweep's list.
Shortens(c) ==
  /\ ~Id!Idle(c) /\ DOMAIN ideaCall' = IdeaCallers
  /\ ideaCall'[c] = <<>> \/ ideaCall'[c] = Tail(ideaCall[c])
  /\ \A d \in IdeaCallers \ {c} : ideaCall'[d] = ideaCall[d]
  /\ UNCHANGED <<ideaOverlap, ideaRaced, ideaTwice>>

LEMMA IdShortens ==
  ASSUME IdeasInv, NEW c \in IdeaCallers, Shortens(c)
  PROVE  /\ \A d \in IdeaCallers : IdeaCallTypes(ideaCall[d])'
         /\ DecidesAlone' /\ VotesApart'
         /\ ~Votes(c)' /\ (Decides(c)' => Decides(c))
         /\ ~Id!Does(c, "archive") => Id!Idle(c)'
         /\ \A k \in DOMAIN ideaCall'[c] : \E m \in DOMAIN ideaCall[c] : ideaCall'[c][k] = ideaCall[c][m]
<1>1. /\ Votes(c) => ideaCall[c] = <<Top(c)>>
      /\ Id!Does(c, "status") => ideaCall[c] = <<Top(c)>>
      /\ Id!Does(c, "delete") => ideaCall[c] = <<Top(c)>>
      /\ Id!Does(c, "archive") => ideaCall[c] \in Seq(ArchiveOps)
      /\ Votes(c) \/ Decides(c)
  BY IdHeads DEF Shortens, IdeasInv
<1>2. ideaCall[c] # <<>>
  BY DEF Shortens, Id!Idle
<1>3. CASE ideaCall'[c] = <<>>
  <2>1. Id!Idle(c)' /\ ~Votes(c)' /\ ~Decides(c)'
    BY <1>3 DEF Id!Idle, Votes, Decides, Id!Does
  <2> QED BY <1>3, <2>1 DEF Shortens, IdeasInv, IdeasTypes, IdeaCallTypes, DecidesAlone, VotesApart,
             Votes, Decides, Id!Does, Id!Idle, Top
<1>4. CASE ideaCall[c] = <<Top(c)>>
  <2>1. Tail(ideaCall[c]) = <<>>
    BY <1>4
  <2> QED BY <1>3, <2>1 DEF Shortens
<1>5. CASE Id!Does(c, "archive") /\ ideaCall'[c] = Tail(ideaCall[c]) /\ ideaCall'[c] # <<>>
  <2>1. ideaCall[c] \in Seq(ArchiveOps) /\ ideaCall'[c] \in Seq(ArchiveOps)
    BY <1>1, <1>2, <1>5
  <2>2. Top(c)' \in ArchiveOps
    BY <1>5, <2>1 DEF Top
  <2>3. ~Votes(c)' /\ Id!Does(c, "archive")' /\ Decides(c)' /\ Decides(c)
    BY <1>5, <2>2 DEF Votes, Decides, Id!Does, ArchiveOps, Top
  <2>4. \A k \in DOMAIN ideaCall'[c] : ideaCall'[c][k] = ideaCall[c][k + 1] /\ k + 1 \in DOMAIN ideaCall[c]
    BY <1>5, <2>1, <1>2
  <2>5. \A d \in IdeaCallers : IdeaCallTypes(ideaCall'[d])
    BY <2>1 DEF Shortens, IdeasInv, IdeasTypes, IdeaCallTypes
  <2>6. DecidesAlone'
    BY <1>2, <1>5, <2>3 DEF Shortens, IdeasInv, DecidesAlone, Decides, Id!Does, Id!Idle, Top
  <2>7. VotesApart'
    BY <2>3 DEF Shortens, IdeasInv, VotesApart, Votes, Id!Does, Top
  <2> QED BY <1>5, <2>3, <2>4, <2>5, <2>6, <2>7
<1> QED BY <1>1, <1>3, <1>4, <1>5 DEF Shortens, Decides

LEMMA IdLess ==
  ASSUME IdeasAssumption, IdeasInv, NEW c \in IdeaCallers, Shortens(c), IdeasTypes',
         UNCHANGED <<votes, declined>>,
         \A j \in IdeaIds : /\ ideas'[j].count = ideas[j].count /\ ideas'[j].group = ideas[j].group
                            /\ ideas'[j].status = "none" => ideas[j].status = "none"
                            /\ ~ideaRaced /\ j \in declined => ideas'[j] = ideas[j]
  PROVE  /\ DeclinedIsLeft' /\ VotersSee'
         /\ UNCHANGED ideaDeaths /\ ~Id!Does(c, "count") => VotesAreCounted'
<1>1. /\ ~Votes(c)' /\ \A d \in IdeaCallers \ {c} : ideaCall'[d] = ideaCall[d]
      /\ \A k \in DOMAIN ideaCall'[c] : \E m \in DOMAIN ideaCall[c] : ideaCall'[c][k] = ideaCall[c][m]
  BY IdShortens DEF Shortens
<1>2. \A d \in IdeaCallers \ {c} : Top(d)' = Top(d) /\ (Votes(d)' <=> Votes(d))
  BY <1>1 DEF Top, Votes, Id!Does
<1>3. DeclinedIsLeft'
  <2> SUFFICES ASSUME ~ideaRaced, NEW j \in declined
               PROVE  /\ ideas'[j] = Id!NoIdea
                      /\ \A v \in votes' : v[1] # j
                      /\ \A d \in IdeaCallers : \A k \in DOMAIN ideaCall'[d] : ideaCall'[d][k].idea # j
    BY DEF DeclinedIsLeft, Shortens
  <2>1. /\ ideas[j] = Id!NoIdea /\ j \in IdeaIds
        /\ \A v \in votes : v[1] # j
        /\ \A d \in IdeaCallers : \A k \in DOMAIN ideaCall[d] : ideaCall[d][k].idea # j
    BY DEF DeclinedIsLeft, IdeasInv, IdeasTypes
  <2>2. \A k \in DOMAIN ideaCall'[c] : ideaCall'[c][k].idea # j
    BY <1>1, <2>1
  <2> QED BY <1>1, <2>1, <2>2
<1>4. VotersSee'
  <2>1. ASSUME NEW v \in votes' PROVE ideas'[v[1]].group \in Id!Scopes(v[2])
    BY <2>1 DEF IdeasInv, IdeasTypes, VotersSee
  <2>2. ASSUME NEW d \in IdeaCallers, Votes(d)'
        PROVE  ideas'[Top(d)'.idea].group \in Id!Scopes(Top(d)'.user)
    <3>1. Votes(d) /\ Top(d)' = Top(d)
      BY <1>1, <1>2, <2>2
    <3>2. Top(d).idea \in IdeaIds
      BY <3>1, IdHeads DEF Votes, Id!Does, Id!Idle, VoteOps, IdeasInv
    <3> QED BY <3>1, <3>2 DEF IdeasInv, VotersSee
  <2>3. ASSUME NEW j \in IdeaIds \ declined', ideas'[j].status = "none"
        PROVE  /\ \A v \in votes' : v[1] # j
               /\ \A d \in IdeaCallers : Votes(d)' => Top(d)'.idea # j
    BY <1>1, <1>2, <2>3 DEF IdeasInv, VotersSee
  <2> QED BY <2>1, <2>2, <2>3 DEF VotersSee, Id!Scopes
<1>5. ASSUME UNCHANGED ideaDeaths, ~Id!Does(c, "count") PROVE VotesAreCounted'
  <2> SUFFICES ASSUME ~ideaRaced, ~ideaTwice, ideaDeaths = 0 PROVE VotesAreCounted'
    BY <1>5 DEF VotesAreCounted, Shortens
  <2>1. ~Id!Does(c, "count")' /\ ~Id!Does(c, "unvote")'
    BY <1>1 DEF Votes
  <2>2. /\ \A d \in IdeaCallers : Id!Does(d, "unvote")' => (<<Top(d).idea, Top(d).user>> \in votes)'
        /\ \A d \in IdeaCallers : Id!Does(d, "count")' => Top(d)'.by \in {1, -1}
    BY <1>1, <1>2, <2>1 DEF IdeasInv, VotesAreCounted, Id!Does
  <2>3. \A j, n : Counting(j, n)' = Counting(j, n)
    BY <1>1, <1>2, <1>5, <2>1 DEF Counting, Id!Does
  <2>4. \A j : VotesOn(j)' = VotesOn(j)
    BY DEF VotesOn
  <2>5. \A j \in IdeaIds : (ideas[j].count + Cardinality(Counting(j, 1))
                              - Cardinality(Counting(j, -1)) = Cardinality(VotesOn(j)))'
    BY <2>3, <2>4 DEF IdeasInv, VotesAreCounted
  <2> QED BY <2>2, <2>5 DEF VotesAreCounted
<1> QED BY <1>3, <1>4, <1>5

LEMMA IdUpdateSortKey ==
  ASSUME IdeasAssumption, IdeasInv, NEW c \in IdeaCallers, Id!UpdateSortKey(c)
  PROVE  IdeasInv'
<1>0. Id!Does(c, "sort") /\ Votes(c) /\ ~Id!Idle(c) /\ ~Id!Does(c, "count") /\ ~Id!Does(c, "archive")
  BY DEF Id!UpdateSortKey, Votes, Id!Does, Id!Idle
<1> PICK now \in VoteOps : now = Top(c) /\ ideaCall[c] = <<now>>
  BY <1>0, IdHeads DEF IdeasInv
<1>1. now.idea \in IdeaIds /\ now.by \in Int /\ Id!SortCount(now.by) \in Nat
  BY DEF VoteOps, Id!SortCount
<1>2. /\ ideaCall' = [ideaCall EXCEPT ![c] = <<>> \o Tail(@)] /\ UNCHANGED votes
      /\ UNCHANGED <<declined, ideaOverlap, ideaRaced, ideaTwice, ideaRequests, ideaDeaths>>
      /\ ideas' = [ideas EXCEPT ![now.idea].key = Id!SortCount(now.by),
                                ![now.idea].status = IF @ = "none" THEN "partial" ELSE @]
  BY DEF Id!UpdateSortKey, Id!Continue, Id!ghosts, Top
<1>3. <<>> \o Tail(ideaCall[c]) = <<>>
  OBVIOUS
<1>4. Shortens(c)
  BY <1>0, <1>2, <1>3 DEF Shortens, IdeasInv, IdeasTypes
<1>5. /\ ideas' \in [IdeaIds -> IdeaRows]
      /\ ideas'[now.idea].key = Id!SortCount(now.by)
      /\ \A j \in IdeaIds : /\ ideas'[j].count = ideas[j].count /\ ideas'[j].group = ideas[j].group
                            /\ ideas'[j].status = "none" => ideas[j].status = "none"
                            /\ j # now.idea => ideas'[j] = ideas[j]
  <2> DEFINE k == Id!SortCount(now.by)
             new == IF ideas[now.idea].status = "none" THEN "partial" ELSE ideas[now.idea].status
  <2>1. ideas \in [IdeaIds -> IdeaRows] /\ new # "none"
        /\ new \in {"none", "partial", "Open", "Greenlit", "Archived"}
    BY <1>1 DEF IdeasInv, IdeasTypes, IdeaRows
  <2>2. ideas' = [ideas EXCEPT ![now.idea].key = k, ![now.idea].status = new]
    BY <1>1, <1>2
  <2>3. k \in Nat
    BY <1>1
  <2> HIDE DEF new, k
  <2>4. /\ ideas' \in [IdeaIds -> IdeaRows] /\ ideas'[now.idea].key = k
        /\ ideas'[now.idea].status = new
        /\ \A j \in IdeaIds : /\ ideas'[j].count = ideas[j].count /\ ideas'[j].group = ideas[j].group
                              /\ j # now.idea => ideas'[j] = ideas[j]
    BY <1>1, <2>1, <2>2, <2>3 DEF IdeaRows
  <2> QED BY <2>1, <2>4 DEF k
<1>6. /\ \A d \in IdeaCallers : IdeaCallTypes(ideaCall[d])'
      /\ DecidesAlone' /\ VotesApart' /\ Id!Idle(c)'
  BY <1>0, <1>4, IdShortens
<1>7. IdeasTypes'
  BY <1>2, <1>4, <1>5, <1>6 DEF IdeasInv, IdeasTypes, Shortens
<1>8. ASSUME ~ideaRaced PROVE now.idea \notin declined
  <2>1. 1 \in DOMAIN ideaCall[c] /\ ideaCall[c][1] = now
    OBVIOUS
  <2> QED BY <1>8, <2>1 DEF IdeasInv, DeclinedIsLeft
<1>9. DeclinedIsLeft' /\ VotersSee' /\ VotesAreCounted'
  BY <1>0, <1>2, <1>4, <1>5, <1>7, <1>8, IdLess DEF IdeasInv, IdeasTypes
<1>10. CountIsSorted'
  <2> SUFFICES ASSUME ~ideaOverlap, ideaDeaths = 0 PROVE CountIsSorted'
    BY <1>2 DEF CountIsSorted
  <2>1. \A d \in IdeaCallers : ~Id!Idle(d) => d = c
    BY <1>0 DEF CountIsSorted, IdeasInv
  <2>2. \A d \in IdeaCallers : Id!Idle(d)' /\ ~Id!Does(d, "sort")'
    BY <1>4, <1>6, <2>1 DEF Id!Idle, Id!Does, Shortens
  <2>3. now.by = ideas[now.idea].count
    BY <1>0 DEF CountIsSorted, IdeasInv
  <2>4. ASSUME NEW j \in IdeaIds PROVE ideas'[j].key = Id!SortCount(ideas'[j].count)
    <3>1. j # now.idea => ideas[j].key = Id!SortCount(ideas[j].count)
      BY <2>1 DEF CountIsSorted, IdeasInv, Id!Does, Id!Idle
    <3> QED BY <1>5, <2>3, <3>1
  <2> QED BY <2>2, <2>4 DEF CountIsSorted, Id!SortCount
<1> QED BY <1>6, <1>7, <1>9, <1>10 DEF IdeasInv

\* A step that decides leaves the counts and the sort keys.
LEMMA IdDecides ==
  ASSUME IdeasAssumption, IdeasInv, NEW c \in IdeaCallers, Shortens(c),
         Id!Does(c, "status") \/ Id!Does(c, "archive"), NEW i \in IdeaIds,
         ~ideaRaced => i \notin declined,
         UNCHANGED <<votes, declined, ideaDeaths>>, ideas' \in [IdeaIds -> IdeaRows],
         ideas'[i].status = "none" => ideas[i].status = "none",
         ideas'[i].count = ideas[i].count, ideas'[i].key = ideas[i].key,
         ideas'[i].group = ideas[i].group, \A j \in IdeaIds : j # i => ideas'[j] = ideas[j]
  PROVE  IdeasInv'
<1>1. /\ \A d \in IdeaCallers : IdeaCallTypes(ideaCall[d])'
      /\ DecidesAlone' /\ VotesApart' /\ ~Votes(c)'
  BY IdShortens
<1>2. IdeasTypes'
  BY <1>1 DEF IdeasInv, IdeasTypes, Shortens
<1>3. ~Id!Does(c, "count") /\ ~Id!Does(c, "sort")
  BY DEF Id!Does
<1>4. DeclinedIsLeft' /\ VotersSee' /\ VotesAreCounted'
  BY <1>2, <1>3, IdLess
<1>5. CountIsSorted'
  <2> SUFFICES ASSUME ~ideaOverlap, ideaDeaths = 0 PROVE CountIsSorted'
    BY DEF CountIsSorted, Shortens
  <2>1. \A d \in IdeaCallers : ~Id!Idle(d) => d = c
    BY DEF CountIsSorted, IdeasInv, Id!Does, Id!Idle
  <2>2. \A d \in IdeaCallers : (~Id!Idle(d)' => d = c) /\ ~Id!Does(d, "sort")' /\ ~Id!Does(d, "sort")
    BY <1>1, <1>3, <2>1 DEF Id!Idle, Id!Does, Shortens, Votes
  <2>3. ASSUME NEW j \in IdeaIds PROVE ideas'[j].key = Id!SortCount(ideas'[j].count)
    <3>1. ideas[j].key = Id!SortCount(ideas[j].count)
      BY <2>2 DEF CountIsSorted, IdeasInv
    <3> QED BY <3>1
  <2> QED BY <2>2, <2>3 DEF CountIsSorted, Id!SortCount
<1> QED BY <1>1, <1>2, <1>4, <1>5 DEF IdeasInv

LEMMA IdSetStatus ==
  ASSUME IdeasAssumption, IdeasInv, NEW c \in IdeaCallers, Id!SetStatus(c)
  PROVE  IdeasInv'
<1>0. Id!Does(c, "status") /\ ~Id!Idle(c)
  BY DEF Id!SetStatus, Id!Does, Id!Idle
<1> PICK now \in StatusOps : now = Top(c) /\ ideaCall[c] = <<now>>
  BY <1>0, IdHeads DEF IdeasInv
<1>1. now.idea \in IdeaIds /\ now.to = "Greenlit"
  BY DEF StatusOps
<1>2. /\ ideaCall' = [ideaCall EXCEPT ![c] = <<>> \o Tail(@)] /\ UNCHANGED votes
      /\ UNCHANGED <<declined, ideaOverlap, ideaRaced, ideaTwice, ideaRequests, ideaDeaths>>
      /\ ideas' = [ideas EXCEPT ![now.idea].status = IF @ = "none" THEN @ ELSE now.to]
  BY DEF Id!SetStatus, Id!Continue, Id!ghosts, Top
<1>3. <<>> \o Tail(ideaCall[c]) = <<>>
  OBVIOUS
<1>4. Shortens(c)
  BY <1>0, <1>2, <1>3 DEF Shortens, IdeasInv, IdeasTypes
<1>5. /\ ideas' \in [IdeaIds -> IdeaRows]
      /\ ideas'[now.idea].count = ideas[now.idea].count /\ ideas'[now.idea].key = ideas[now.idea].key
      /\ ideas'[now.idea].group = ideas[now.idea].group
      /\ ideas'[now.idea].status = "none" => ideas[now.idea].status = "none"
      /\ \A j \in IdeaIds : j # now.idea => ideas'[j] = ideas[j]
  <2> DEFINE new == IF ideas[now.idea].status = "none" THEN "none" ELSE "Greenlit"
  <2>1. ideas \in [IdeaIds -> IdeaRows] /\ new \in {"none", "Greenlit"}
        /\ (new = "none" => ideas[now.idea].status = "none")
    BY DEF IdeasInv, IdeasTypes
  <2>2. ideas' = [ideas EXCEPT ![now.idea].status = new]
    BY <1>1, <1>2
  <2> HIDE DEF new
  <2> QED BY <1>1, <2>1, <2>2 DEF IdeaRows
<1>6. ~ideaRaced => now.idea \notin declined
  <2>1. 1 \in DOMAIN ideaCall[c] /\ ideaCall[c][1] = now
    OBVIOUS
  <2> QED BY <2>1 DEF IdeasInv, DeclinedIsLeft
<1> QED BY <1>0, <1>1, <1>2, <1>4, <1>5, <1>6, IdDecides

LEMMA IdArchive ==
  ASSUME IdeasAssumption, IdeasInv, NEW c \in IdeaCallers, Id!Archive(c)
  PROVE  IdeasInv'
<1>0. Id!Does(c, "archive") /\ ~Id!Idle(c) /\ ideaCall[c] # <<>>
  BY DEF Id!Archive, Id!Does, Id!Idle
<1> PICK now \in ArchiveOps : now = Top(c) /\ ideaCall[c] \in Seq(ArchiveOps)
  BY <1>0, IdHeads DEF IdeasInv
<1>1. now.idea \in IdeaIds
  BY DEF ArchiveOps
<1>2. /\ ideaCall' = [ideaCall EXCEPT ![c] = <<>> \o Tail(@)] /\ UNCHANGED votes
      /\ UNCHANGED <<declined, ideaOverlap, ideaRaced, ideaTwice, ideaRequests, ideaDeaths>>
      /\ ideas' = [ideas EXCEPT ![now.idea].status = "Archived"]
  BY DEF Id!Archive, Id!Continue, Id!ghosts, Top
<1>3. <<>> \o Tail(ideaCall[c]) = Tail(ideaCall[c])
  BY <1>0
<1>4. Shortens(c)
  BY <1>0, <1>2, <1>3 DEF Shortens, IdeasInv, IdeasTypes
<1>5. /\ ideas' \in [IdeaIds -> IdeaRows]
      /\ ideas'[now.idea].count = ideas[now.idea].count /\ ideas'[now.idea].key = ideas[now.idea].key
      /\ ideas'[now.idea].group = ideas[now.idea].group /\ ideas'[now.idea].status = "Archived"
      /\ \A j \in IdeaIds : j # now.idea => ideas'[j] = ideas[j]
  BY <1>1, <1>2 DEF IdeasInv, IdeasTypes, IdeaRows
<1>6. ~ideaRaced => now.idea \notin declined
  <2>1. 1 \in DOMAIN ideaCall[c] /\ ideaCall[c][1] = now
    BY <1>0 DEF Top
  <2> QED BY <2>1 DEF IdeasInv, DeclinedIsLeft
<1> QED BY <1>0, <1>1, <1>2, <1>4, <1>5, <1>6, IdDecides

LEMMA IdCrash ==
  ASSUME IdeasAssumption, IdeasInv, NEW c \in IdeaCallers, Id!Crash(c)
  PROVE  IdeasInv'
<1>1. /\ ~Id!Idle(c) /\ ideaCall' = [ideaCall EXCEPT ![c] = <<>>]
      /\ ideaDeaths' = ideaDeaths + 1 /\ ideaDeaths \in Nat
      /\ UNCHANGED <<ideas, votes, declined, ideaOverlap, ideaRaced, ideaTwice>>
  BY DEF Id!Crash, Id!ghosts, IdeasInv, IdeasTypes
<1>2. Shortens(c)
  BY <1>1 DEF Shortens, IdeasInv, IdeasTypes
<1>3. /\ \A d \in IdeaCallers : IdeaCallTypes(ideaCall[d])'
      /\ DecidesAlone' /\ VotesApart'
  BY <1>2, IdShortens
<1>4. IdeasTypes'
  BY <1>1, <1>2, <1>3 DEF IdeasInv, IdeasTypes, Shortens
<1>5. DeclinedIsLeft' /\ VotersSee'
  BY <1>1, <1>2, <1>4, IdLess
<1>6. VotesAreCounted' /\ CountIsSorted'
  BY <1>1 DEF VotesAreCounted, CountIsSorted
<1> QED BY <1>3, <1>4, <1>5, <1>6 DEF IdeasInv

\* delete_idea leaves nothing of the idea, and nothing under way for it unless it raced.
LEMMA IdDeleteIdea ==
  ASSUME IdeasAssumption, IdeasInv, NEW c \in IdeaCallers, Id!DeleteIdea(c)
  PROVE  IdeasInv'
<1>0. Id!Does(c, "delete") /\ ~Id!Idle(c) /\ Decides(c) /\ ~Id!Does(c, "archive")
  BY DEF Id!DeleteIdea, Id!Does, Id!Idle, Decides
<1> PICK now \in DeclineOps : now = Top(c) /\ ideaCall[c] = <<now>>
  BY <1>0, IdHeads DEF IdeasInv
<1> DEFINE i == now.idea
<1>1. i \in IdeaIds
  BY DEF DeclineOps
<1>2. /\ ideaCall' = [ideaCall EXCEPT ![c] = Tail(@)]
      /\ ideas' = [ideas EXCEPT ![i] = Id!NoIdea]
      /\ votes' = {v \in votes : v[1] # i}
      /\ declined' = declined \cup {i}
      /\ UNCHANGED <<ideaOverlap, ideaRaced, ideaTwice, ideaRequests, ideaDeaths>>
  BY DEF Id!DeleteIdea, Id!ghosts, Top
<1>3. Shortens(c)
  BY <1>0, <1>2 DEF Shortens, IdeasInv, IdeasTypes
<1>4. /\ \A d \in IdeaCallers : IdeaCallTypes(ideaCall[d])'
      /\ DecidesAlone' /\ VotesApart' /\ Id!Idle(c)' /\ ~Votes(c)'
      /\ \A d \in IdeaCallers \ {c} : ideaCall'[d] = ideaCall[d]
  BY <1>0, <1>3, IdShortens DEF Shortens
<1>5. Id!NoIdea \in IdeaRows
  BY DEF Id!NoIdea, IdeaRows, Id!Groups
<1>6. /\ ideas' \in [IdeaIds -> IdeaRows] /\ ideas'[i] = Id!NoIdea
      /\ \A j \in IdeaIds : j # i => ideas'[j] = ideas[j]
  BY <1>1, <1>2, <1>5 DEF IdeasInv, IdeasTypes
<1>7. IdeasTypes'
  <2>1. votes' \subseteq votes /\ IsFiniteSet(votes')
    BY <1>2, FS_Subset DEF IdeasInv, IdeasTypes
  <2> QED BY <1>1, <1>2, <1>3, <1>4, <1>6, <2>1 DEF IdeasInv, IdeasTypes, Shortens
<1>8. ASSUME ~ideaRaced PROVE \A d \in IdeaCallers : Id!Idle(d)' /\ (d # c => Id!Idle(d))
  BY <1>0, <1>4, <1>8 DEF IdeasInv, DecidesAlone, Id!Idle
<1>9. DeclinedIsLeft'
  <2> SUFFICES ASSUME ~ideaRaced PROVE DeclinedIsLeft'
    BY <1>2 DEF DeclinedIsLeft
  <2>1. \A d \in IdeaCallers : DOMAIN ideaCall'[d] = {}
    BY <1>8 DEF Id!Idle
  <2>2. \A j \in declined' : ideas'[j] = Id!NoIdea /\ \A v \in votes' : v[1] # j
    BY <1>1, <1>2, <1>6 DEF IdeasInv, DeclinedIsLeft, IdeasTypes
  <2> QED BY <2>1, <2>2, <1>2 DEF DeclinedIsLeft, Id!NoIdea
<1>10. VotersSee'
  <2>1. Id!NoIdea.group = Community /\ \A u : Community \in Id!Scopes(u)
    BY DEF Id!NoIdea, Id!Scopes
  <2>2. \A d \in IdeaCallers \ {c} : Top(d)' = Top(d) /\ (Votes(d)' <=> Votes(d))
    BY <1>4 DEF Top, Votes, Id!Does
  <2>3. ASSUME NEW v \in votes' PROVE ideas'[v[1]].group \in Id!Scopes(v[2])
    BY <1>2, <1>6, <2>3 DEF IdeasInv, IdeasTypes, VotersSee
  <2>4. ASSUME NEW d \in IdeaCallers, Votes(d)'
        PROVE  ideas'[Top(d)'.idea].group \in Id!Scopes(Top(d)'.user)
    <3>1. Votes(d) /\ Top(d)' = Top(d)
      BY <1>4, <2>2, <2>4
    <3>2. Top(d).idea \in IdeaIds
      BY <3>1, IdHeads DEF Votes, Id!Does, Id!Idle, VoteOps, IdeasInv
    <3>3. ideas[Top(d).idea].group \in Id!Scopes(Top(d).user)
      BY <3>1 DEF IdeasInv, VotersSee
    <3> QED BY <3>1, <3>2, <3>3, <1>6, <2>1
  <2>5. ASSUME NEW j \in IdeaIds \ declined', ideas'[j].status = "none"
        PROVE  /\ \A v \in votes' : v[1] # j
               /\ \A d \in IdeaCallers : Votes(d)' => Top(d)'.idea # j
    <3>1. j \in IdeaIds \ declined /\ j # i /\ ideas[j].status = "none"
      BY <1>2, <1>6, <2>5
    <3> QED BY <3>1, <1>2, <1>4, <2>2 DEF IdeasInv, VotersSee
  <2> QED BY <2>3, <2>4, <2>5 DEF VotersSee, Id!Scopes
<1>11. VotesAreCounted'
  <2> SUFFICES ASSUME ~ideaRaced, ~ideaTwice, ideaDeaths = 0 PROVE VotesAreCounted'
    BY <1>2 DEF VotesAreCounted
  <2>1. \A d \in IdeaCallers : /\ ~Id!Does(d, "count") /\ ~Id!Does(d, "count")'
                               /\ ~Id!Does(d, "unvote")'
    BY <1>0, <1>8 DEF Id!Does, Id!Idle
  <2>2. \A j, n : Counting(j, n) = {} /\ Counting(j, n)' = {}
    BY <2>1 DEF Counting
  <2>3. Cardinality({}) = 0
    BY FS_EmptySet
  <2>4. ASSUME NEW j \in IdeaIds
        PROVE  (ideas[j].count + Cardinality(Counting(j, 1)) - Cardinality(Counting(j, -1))
                 = Cardinality(VotesOn(j)))'
    <3>0. /\ Cardinality(Counting(j, 1)) = 0 /\ Cardinality(Counting(j, -1)) = 0
          /\ Cardinality(Counting(j, 1))' = 0 /\ Cardinality(Counting(j, -1))' = 0
          /\ ideas[j].count \in Int
      BY <2>2, <2>3 DEF IdeasInv, IdeasTypes, IdeaRows
    <3>1. ideas[j].count = Cardinality(VotesOn(j))
      BY <3>0 DEF IdeasInv, VotesAreCounted
    <3>2. ideas'[j].count = Cardinality(VotesOn(j))'
      <4>1. CASE j = i
        <5>1. VotesOn(j)' = {}
          BY <1>2, <4>1 DEF VotesOn
        <5> QED BY <1>6, <2>3, <4>1, <5>1 DEF Id!NoIdea
      <4>2. CASE j # i
        <5>1. VotesOn(j)' = VotesOn(j)
          BY <1>2, <4>2 DEF VotesOn
        <5> QED BY <1>6, <3>1, <4>2, <5>1
      <4> QED BY <4>1, <4>2
    <3>3. ideas'[j].count \in Int
      BY <1>6 DEF IdeaRows
    <3> QED BY <3>0, <3>2, <3>3
  <2> QED BY <2>1, <2>4 DEF VotesAreCounted
<1>12. CountIsSorted'
  <2> SUFFICES ASSUME ~ideaOverlap, ideaDeaths = 0 PROVE CountIsSorted'
    BY <1>2 DEF CountIsSorted
  <2>1. \A d \in IdeaCallers : ~Id!Idle(d) => d = c
    BY <1>0 DEF CountIsSorted, IdeasInv
  <2>2. \A d \in IdeaCallers : Id!Idle(d)' /\ ~Id!Does(d, "sort")' /\ ~Id!Does(d, "sort")
    BY <1>0, <1>4, <2>1 DEF Id!Idle, Id!Does
  <2>3. ASSUME NEW j \in IdeaIds PROVE ideas'[j].key = Id!SortCount(ideas'[j].count)
    <3>1. ideas[j].key = Id!SortCount(ideas[j].count)
      BY <2>2 DEF CountIsSorted, IdeasInv
    <3>2. Id!NoIdea.key = Id!SortCount(Id!NoIdea.count)
      BY DEF Id!NoIdea, Id!SortCount
    <3> QED BY <1>6, <3>1, <3>2
  <2> QED BY <2>2, <2>3 DEF CountIsSorted, Id!SortCount
<1> QED BY <1>4, <1>7, <1>9, <1>10, <1>11, <1>12 DEF IdeasInv
-----------------------------------------------------------------------------
LEMMA IdVoteOp == ASSUME NEW op, IdeaCallTypes(<<op>>), op.do = "vote" PROVE op \in VoteOps
<1>1. ASSUME NEW x, <<op>> = <<x>> PROVE x = op
  BY <1>1
<1>2. CASE <<op>> \in Seq(ArchiveOps)
  <2>1. <<op>>[1] \in ArchiveOps
    BY <1>2
  <2> QED BY <2>1 DEF ArchiveOps
<1> QED BY <1>1, <1>2 DEF IdeaCallTypes, StatusOps, DeclineOps

LEMMA IdStart ==
  ASSUME IdeasAssumption, IdeasInv, NEW c \in IdeaCallers, NEW ops, NEW changes \in BOOLEAN,
         Id!Start(c, ops, changes), UNCHANGED ideas, IdeaCallTypes(ops), ops # <<>>,
         Votes(c)' => /\ ~changes /\ Id!Does(c, "vote")' /\ ops = <<Top(c)'>>
                      /\ ideas[Top(c)'.idea].group \in Id!Scopes(Top(c)'.user),
         Decides(c)' => changes,
         \A k \in DOMAIN ops : ops[k].idea \in IdeaIds /\ ideas[ops[k].idea].status = "Open"
  PROVE  IdeasInv'
<1> DEFINE others == {Head(ideaCall[d]) : d \in Id!Busy}
<1>1. /\ Id!Idle(c) /\ ideaCall' = [ideaCall EXCEPT ![c] = ops]
      /\ ideaOverlap' = (ideaOverlap \/ others # {})
      /\ ideaRaced' = (ideaRaced \/ \E op \in others :
                          changes \/ op.do \in {"status", "delete", "archive"})
      /\ ideaTwice' = (ideaTwice \/ \E op \in others, new \in Id!ToSet(ops) :
                          "user" \in DOMAIN op /\ "user" \in DOMAIN new
                          /\ op.idea = new.idea /\ op.user = new.user)
      /\ UNCHANGED <<ideas, votes, declined, ideaDeaths>>
  BY DEF Id!Start
<1>2. /\ DOMAIN ideaCall' = IdeaCallers /\ ideaCall'[c] = ops
      /\ \A d \in IdeaCallers \ {c} : ideaCall'[d] = ideaCall[d]
  BY <1>1 DEF IdeasInv, IdeasTypes
<1>3. /\ ~Votes(c) /\ ~Decides(c) /\ ~Id!Idle(c)' /\ Id!Idle(c)
      /\ \A d \in IdeaCallers \ {c} : /\ Top(d)' = Top(d) /\ (Id!Idle(d)' <=> Id!Idle(d))
                                     /\ (Votes(d)' <=> Votes(d)) /\ (Decides(d)' <=> Decides(d))
  BY <1>1, <1>2 DEF Top, Id!Idle, Votes, Decides, Id!Does
<1>4. \A d \in IdeaCallers \ {c} : ~Id!Idle(d) => Top(d) \in others
  BY DEF Id!Busy, Top
<1> HIDE DEF others
<1>5. IdeasTypes'
  <2>1. \A d \in IdeaCallers : IdeaCallTypes(ideaCall'[d])
    BY <1>2 DEF IdeasInv, IdeasTypes
  <2>2. \A d \in IdeaCallers : IdeaCallTypes(ideaCall[d])'
    BY <2>1 DEF IdeaCallTypes
  <2> QED BY <1>1, <1>2, <2>2 DEF IdeasInv, IdeasTypes
<1>6. DecidesAlone'
  <2> SUFFICES ASSUME ~ideaRaced', NEW d \in IdeaCallers, NEW e \in IdeaCallers,
                      Decides(d)', ~Id!Idle(e)'
               PROVE  d = e
    BY DEF DecidesAlone
  <2>0. ~ideaRaced /\ \A op \in others : ~changes /\ op.do \notin {"status", "delete", "archive"}
    BY <1>1
  <2>1. CASE d = c
    BY <1>3, <1>4, <2>0, <2>1
  <2>2. CASE d # c /\ e = c
    <3>1. Decides(d) /\ ~Id!Idle(d) /\ Top(d) \in others
      BY <1>3, <1>4, <2>2 DEF Decides, Id!Does, Id!Idle
    <3>2. Top(d).do \in {"status", "delete", "archive"}
      BY <3>1 DEF Decides, Id!Does, Top
    <3> QED BY <2>0, <3>1, <3>2
  <2>3. CASE d # c /\ e # c
    BY <1>3, <2>0, <2>3 DEF IdeasInv, DecidesAlone
  <2> QED BY <2>1, <2>2, <2>3
<1>7. VotesApart'
  <2> SUFFICES ASSUME ~ideaTwice', Votes(c)', NEW d \in IdeaCallers \ {c}, Votes(d)
               PROVE  ~(Top(c)'.idea = Top(d).idea /\ Top(c)'.user = Top(d).user)
    BY <1>1, <1>3 DEF VotesApart, IdeasInv
  <2>1. Top(d) \in others /\ Top(d) \in VoteOps
    BY <1>4, IdHeads DEF Votes, Id!Does, Id!Idle, IdeasInv
  <2>2. Top(c)' \in VoteOps
    <3>1. Top(c)'.do = "vote"
      BY DEF Id!Does, Top
    <3>2. IdeaCallTypes(<<Top(c)'>>)
      OBVIOUS
    <3> QED BY <3>1, <3>2, IdVoteOp
  <2>3. Top(c)' \in Id!ToSet(ops)
    <3>1. ops = <<Top(c)'>>
      OBVIOUS
    <3>2. 1 \in DOMAIN ops /\ ops[1] = Top(c)'
      BY <3>1
    <3> QED BY <3>2 DEF Id!ToSet
  <2>4. "user" \in DOMAIN Top(d) /\ "user" \in DOMAIN Top(c)'
    BY <2>1, <2>2 DEF VoteOps
  <2> QED BY <1>1, <2>1, <2>3, <2>4
<1>8. ~Id!Does(c, "count")' /\ ~Id!Does(c, "unvote")' /\ ~Id!Does(c, "sort")'
      /\ ~Id!Does(c, "count") /\ ~Id!Does(c, "sort")
  BY <1>3 DEF Votes, Id!Does
<1>9. VotesAreCounted'
  <2> SUFFICES ASSUME ~ideaRaced, ~ideaTwice, ideaDeaths = 0 PROVE VotesAreCounted'
    BY <1>1 DEF VotesAreCounted
  <2>1. /\ \A d \in IdeaCallers : Id!Does(d, "unvote")' => (<<Top(d).idea, Top(d).user>> \in votes)'
        /\ \A d \in IdeaCallers : Id!Does(d, "count")' => Top(d)'.by \in {1, -1}
    BY <1>1, <1>2, <1>3, <1>8 DEF IdeasInv, VotesAreCounted, Id!Does
  <2>2. \A j, n : Counting(j, n)' = Counting(j, n)
    BY <1>2, <1>3, <1>8 DEF Counting, Id!Does
  <2>3. \A j : VotesOn(j)' = VotesOn(j)
    BY <1>1 DEF VotesOn
  <2>4. \A j \in IdeaIds : (ideas[j].count + Cardinality(Counting(j, 1))
                              - Cardinality(Counting(j, -1)) = Cardinality(VotesOn(j)))'
    BY <2>2, <2>3 DEF IdeasInv, VotesAreCounted
  <2> QED BY <2>1, <2>4 DEF VotesAreCounted
<1>10. CountIsSorted'
  <2> SUFFICES ASSUME ~ideaOverlap', ideaDeaths = 0 PROVE CountIsSorted'
    BY <1>1 DEF CountIsSorted
  <2>1. ~ideaOverlap /\ others = {}
    BY <1>1
  <2>2. \A d \in IdeaCallers : Id!Idle(d) /\ (d # c => Id!Idle(d)')
    BY <1>3, <1>4, <2>1
  <2>3. \A d \in IdeaCallers : ~Id!Does(d, "sort") /\ ~Id!Does(d, "sort")'
    BY <1>8, <2>2 DEF Id!Does, Id!Idle
  <2>4. \A j \in IdeaIds : ideas[j].key = Id!SortCount(ideas[j].count)
    BY <2>1, <2>3 DEF CountIsSorted, IdeasInv
  <2> QED BY <1>1, <2>2, <2>3, <2>4 DEF CountIsSorted, Id!SortCount
<1>11. DeclinedIsLeft'
  <2> SUFFICES ASSUME ~ideaRaced PROVE DeclinedIsLeft'
    BY <1>1 DEF DeclinedIsLeft
  <2>1. Id!NoIdea.status = "none"
    BY DEF Id!NoIdea
  <2>2. \A k \in DOMAIN ops : ops[k].idea \notin declined
    BY <2>1 DEF IdeasInv, DeclinedIsLeft
  <2>3. ASSUME NEW j \in declined
        PROVE  /\ ideas[j] = Id!NoIdea
               /\ \A v \in votes : v[1] # j
               /\ \A d \in IdeaCallers : \A k \in DOMAIN ideaCall'[d] : ideaCall'[d][k].idea # j
    BY <1>2, <2>2 DEF IdeasInv, DeclinedIsLeft
  <2> QED BY <1>1, <2>3 DEF DeclinedIsLeft, Id!NoIdea
<1>12. VotersSee'
  <2>1. Votes(c)' => Top(c)'.idea \in IdeaIds /\ ideas[Top(c)'.idea].status = "Open"
    <3> SUFFICES ASSUME Votes(c)' PROVE Top(c)'.idea \in IdeaIds /\ ideas[Top(c)'.idea].status = "Open"
      OBVIOUS
    <3>1. 1 \in DOMAIN ops /\ ops[1] = Top(c)'
      <4>1. ops = <<Top(c)'>>
        OBVIOUS
      <4> QED BY <4>1
    <3> QED BY <3>1
  <2> QED BY <1>1, <1>3, <2>1 DEF IdeasInv, VotersSee, Id!Scopes
<1> QED BY <1>5, <1>6, <1>7, <1>9, <1>10, <1>11, <1>12 DEF IdeasInv

LEMMA IdToggleVote ==
  ASSUME IdeasAssumption, IdeasInv, NEW c \in IdeaCallers, NEW u \in Id!People, NEW i \in IdeaIds,
         Id!ToggleVote(c, u, i)
  PROVE  IdeasInv'
<1> DEFINE op == [do |-> "vote", idea |-> i, user |-> u, by |-> 0]
<1>1. Id!Start(c, <<op>>, FALSE) /\ UNCHANGED ideas
      /\ ideas[i].group \in Id!Scopes(u) /\ ideas[i].status = "Open"
  BY DEF Id!ToggleVote
<1>2. op \in VoteOps /\ op.do = "vote" /\ op.idea = i /\ op.user = u
  BY DEF VoteOps
<1> HIDE DEF op
<1>3. ideaCall'[c] = <<op>>
  BY <1>1 DEF Id!Start, IdeasInv, IdeasTypes
<1>4. Top(c)' = op /\ Id!Does(c, "vote")' /\ ~Decides(c)'
  BY <1>2, <1>3 DEF Top, Id!Does, Decides
<1>5. IdeaCallTypes(<<op>>) /\ <<op>> # <<>>
  BY <1>2 DEF IdeaCallTypes
<1>6. \A k \in DOMAIN <<op>> : <<op>>[k].idea \in IdeaIds /\ ideas[<<op>>[k].idea].status = "Open"
  BY <1>1, <1>2
<1> QED BY <1>1, <1>2, <1>4, <1>5, <1>6, IdStart

\* A leader's decision.
LEMMA IdDecision ==
  ASSUME IdeasAssumption, IdeasInv, NEW c \in IdeaCallers, NEW op \in StatusOps \cup DeclineOps,
         Id!Start(c, <<op>>, TRUE), UNCHANGED ideas, ideas[op.idea].status = "Open"
  PROVE  IdeasInv'
<1>1. IdeaCallTypes(<<op>>) /\ <<op>> # <<>>
  BY DEF IdeaCallTypes
<1>2. op.do \in {"status", "delete"} /\ op.idea \in IdeaIds
  BY DEF StatusOps, DeclineOps
<1>3. ideaCall'[c] = <<op>>
  BY DEF Id!Start, IdeasInv, IdeasTypes
<1>4. ~Votes(c)'
  BY <1>2, <1>3 DEF Votes, Id!Does
<1>5. \A k \in DOMAIN <<op>> : <<op>>[k].idea \in IdeaIds /\ ideas[<<op>>[k].idea].status = "Open"
  BY <1>2
<1> QED BY <1>1, <1>4, <1>5, IdStart

LEMMA IdGreenlight ==
  ASSUME IdeasAssumption, IdeasInv, NEW c \in IdeaCallers, NEW u \in Id!People, NEW i \in IdeaIds,
         Id!Greenlight(c, u, i)
  PROVE  IdeasInv'
<1> DEFINE op == [do |-> "status", idea |-> i, to |-> "Greenlit"]
<1>1. op \in StatusOps /\ op.idea = i
  BY DEF StatusOps
<1>2. Id!Start(c, <<op>>, TRUE) /\ UNCHANGED ideas /\ ideas[i].status = "Open"
  BY DEF Id!Greenlight
<1> QED BY <1>1, <1>2, IdDecision

LEMMA IdDecline ==
  ASSUME IdeasAssumption, IdeasInv, NEW c \in IdeaCallers, NEW u \in Id!People, NEW i \in IdeaIds,
         Id!Decline(c, u, i)
  PROVE  IdeasInv'
<1> DEFINE op == [do |-> "delete", idea |-> i]
<1>1. op \in DeclineOps /\ op.idea = i
  BY DEF DeclineOps
<1>2. Id!Start(c, <<op>>, TRUE) /\ UNCHANGED ideas /\ ideas[i].status = "Open"
  BY DEF Id!Decline
<1> QED BY <1>1, <1>2, IdDecision

LEMMA IdSweep ==
  ASSUME IdeasAssumption, IdeasInv, NEW c \in IdeaCallers, Id!Sweep(c)
  PROVE  IdeasInv'
<1> DEFINE S == {i \in IdeaIds : Id!Stale(i)}
           found == Id!SetToSeq(S)
           ops == [k \in DOMAIN found |->
                     [do |-> "archive", idea |-> found[k], to |-> "Archived"]]
<1>1. S # {} /\ Id!Start(c, ops, TRUE) /\ UNCHANGED ideas
  BY DEF Id!Sweep
<1>2. IsFiniteSet(S) /\ S \subseteq IdeaIds
  BY FS_Subset DEF IdeasAssumption
<1>3. found \in [1 .. Cardinality(S) -> S]
  <2>1. Cardinality(S) \in Nat
    BY <1>2, FS_CardinalityType
  <2>2. ExistsBijection(1 .. Cardinality(S), S)
    BY <1>2, FS_NatBijection, FS_CountingElements, FS_CardinalityType
  <2>3. \E f \in [1 .. Cardinality(S) -> S] : Id!IsInjective(f)
    BY <2>2 DEF ExistsBijection, Bijection, Injection, IsInjective, Id!IsInjective
  <2> HIDE DEF S
  <2>4. found = CHOOSE f \in [1 .. Cardinality(S) -> S] : Id!IsInjective(f)
    BY IdCardinality DEF Id!SetToSeq
  <2> QED BY <2>3, <2>4, Zenon
<1>4. Cardinality(S) \in Nat /\ Cardinality(S) # 0
  BY <1>1, <1>2, FS_CardinalityType, FS_EmptySet
<1> HIDE DEF found
<1>5. ops \in Seq(ArchiveOps) /\ ops # <<>>
  <2>1. DOMAIN found = 1 .. Cardinality(S)
    BY <1>3
  <2>2. \A k \in 1 .. Cardinality(S) : ops[k] \in ArchiveOps
    BY <1>2, <1>3, <2>1 DEF ArchiveOps
  <2>3. ops \in [1 .. Cardinality(S) -> ArchiveOps]
    BY <2>1, <2>2
  <2>4. 1 \in DOMAIN ops
    BY <1>4, <2>1
  <2> HIDE DEF ops, S
  <2>5. ops \in Seq(ArchiveOps)
    BY <1>4, <2>3
  <2> QED BY <2>4, <2>5
<1>6. \A k \in DOMAIN ops : ops[k].idea \in IdeaIds /\ ideas[ops[k].idea].status = "Open"
  BY <1>2, <1>3 DEF Id!Stale
<1> HIDE DEF ops
<1>7. ideaCall'[c] = ops
  BY <1>1 DEF Id!Start, IdeasInv, IdeasTypes
<1>8. ~Votes(c)'
  <2>1. Head(ops) \in ArchiveOps
    BY <1>5
  <2> QED BY <1>7, <2>1 DEF Votes, Id!Does, ArchiveOps
<1>9. IdeaCallTypes(ops)
  BY <1>5 DEF IdeaCallTypes
<1> QED BY <1>1, <1>5, <1>6, <1>8, <1>9, IdStart

\* put_idea takes an id that was never used, for which there is nothing.
LEMMA IdSubmit ==
  ASSUME IdeasAssumption, IdeasInv, NEW c \in IdeaCallers, NEW u \in Id!People, NEW i \in IdeaIds,
         NEW g \in Id!Groups, Id!Submit(c, u, i, g)
  PROVE  IdeasInv'
<1>1. /\ ideas[i] = Id!NoIdea /\ i \notin declined /\ Id!Idle(c)
      /\ ideas' = [ideas EXCEPT ![i] = [Id!NoIdea EXCEPT !.status = "Open", !.group = g]]
      /\ ideaCall' = [ideaCall EXCEPT ![c] = <<>>]
      /\ UNCHANGED <<votes, declined, ideaDeaths>>
      /\ (~ideaOverlap' => ~ideaOverlap) /\ (~ideaRaced' => ~ideaRaced) /\ (~ideaTwice' => ~ideaTwice)
      /\ ideaOverlap' \in BOOLEAN /\ ideaRaced' \in BOOLEAN /\ ideaTwice' \in BOOLEAN
  BY DEF Id!Submit, Id!Start, IdeasInv, IdeasTypes
<1>2. DOMAIN ideaCall' = IdeaCallers /\ \A d \in IdeaCallers : ideaCall'[d] = ideaCall[d]
  BY <1>1 DEF Id!Idle, IdeasInv, IdeasTypes
<1>3. ideas' \in [IdeaIds -> IdeaRows] /\ \A j \in IdeaIds : j # i => ideas'[j] = ideas[j]
  BY <1>1 DEF IdeasInv, IdeasTypes, IdeaRows, Id!NoIdea
<1>4. ideas'[i].status = "Open" /\ ideas[i].status = "none"
      /\ ideas'[i].count = ideas[i].count /\ ideas'[i].key = ideas[i].key
  BY <1>1 DEF IdeasInv, IdeasTypes, IdeaRows, Id!NoIdea
<1>5. \A d \in IdeaCallers : /\ Top(d)' = Top(d) /\ (Id!Idle(d)' <=> Id!Idle(d))
                           /\ (Votes(d)' <=> Votes(d)) /\ (Decides(d)' <=> Decides(d))
  BY <1>2 DEF Top, Id!Idle, Votes, Decides, Id!Does
<1>6. IdeasTypes'
  BY <1>1, <1>2, <1>3 DEF IdeasInv, IdeasTypes, IdeaCallTypes
<1>7. DecidesAlone' /\ VotesApart'
  BY <1>1, <1>5 DEF IdeasInv, DecidesAlone, VotesApart
<1>8. VotesAreCounted'
  <2>1. \A j, n : Counting(j, n)' = Counting(j, n)
    BY <1>2, <1>5 DEF Counting, Id!Does
  <2>2. \A j : VotesOn(j)' = VotesOn(j)
    BY <1>1 DEF VotesOn
  <2>3. \A j \in IdeaIds : ideas'[j].count = ideas[j].count
    BY <1>3, <1>4
  <2> QED BY <1>1, <1>2, <1>5, <2>1, <2>2, <2>3 DEF IdeasInv, VotesAreCounted, Id!Does
<1>9. CountIsSorted'
  <2>1. \A j \in IdeaIds : ideas'[j].count = ideas[j].count /\ ideas'[j].key = ideas[j].key
    BY <1>3, <1>4
  <2>2. \A d \in IdeaCallers : Id!Does(d, "sort")' => Id!Does(d, "sort") /\ Top(d).idea \in IdeaIds
    <3> SUFFICES ASSUME NEW d \in IdeaCallers, Id!Does(d, "sort")'
                 PROVE  Id!Does(d, "sort") /\ Top(d).idea \in IdeaIds
      OBVIOUS
    <3>1. Id!Does(d, "sort")
      BY <1>2 DEF Id!Does
    <3> QED BY <3>1, IdHeads DEF Votes, Id!Does, Id!Idle, VoteOps, IdeasInv
  <2> QED BY <1>1, <1>2, <1>5, <2>1, <2>2 DEF IdeasInv, CountIsSorted, Id!Does, Id!SortCount
<1>10. DeclinedIsLeft'
  <2>1. \A j \in declined : ideas'[j] = ideas[j]
    BY <1>1, <1>3 DEF IdeasInv, IdeasTypes
  <2>2. ASSUME ~ideaRaced, NEW j \in declined
        PROVE  /\ ideas[j] = Id!NoIdea
               /\ \A v \in votes : v[1] # j
               /\ \A d \in IdeaCallers : \A k \in DOMAIN ideaCall'[d] : ideaCall'[d][k].idea # j
    BY <1>2, <2>2 DEF IdeasInv, DeclinedIsLeft
  <2> QED BY <1>1, <2>1, <2>2 DEF DeclinedIsLeft, Id!NoIdea
<1>11. VotersSee'
  <2>1. /\ \A v \in votes : v[1] # i
        /\ \A d \in IdeaCallers : Votes(d) => Top(d).idea # i
    BY <1>1, <1>4 DEF IdeasInv, VotersSee
  <2>2. \A d \in IdeaCallers : Votes(d) => Top(d).idea \in IdeaIds
    BY IdHeads DEF Votes, Id!Does, Id!Idle, VoteOps, IdeasInv
  <2>3. \A v \in votes : v[1] \in IdeaIds
    BY DEF IdeasInv, IdeasTypes
  <2>4. \A v \in votes' : ideas'[v[1]].group \in Id!Scopes(v[2])
    BY <1>1, <1>3, <2>1, <2>3 DEF IdeasInv, VotersSee
  <2>5. \A d \in IdeaCallers : Votes(d)' => ideas'[Top(d)'.idea].group \in Id!Scopes(Top(d)'.user)
    BY <1>3, <1>5, <2>1, <2>2 DEF IdeasInv, VotersSee
  <2>6. ASSUME NEW j \in IdeaIds \ declined', ideas'[j].status = "none"
        PROVE  /\ \A v \in votes' : v[1] # j
               /\ \A d \in IdeaCallers : Votes(d)' => Top(d)'.idea # j
    BY <1>1, <1>3, <1>4, <1>5, <2>6 DEF IdeasInv, VotersSee
  <2> QED BY <2>4, <2>5, <2>6 DEF VotersSee, Id!Scopes
<1> QED BY <1>6, <1>7, <1>8, <1>9, <1>10, <1>11 DEF IdeasInv

LEMMA IdGrowOld ==
  ASSUME IdeasInv, NEW i \in IdeaIds, Id!GrowOld(i)
  PROVE  IdeasInv'
<1>1. /\ ideas' = [ideas EXCEPT ![i].old = TRUE] /\ ideas[i].status # "none"
      /\ UNCHANGED <<votes, ideaCall, declined, ideaOverlap, ideaRaced, ideaTwice, ideaDeaths>>
  BY DEF Id!GrowOld, Id!ghosts
<1>2. /\ ideas' \in [IdeaIds -> IdeaRows]
      /\ \A j \in IdeaIds : /\ ideas'[j].count = ideas[j].count /\ ideas'[j].key = ideas[j].key
                            /\ ideas'[j].status = ideas[j].status /\ ideas'[j].group = ideas[j].group
                            /\ j # i => ideas'[j] = ideas[j]
  BY <1>1 DEF IdeasInv, IdeasTypes, IdeaRows
<1>3. IdeasTypes' /\ DecidesAlone' /\ VotesApart'
  BY <1>1, <1>2 DEF IdeasInv, IdeasTypes, IdeaCallTypes, DecidesAlone, VotesApart, Votes, Decides,
     Id!Does, Id!Idle, Top
<1>4. \A d \in IdeaCallers : Votes(d) => Top(d).idea \in IdeaIds
  BY IdHeads DEF Votes, Id!Does, Id!Idle, VoteOps, IdeasInv
<1>5. \A d \in IdeaCallers : Top(d)' = Top(d) /\ (Votes(d)' <=> Votes(d))
                           /\ (Id!Does(d, "sort")' <=> Id!Does(d, "sort"))
                           /\ (Id!Idle(d)' <=> Id!Idle(d))
  BY <1>1 DEF Top, Votes, Id!Does, Id!Idle
<1>6. VotesAreCounted'
  <2>1. \A j, n : Counting(j, n)' = Counting(j, n)
    BY <1>1 DEF Counting, Id!Does, Top
  <2>2. \A j : VotesOn(j)' = VotesOn(j)
    BY <1>1 DEF VotesOn
  <2> QED BY <1>1, <1>2, <2>1, <2>2 DEF IdeasInv, VotesAreCounted, Id!Does, Top
<1>7. CountIsSorted'
  BY <1>1, <1>2, <1>4, <1>5 DEF IdeasInv, CountIsSorted, Votes, Id!SortCount
<1>8. DeclinedIsLeft'
  <2>1. ~ideaRaced => \A j \in declined : ideas'[j] = ideas[j]
    <3>1. Id!NoIdea.status = "none"
      BY DEF Id!NoIdea
    <3> QED BY <1>1, <1>2, <3>1 DEF IdeasInv, IdeasTypes, DeclinedIsLeft
  <2> QED BY <1>1, <2>1 DEF IdeasInv, DeclinedIsLeft, Id!NoIdea
<1>9. VotersSee'
  <2>1. \A v \in votes' : ideas'[v[1]].group \in Id!Scopes(v[2])
    BY <1>1, <1>2 DEF IdeasInv, IdeasTypes, VotersSee
  <2>2. \A d \in IdeaCallers : Votes(d)' => ideas'[Top(d)'.idea].group \in Id!Scopes(Top(d)'.user)
    BY <1>2, <1>4, <1>5 DEF IdeasInv, VotersSee
  <2>3. ASSUME NEW j \in IdeaIds \ declined', ideas'[j].status = "none"
        PROVE  /\ \A v \in votes' : v[1] # j
               /\ \A d \in IdeaCallers : Votes(d)' => Top(d)'.idea # j
    BY <1>1, <1>2, <1>5, <2>3 DEF IdeasInv, VotersSee
  <2> QED BY <2>1, <2>2, <2>3 DEF VotersSee, Id!Scopes
<1> QED BY <1>3, <1>6, <1>7, <1>8, <1>9 DEF IdeasInv

LEMMA IdPreserved ==
  ASSUME IdeasAssumption, IdeasInv, [Id!Next]_(Id!vars)
  PROVE  IdeasInv'
<1>1. CASE UNCHANGED Id!vars
  <2>1. UNCHANGED <<ideas, votes, ideaCall, declined, ideaOverlap, ideaRaced, ideaTwice, ideaDeaths>>
    BY <1>1 DEF Id!vars, Id!ghosts
  <2>2. \A j, n : Counting(j, n)' = Counting(j, n) /\ VotesOn(j)' = VotesOn(j)
    BY <2>1 DEF Counting, Id!Does, Top, VotesOn
  <2>3. VotesAreCounted'
    BY <2>1, <2>2 DEF IdeasInv, VotesAreCounted, Id!Does, Top
  <2>4. IdeasTypes' /\ DecidesAlone' /\ VotesApart'
    BY <2>1 DEF IdeasInv, IdeasTypes, IdeaCallTypes, DecidesAlone, VotesApart, Votes, Decides,
       Id!Does, Id!Idle, Top
  <2>5. CountIsSorted' /\ DeclinedIsLeft'
    BY <2>1 DEF IdeasInv, CountIsSorted, DeclinedIsLeft, Id!Does, Id!Idle, Top, Id!NoIdea,
       Id!SortCount
  <2>6. VotersSee'
    BY <2>1 DEF IdeasInv, VotersSee, Votes, Id!Does, Top, Id!Scopes
  <2> QED BY <2>3, <2>4, <2>5, <2>6 DEF IdeasInv
<1>2. CASE Id!Next
  <2>1. ASSUME NEW c \in IdeaCallers, Id!Request(c) PROVE IdeasInv'
    BY <2>1, IdSweep, IdSubmit, IdToggleVote, IdGreenlight, IdDecline DEF Id!Request
  <2>2. ASSUME NEW c \in IdeaCallers, Id!Step(c) PROVE IdeasInv'
    BY <2>2, IdPutVote, IdDeleteVote, IdCountVote, IdUpdateSortKey, IdSetStatus, IdDeleteIdea,
       IdArchive DEF Id!Step
  <2> QED BY <1>2, <2>1, <2>2, IdCrash, IdGrowOld DEF Id!Next
<1> QED BY <1>1, <1>2

LEMMA IdImplied == ASSUME IdeasInv PROVE Id!IdeasHold
<1>1. Id!TypeOK
  BY DEF IdeasInv, IdeasTypes, IdeaRows, Id!TypeOK
<1>2. \A i : Id!VotesFor(i) = Cardinality(VotesOn(i))
  <2> TAKE i
  <2>1. Id!VotesFor(i) = Id!Cardinality(VotesOn(i))
    BY Zenon DEF Id!VotesFor, VotesOn
  <2> QED BY <2>1, IdCardinality
<1>3. Cardinality({}) = 0
  BY FS_EmptySet
<1>4. Id!CountIsVotes
  <2> SUFFICES ASSUME Id!Quiet, ~ideaTwice, ~ideaRaced, ideaDeaths = 0, NEW i \in IdeaIds
               PROVE  ideas[i].count = Cardinality(VotesOn(i))
    BY <1>2 DEF Id!CountIsVotes
  <2>1. Counting(i, 1) = {} /\ Counting(i, -1) = {}
    BY DEF Id!Quiet, Id!Idle, Id!Does, Counting
  <2>2. Cardinality(Counting(i, 1)) = 0 /\ Cardinality(Counting(i, -1)) = 0 /\ ideas[i].count \in Int
    BY <1>3, <2>1 DEF IdeasInv, IdeasTypes, IdeaRows
  <2> QED BY <2>2 DEF IdeasInv, VotesAreCounted
<1>5. Id!FeedFollowsCount
  BY DEF Id!FeedFollowsCount, Id!Quiet, Id!Idle, Id!Does, IdeasInv, CountIsSorted
<1>6. Id!DeclinedIsGone
  <2> SUFFICES ASSUME ~ideaRaced, NEW i \in declined
               PROVE  ideas[i] = Id!NoIdea /\ Cardinality(VotesOn(i)) = 0
    BY <1>2 DEF Id!DeclinedIsGone
  <2>1. VotesOn(i) = {}
    BY DEF VotesOn, IdeasInv, DeclinedIsLeft
  <2> QED BY <1>3, <2>1 DEF IdeasInv, DeclinedIsLeft
<1>7. Id!VotesAreInScope
  BY DEF Id!VotesAreInScope, IdeasInv, VotersSee
<1> QED BY <1>1, <1>4, <1>5, <1>6, <1>7 DEF Id!IdeasHold

\* However the votes of many users, the decisions and the sweeps interleave, an idea's count is
\* the number of its votes once all is quiet, the backlog's order follows it, a declined idea is
\* gone, and nobody votes outside his groups, for any finite set of ideas and of requests
\* (toggle_vote, decline_idea, archive_stale_ideas).
THEOREM IdeasAlwaysHold ==
  IdeasAssumption => (Id!Spec => [](Id!IdeasHold /\ IdeasHold))
<1> SUFFICES ASSUME IdeasAssumption PROVE Id!Spec => [](Id!IdeasHold /\ IdeasHold)
  OBVIOUS
<1>1. Id!Init => IdeasInv
  BY IdInitially
<1>2. IdeasInv /\ [Id!Next]_(Id!vars) => IdeasInv'
  BY IdPreserved
<1>3. IdeasInv => Id!IdeasHold /\ IdeasHold
  BY IdImplied DEF IdeasHold
<1> QED BY <1>1, <1>2, <1>3, PTL DEF Id!Spec

-----------------------------------------------------------------------------
(* Accepted answers.  Any number of workers score them. *)
AnswersAssumption ==
  /\ Aa!ReplyAssumption /\ Aa!PointsAssumption /\ Aa!BoundAssumption
  /\ IsFiniteSet(AnswerWorkers)

\* The requests of one post follow one another.
OneRequestAtATime == \A c, d \in AnswerCallers : c = d

AnswerEvent == [reply : AnswerReplies, accepted : BOOLEAN]
AnswerRequest ==
  [pc : {"idle", "clear", "set", "post", "delete"},
   old : AnswerReplies \cup {NoAnswer}, new : AnswerReplies \cup {NoAnswer}]

ForumTypes ==
  /\ postAnswer \in AnswerReplies \cup {NoAnswer}
  /\ accepted \subseteq AnswerReplies /\ deletedReplies \subseteq AnswerReplies
  /\ answerCall \in [AnswerCallers -> AnswerRequest]
  /\ \A c \in AnswerCallers : /\ answerCall[c].pc = "clear" => answerCall[c].old # NoAnswer
                              /\ answerCall[c].pc = "delete" => answerCall[c].new # NoAnswer
  /\ answerBudget \in [{"copy", "crash"} -> Int] /\ answerBudget["crash"] <= MaxAnswerCrashes

ScoringTypes ==
  /\ answersSent \in Seq(AnswerEvent)
  /\ answerQueue \subseteq DOMAIN answersSent /\ answerIdem \subseteq DOMAIN answersSent
  /\ awarded \subseteq AnswerReplies
  /\ answerWorker \in [AnswerWorkers -> {0} \cup answerIdem]
  /\ answerNet \in [AnswerReplies -> Int]

\* What a request knows of the post, when no other comes between and none died.
RequestFollows ==
  OneRequestAtATime /\ answerBudget["crash"] = MaxAnswerCrashes =>
    LET visible == accepted \ deletedReplies
        settled == /\ visible \subseteq {postAnswer}
                   /\ postAnswer # NoAnswer => postAnswer \in accepted
    IN  /\ (\A c \in AnswerCallers : answerCall[c].pc = "idle") => settled
        /\ \A c \in AnswerCallers :
             LET r == answerCall[c]
             IN  /\ r.pc \in {"clear", "delete"} => settled /\ r.old = postAnswer
                 /\ r.pc \in {"set", "post"} => visible \subseteq {r.new}
                 /\ r.pc = "post" /\ r.new # NoAnswer => r.new \in accepted

\* What the workers that flipped a member's flag still write makes up for the difference.
Paid(r) == IF r \in awarded THEN AnswerPoints ELSE 0
NetFollowsFlag ==
  \A r \in AnswerMembers :
    answerNet[r]
      + AnswerPoints * (Cardinality(Aa!Paying(r, TRUE)) - Cardinality(Aa!Paying(r, FALSE)))
      = Paid(r)

AnswersInv == ForumTypes /\ ScoringTypes /\ RequestFollows /\ NetFollowsFlag

LEMMA AaCardinality == \A S : Aa!Cardinality(S) = Cardinality(S)
  BY Zenon DEF Aa!Cardinality, Cardinality

LEMMA AaPaying ==
  ASSUME AnswersAssumption, NEW r, NEW yes
  PROVE  IsFiniteSet(Aa!Paying(r, yes)) /\ Cardinality(Aa!Paying(r, yes)) \in Nat
<1>1. Aa!Paying(r, yes) \subseteq AnswerWorkers
  BY DEF Aa!Paying
<1> QED BY <1>1, FS_Subset, FS_CardinalityType DEF AnswersAssumption

\* Nothing is scored: events may be published or delivered again.
LEMMA AaScoringRests ==
  ASSUME ScoringTypes, NetFollowsFlag, UNCHANGED <<answerIdem, awarded, answerWorker, answerNet>>,
         answersSent' \in Seq(AnswerEvent), Len(answersSent) <= Len(answersSent'),
         \A i \in 1 .. Len(answersSent) : answersSent'[i] = answersSent[i],
         answerQueue' \subseteq DOMAIN answersSent'
  PROVE  ScoringTypes' /\ NetFollowsFlag'
<1>1. /\ DOMAIN answersSent = 1 .. Len(answersSent) /\ Len(answersSent) \in Nat
      /\ DOMAIN answersSent' = 1 .. Len(answersSent') /\ Len(answersSent') \in Nat
  BY DEF ScoringTypes
<1>2. DOMAIN answersSent \subseteq DOMAIN answersSent'
  BY <1>1
<1>3. ScoringTypes'
  BY <1>2 DEF ScoringTypes
<1>4. \A w \in AnswerWorkers : answerWorker[w] # 0 => answerWorker[w] \in 1 .. Len(answersSent)
  BY <1>1 DEF ScoringTypes
<1>5. \A r, yes : Aa!Paying(r, yes)' = Aa!Paying(r, yes)
  BY <1>4 DEF Aa!Paying
<1> QED BY <1>3, <1>5 DEF NetFollowsFlag, Paid

LEMMA AaBusRests ==
  ASSUME ScoringTypes, NetFollowsFlag, UNCHANGED Aa!scoring, UNCHANGED Aa!bus
  PROVE  ScoringTypes' /\ NetFollowsFlag'
<1>1. Len(answersSent) \in Nat /\ UNCHANGED <<answersSent, answerQueue>>
  BY DEF ScoringTypes, Aa!bus
<1> QED BY <1>1, AaScoringRests DEF ScoringTypes, Aa!scoring

LEMMA AaEmit ==
  ASSUME ScoringTypes, NetFollowsFlag, UNCHANGED Aa!scoring,
         NEW r \in AnswerReplies, NEW yes \in BOOLEAN, Aa!Emit(r, yes)
  PROVE  ScoringTypes' /\ NetFollowsFlag'
<1> DEFINE e == [reply |-> r, accepted |-> yes]
<1>1. /\ e \in AnswerEvent /\ answersSent' = Append(answersSent, e)
      /\ answerQueue' = answerQueue \cup {Len(answersSent) + 1}
  BY DEF Aa!Emit, AnswerEvent
<1> HIDE DEF e
<1>2. /\ answersSent' \in Seq(AnswerEvent) /\ Len(answersSent') = Len(answersSent) + 1
      /\ Len(answersSent) \in Nat /\ DOMAIN answersSent = 1 .. Len(answersSent)
      /\ DOMAIN answersSent' = 1 .. Len(answersSent) + 1
      /\ \A i \in 1 .. Len(answersSent) : answersSent'[i] = answersSent[i]
  BY <1>1 DEF ScoringTypes
<1>3. answerQueue' \subseteq DOMAIN answersSent'
  BY <1>1, <1>2 DEF ScoringTypes
<1> QED BY <1>2, <1>3, AaScoringRests DEF Aa!scoring

\* A request's record, and the others', after one of its steps.
LEMMA AaGoto ==
  ASSUME ForumTypes, NEW c \in AnswerCallers, NEW pc \in {"idle", "clear", "set", "post", "delete"},
         Aa!Goto(c, pc)
  PROVE  /\ answerCall' \in [AnswerCallers -> AnswerRequest]
         /\ answerCall'[c].pc = pc /\ answerCall'[c].old = answerCall[c].old
         /\ answerCall'[c].new = answerCall[c].new
         /\ \A d \in AnswerCallers \ {c} : answerCall'[d] = answerCall[d]
<1>1. PICK was \in AnswerRequest : was = answerCall[c]
  BY DEF ForumTypes
<1>2. answerCall' = [answerCall EXCEPT ![c] = [was EXCEPT !.pc = pc]]
  BY <1>1 DEF Aa!Goto
<1> DEFINE now == [was EXCEPT !.pc = pc]
<1>3. now \in AnswerRequest /\ now.pc = pc /\ now.old = was.old /\ now.new = was.new
  BY <1>1 DEF AnswerRequest
<1> HIDE DEF now
<1>4. answerCall' = [answerCall EXCEPT ![c] = now]
  BY <1>2 DEF now
<1> QED BY <1>1, <1>3, <1>4 DEF ForumTypes

LEMMA AaBecomes ==
  ASSUME ForumTypes, NEW c \in AnswerCallers, NEW now \in AnswerRequest,
         answerCall' = [answerCall EXCEPT ![c] = now]
  PROVE  /\ answerCall' \in [AnswerCallers -> AnswerRequest] /\ answerCall'[c] = now
         /\ \A d \in AnswerCallers \ {c} : answerCall'[d] = answerCall[d]
BY DEF ForumTypes

LEMMA AaReturn ==
  ASSUME AnswersAssumption, ForumTypes, NEW c \in AnswerCallers, Aa!Return(c)
  PROVE  /\ answerCall' \in [AnswerCallers -> AnswerRequest] /\ answerCall'[c].pc = "idle"
         /\ \A d \in AnswerCallers \ {c} : answerCall'[d] = answerCall[d]
<1>1. Aa!Idle \in AnswerRequest /\ Aa!Idle.pc = "idle"
  BY DEF Aa!Idle, AnswerRequest
<1> QED BY <1>1, AaBecomes DEF Aa!Return

LEMMA AaInit == AnswersAssumption /\ Aa!Init => AnswersInv
<1> SUFFICES ASSUME AnswersAssumption, Aa!Init PROVE AnswersInv
  OBVIOUS
<1> USE DEF Aa!Init
<1>1. Aa!Idle \in AnswerRequest /\ Aa!Idle.pc = "idle"
  BY DEF Aa!Idle, AnswerRequest
<1>2. /\ answerCall \in [AnswerCallers -> AnswerRequest]
      /\ \A c \in AnswerCallers : answerCall[c].pc = "idle"
  BY <1>1
<1>3. /\ answerBudget \in [{"copy", "crash"} -> Int]
      /\ answerBudget["crash"] <= MaxAnswerCrashes
  BY DEF AnswersAssumption, Aa!BoundAssumption
<1>4. ForumTypes
  BY <1>2, <1>3 DEF ForumTypes
<1>5. ScoringTypes
  BY DEF ScoringTypes
<1>6. RequestFollows
  BY <1>2 DEF RequestFollows
<1>7. \A r, yes : Aa!Paying(r, yes) = {}
  BY DEF Aa!Paying
<1>8. Cardinality({}) = 0
  BY FS_EmptySet
<1>9. AnswerPoints * (0 - 0) = 0
  BY DEF AnswersAssumption, Aa!PointsAssumption
<1>10. \A r \in AnswerMembers : answerNet[r] = 0 /\ Paid(r) = 0
  BY DEF Paid, AnswersAssumption, Aa!ReplyAssumption
<1>11. NetFollowsFlag
  <2> SUFFICES ASSUME NEW r \in AnswerMembers
               PROVE  answerNet[r] + AnswerPoints * (Cardinality({}) - Cardinality({})) = Paid(r)
    BY <1>7 DEF NetFollowsFlag
  <2> QED BY <1>8, <1>9, <1>10
<1> QED BY <1>4, <1>5, <1>6, <1>11 DEF AnswersInv

-----------------------------------------------------------------------------
(* forums *)

LEMMA AaAcceptRead ==
  ASSUME AnswersAssumption, AnswersInv, NEW c \in AnswerCallers,
         NEW new \in AnswerReplies \cup {NoAnswer}, Aa!AcceptRead(c, new)
  PROVE  AnswersInv'
<1>1. ScoringTypes' /\ NetFollowsFlag'
  BY AaBusRests DEF AnswersInv, Aa!AcceptRead
<1> DEFINE now == [pc |-> IF postAnswer \notin {NoAnswer, new} THEN "clear" ELSE "set",
                   old |-> postAnswer, new |-> new]
<1>2. /\ now \in AnswerRequest /\ now.old = postAnswer /\ now.new = new
      /\ now.pc = "clear" \/ now.pc = "set"
      /\ now.pc = "clear" <=> postAnswer \notin {NoAnswer, new}
  BY DEF AnswersInv, ForumTypes, AnswerRequest
<1>3. answerCall' = [answerCall EXCEPT ![c] = now] /\ answerCall[c].pc = "idle"
  BY DEF Aa!AcceptRead
<1>4. UNCHANGED <<postAnswer, accepted, deletedReplies, answerBudget>>
  BY DEF Aa!AcceptRead
<1> HIDE DEF now
<1>5. /\ answerCall' \in [AnswerCallers -> AnswerRequest] /\ answerCall'[c] = now
      /\ \A d \in AnswerCallers \ {c} : answerCall'[d] = answerCall[d]
  BY <1>2, <1>3, AaBecomes DEF AnswersInv
<1>6. ForumTypes'
  BY <1>2, <1>4, <1>5 DEF AnswersInv, ForumTypes
<1>7. RequestFollows'
  BY <1>2, <1>3, <1>4, <1>5
     DEF AnswersInv, RequestFollows, OneRequestAtATime, ForumTypes, AnswersAssumption,
         Aa!ReplyAssumption
<1> QED BY <1>1, <1>6, <1>7 DEF AnswersInv

LEMMA AaAcceptClear ==
  ASSUME AnswersAssumption, AnswersInv, NEW c \in AnswerCallers, Aa!AcceptClear(c)
  PROVE  AnswersInv'
<1>1. answerCall[c].old \in AnswerReplies /\ answerCall[c].pc = "clear"
  BY DEF AnswersInv, ForumTypes, Aa!AcceptClear, AnswerRequest
<1>2. ScoringTypes' /\ NetFollowsFlag'
  BY <1>1, AaEmit DEF AnswersInv, Aa!AcceptClear
<1>3. /\ UNCHANGED <<postAnswer, deletedReplies, answerBudget>>
      /\ accepted' = accepted \ {answerCall[c].old}
  BY DEF Aa!AcceptClear
<1>4. /\ answerCall' \in [AnswerCallers -> AnswerRequest]
      /\ answerCall'[c].pc = "set" /\ answerCall'[c].old = answerCall[c].old
      /\ answerCall'[c].new = answerCall[c].new
      /\ \A d \in AnswerCallers \ {c} : answerCall'[d] = answerCall[d]
  BY AaGoto DEF AnswersInv, Aa!AcceptClear
<1>5. ForumTypes'
  BY <1>3, <1>4 DEF AnswersInv, ForumTypes
<1>6. RequestFollows'
  BY <1>1, <1>3, <1>4 DEF AnswersInv, RequestFollows, OneRequestAtATime
<1> QED BY <1>2, <1>5, <1>6 DEF AnswersInv

LEMMA AaAcceptSet ==
  ASSUME AnswersAssumption, AnswersInv, NEW c \in AnswerCallers, Aa!AcceptSet(c)
  PROVE  AnswersInv'
<1>1. answerCall[c].new \in AnswerReplies \cup {NoAnswer} /\ answerCall[c].pc = "set"
  BY DEF AnswersInv, ForumTypes, Aa!AcceptSet, AnswerRequest
<1>2. ScoringTypes' /\ NetFollowsFlag'
  <2>1. CASE answerCall[c].new = NoAnswer
    BY <2>1, AaBusRests DEF AnswersInv, Aa!AcceptSet
  <2>2. CASE answerCall[c].new # NoAnswer
    BY <1>1, <2>2, AaEmit DEF AnswersInv, Aa!AcceptSet
  <2> QED BY <2>1, <2>2
<1>3. /\ UNCHANGED <<postAnswer, deletedReplies, answerBudget>>
      /\ accepted' = accepted \cup ({answerCall[c].new} \ {NoAnswer})
  BY DEF Aa!AcceptSet
<1>4. /\ answerCall' \in [AnswerCallers -> AnswerRequest]
      /\ answerCall'[c].pc = "post" /\ answerCall'[c].old = answerCall[c].old
      /\ answerCall'[c].new = answerCall[c].new
      /\ \A d \in AnswerCallers \ {c} : answerCall'[d] = answerCall[d]
  BY AaGoto DEF AnswersInv, Aa!AcceptSet
<1>5. ForumTypes'
  BY <1>1, <1>3, <1>4 DEF AnswersInv, ForumTypes
<1>6. RequestFollows'
  BY <1>1, <1>3, <1>4 DEF AnswersInv, RequestFollows, OneRequestAtATime
<1> QED BY <1>2, <1>5, <1>6 DEF AnswersInv

LEMMA AaAcceptPost ==
  ASSUME AnswersAssumption, AnswersInv, NEW c \in AnswerCallers, Aa!AcceptPost(c)
  PROVE  AnswersInv'
<1>1. answerCall[c].new \in AnswerReplies \cup {NoAnswer} /\ answerCall[c].pc = "post"
  BY DEF AnswersInv, ForumTypes, Aa!AcceptPost, AnswerRequest
<1>2. ScoringTypes' /\ NetFollowsFlag'
  BY AaBusRests DEF AnswersInv, Aa!AcceptPost
<1>3. UNCHANGED <<accepted, deletedReplies, answerBudget>> /\ postAnswer' = answerCall[c].new
  BY DEF Aa!AcceptPost
<1>4. /\ answerCall' \in [AnswerCallers -> AnswerRequest] /\ answerCall'[c].pc = "idle"
      /\ \A d \in AnswerCallers \ {c} : answerCall'[d] = answerCall[d]
  BY AaReturn DEF AnswersInv, Aa!AcceptPost
<1>5. ForumTypes'
  BY <1>1, <1>3, <1>4 DEF AnswersInv, ForumTypes
<1>6. RequestFollows'
  BY <1>1, <1>3, <1>4 DEF AnswersInv, RequestFollows, OneRequestAtATime
<1> QED BY <1>2, <1>5, <1>6 DEF AnswersInv

LEMMA AaDeleteRead ==
  ASSUME AnswersAssumption, AnswersInv, NEW c \in AnswerCallers, NEW r \in AnswerReplies,
         Aa!DeleteRead(c, r)
  PROVE  AnswersInv'
<1>1. ScoringTypes' /\ NetFollowsFlag'
  BY AaBusRests DEF AnswersInv, Aa!DeleteRead
<1> DEFINE now == [pc |-> "delete", old |-> postAnswer, new |-> r]
<1>2. now \in AnswerRequest /\ now.pc = "delete" /\ now.old = postAnswer /\ now.new = r
  BY DEF AnswersInv, ForumTypes, AnswerRequest
<1>3. answerCall' = [answerCall EXCEPT ![c] = now] /\ answerCall[c].pc = "idle"
  BY DEF Aa!DeleteRead
<1>4. UNCHANGED <<postAnswer, accepted, deletedReplies, answerBudget>>
  BY DEF Aa!DeleteRead
<1> HIDE DEF now
<1>5. /\ answerCall' \in [AnswerCallers -> AnswerRequest] /\ answerCall'[c] = now
      /\ \A d \in AnswerCallers \ {c} : answerCall'[d] = answerCall[d]
  BY <1>2, <1>3, AaBecomes DEF AnswersInv
<1>6. ForumTypes'
  BY <1>2, <1>4, <1>5 DEF AnswersInv, ForumTypes, AnswersAssumption, Aa!ReplyAssumption
<1>7. RequestFollows'
  BY <1>2, <1>3, <1>4, <1>5 DEF AnswersInv, RequestFollows, OneRequestAtATime
<1> QED BY <1>1, <1>6, <1>7 DEF AnswersInv

LEMMA AaDeleteWrite ==
  ASSUME AnswersAssumption, AnswersInv, NEW c \in AnswerCallers, Aa!DeleteWrite(c)
  PROVE  AnswersInv'
<1>1. answerCall[c].new \in AnswerReplies /\ answerCall[c].pc = "delete"
  BY DEF AnswersInv, ForumTypes, Aa!DeleteWrite, AnswerRequest
<1>2. ScoringTypes' /\ NetFollowsFlag'
  BY AaBusRests DEF AnswersInv, Aa!DeleteWrite
<1>3. /\ UNCHANGED <<accepted, answerBudget>>
      /\ deletedReplies' = deletedReplies \cup {answerCall[c].new}
      /\ postAnswer' = IF answerCall[c].old = answerCall[c].new THEN NoAnswer ELSE postAnswer
  BY DEF Aa!DeleteWrite
<1>4. /\ answerCall' \in [AnswerCallers -> AnswerRequest] /\ answerCall'[c].pc = "idle"
      /\ \A d \in AnswerCallers \ {c} : answerCall'[d] = answerCall[d]
  BY AaReturn DEF AnswersInv, Aa!DeleteWrite
<1>5. ForumTypes'
  BY <1>1, <1>3, <1>4 DEF AnswersInv, ForumTypes
<1>6. RequestFollows'
  BY <1>1, <1>3, <1>4 DEF AnswersInv, RequestFollows, OneRequestAtATime
<1> QED BY <1>2, <1>5, <1>6 DEF AnswersInv

LEMMA AaSpend ==
  ASSUME ForumTypes, NEW what \in {"copy", "crash"}, Aa!Spend(what)
  PROVE  /\ answerBudget' \in [{"copy", "crash"} -> Int]
         /\ answerBudget'[what] = answerBudget[what] - 1
         /\ \A x \in {"copy", "crash"} \ {what} : answerBudget'[x] = answerBudget[x]
BY DEF ForumTypes, Aa!Spend

LEMMA AaDie ==
  ASSUME AnswersAssumption, AnswersInv, NEW c \in AnswerCallers, Aa!Die(c)
  PROVE  AnswersInv'
<1>1. ScoringTypes' /\ NetFollowsFlag'
  BY AaBusRests DEF AnswersInv, Aa!Die
<1>2. UNCHANGED <<postAnswer, accepted, deletedReplies>>
  BY DEF Aa!Die
<1>3. /\ answerCall' \in [AnswerCallers -> AnswerRequest] /\ answerCall'[c].pc = "idle"
      /\ \A d \in AnswerCallers \ {c} : answerCall'[d] = answerCall[d]
  BY AaReturn DEF AnswersInv, Aa!Die
<1>4. MaxAnswerCrashes \in Nat
  BY DEF AnswersAssumption, Aa!BoundAssumption
<1>5. /\ answerBudget' \in [{"copy", "crash"} -> Int]
      /\ answerBudget'["crash"] < MaxAnswerCrashes
  BY <1>4, AaSpend DEF AnswersInv, Aa!Die, ForumTypes
<1>6. ForumTypes'
  BY <1>2, <1>3, <1>4, <1>5 DEF AnswersInv, ForumTypes
<1>7. RequestFollows'
  BY <1>4, <1>5 DEF RequestFollows
<1> QED BY <1>1, <1>6, <1>7 DEF AnswersInv

-----------------------------------------------------------------------------
(* contributions-scoring *)

LEMMA AaForumRests ==
  ASSUME ForumTypes, RequestFollows, UNCHANGED Aa!forum, UNCHANGED answerBudget
  PROVE  ForumTypes' /\ RequestFollows'
BY DEF ForumTypes, RequestFollows, Aa!forum

LEMMA AaRedeliver ==
  ASSUME AnswersAssumption, AnswersInv, NEW i \in answerIdem, Aa!Redeliver(i)
  PROVE  AnswersInv'
<1>1. /\ UNCHANGED <<postAnswer, accepted, deletedReplies, answerCall, answersSent>>
      /\ UNCHANGED Aa!scoring /\ answerQueue' = answerQueue \cup {i}
  BY DEF Aa!Redeliver, Aa!forum
<1>2. Len(answersSent) \in Nat /\ i \in DOMAIN answersSent
  BY DEF AnswersInv, ScoringTypes
<1>3. ScoringTypes' /\ NetFollowsFlag'
  BY <1>1, <1>2, AaScoringRests DEF AnswersInv, ScoringTypes, Aa!scoring
<1>4. /\ answerBudget' \in [{"copy", "crash"} -> Int]
      /\ answerBudget'["crash"] = answerBudget["crash"]
  BY AaSpend DEF AnswersInv, Aa!Redeliver
<1>5. ForumTypes' /\ RequestFollows'
  BY <1>1, <1>4 DEF AnswersInv, ForumTypes, RequestFollows
<1> QED BY <1>3, <1>5 DEF AnswersInv

\* A worker joins, or leaves, those that write for a reply.
LEMMA AaJoins ==
  ASSUME NEW S, IsFiniteSet(S), NEW w, w \notin S
  PROVE  Cardinality(S \cup {w}) = Cardinality(S) + 1 /\ Cardinality(S) \in Nat
BY FS_AddElement, FS_CardinalityType

LEMMA AaLeaves ==
  ASSUME NEW S, IsFiniteSet(S), NEW w \in S
  PROVE  Cardinality(S \ {w}) = Cardinality(S) - 1 /\ Cardinality(S) \in Nat
BY FS_RemoveElement, FS_CardinalityType

LEMMA AaFlip ==
  ASSUME AnswersAssumption, AnswersInv, NEW w \in AnswerWorkers, NEW i \in answerQueue,
         Aa!Flip(w, i)
  PROVE  AnswersInv'
<1>1. ForumTypes' /\ RequestFollows'
  BY AaForumRests DEF AnswersInv, Aa!Flip
<1>2. /\ answerWorker[w] = 0 /\ UNCHANGED <<answersSent, answerNet>>
      /\ answerQueue' = answerQueue \ {i} /\ answerIdem' = answerIdem \cup {i}
  BY DEF Aa!Flip
<1>3. i \in DOMAIN answersSent /\ i \in Nat \ {0} /\ answersSent[i] \in AnswerEvent
  BY DEF AnswersInv, ScoringTypes
<1>4. PICK r \in AnswerReplies, yes \in BOOLEAN : answersSent[i] = [reply |-> r, accepted |-> yes]
  BY <1>3 DEF AnswerEvent
<1>5. CASE UNCHANGED <<awarded, answerWorker>>
  <2>1. ScoringTypes'
    BY <1>2, <1>3, <1>5 DEF AnswersInv, ScoringTypes
  <2>2. \A q, b : Aa!Paying(q, b)' = Aa!Paying(q, b)
    BY <1>2, <1>5 DEF Aa!Paying
  <2>3. NetFollowsFlag'
    BY <1>2, <1>5, <2>2 DEF AnswersInv, NetFollowsFlag, Paid
  <2> QED BY <1>1, <2>1, <2>3 DEF AnswersInv
<1>6. ASSUME ~ (yes <=> r \in awarded),
             awarded' = IF yes THEN awarded \cup {r} ELSE awarded \ {r},
             answerWorker' = [answerWorker EXCEPT ![w] = i]
      PROVE  AnswersInv'
  <2>1. ScoringTypes'
    BY <1>2, <1>3, <1>6 DEF AnswersInv, ScoringTypes
  <2>2. /\ answerWorker'[w] = i /\ i # 0
        /\ \A v \in AnswerWorkers \ {w} : answerWorker'[v] = answerWorker[v]
    BY <1>3, <1>6 DEF AnswersInv, ScoringTypes
  <2>3. /\ Aa!Paying(r, yes)' = Aa!Paying(r, yes) \cup {w} /\ w \notin Aa!Paying(r, yes)
        /\ \A q, b : q # r \/ b # yes => Aa!Paying(q, b)' = Aa!Paying(q, b)
    BY <1>2, <1>4, <2>2 DEF Aa!Paying
  <2>4. /\ Cardinality(Aa!Paying(r, yes)') = Cardinality(Aa!Paying(r, yes)) + 1
        /\ \A q, b : Cardinality(Aa!Paying(q, b)) \in Nat
    BY <2>3, AaPaying, AaJoins
  <2>5. \A q : q # r => Paid(q)' = Paid(q)
    BY <1>6 DEF Paid
  <2>6. ASSUME NEW q \in AnswerMembers
        PROVE  answerNet[q] + AnswerPoints
                 * (Cardinality(Aa!Paying(q, TRUE)') - Cardinality(Aa!Paying(q, FALSE)'))
                 = Paid(q)'
    <3>1. /\ answerNet[q] + AnswerPoints
               * (Cardinality(Aa!Paying(q, TRUE)) - Cardinality(Aa!Paying(q, FALSE)))
               = Paid(q)
          /\ answerNet[q] \in Int /\ AnswerPoints \in Nat
      BY DEF AnswersInv, NetFollowsFlag, ScoringTypes, AnswersAssumption, Aa!ReplyAssumption,
             Aa!PointsAssumption
    <3>2. CASE q # r
      BY <2>3, <2>5, <3>1, <3>2
    <3>3. CASE q = r /\ yes = TRUE
      <4>1. Paid(r) = 0 /\ Paid(r)' = AnswerPoints
        BY <1>6, <3>3 DEF Paid
      <4>2. Aa!Paying(r, FALSE)' = Aa!Paying(r, FALSE)
        BY <2>3, <3>3
      <4> DEFINE a == Cardinality(Aa!Paying(r, TRUE))
                 b == Cardinality(Aa!Paying(r, FALSE))
      <4>3. a \in Nat /\ b \in Nat /\ answerNet[q] + AnswerPoints * (a - b) = 0
        BY <2>4, <3>1, <3>3, <4>1
      <4>4. Cardinality(Aa!Paying(r, TRUE)') = a + 1 /\ Cardinality(Aa!Paying(r, FALSE)') = b
        BY <2>4, <3>3, <4>2
      <4> HIDE DEF a, b
      <4>5. AnswerPoints * ((a + 1) - b) = AnswerPoints * (a - b) + AnswerPoints
        BY <3>1, <4>3
      <4> DEFINE k == AnswerPoints * (a - b)
                 l == AnswerPoints * ((a + 1) - b)
      <4>6. k \in Int /\ answerNet[q] + k = 0 /\ l = k + AnswerPoints
        BY <3>1, <4>3, <4>5
      <4> HIDE DEF k, l
      <4>7. answerNet[q] + l = AnswerPoints
        BY <3>1, <4>6
      <4>8. answerNet[q] + AnswerPoints * ((a + 1) - b) = Paid(r)'
        BY <4>1, <4>7 DEF l
      <4> QED BY <3>3, <4>4, <4>8
    <3>4. CASE q = r /\ yes = FALSE
      <4>1. Paid(r) = AnswerPoints /\ Paid(r)' = 0
        BY <1>6, <3>4 DEF Paid
      <4>2. Aa!Paying(r, TRUE)' = Aa!Paying(r, TRUE)
        BY <2>3, <3>4
      <4> DEFINE a == Cardinality(Aa!Paying(r, TRUE))
                 b == Cardinality(Aa!Paying(r, FALSE))
      <4>3. a \in Nat /\ b \in Nat /\ answerNet[q] + AnswerPoints * (a - b) = AnswerPoints
        BY <2>4, <3>1, <3>4, <4>1
      <4>4. Cardinality(Aa!Paying(r, TRUE)') = a /\ Cardinality(Aa!Paying(r, FALSE)') = b + 1
        BY <2>4, <3>4, <4>2
      <4> HIDE DEF a, b
      <4>5. AnswerPoints * (a - (b + 1)) = AnswerPoints * (a - b) - AnswerPoints
        BY <3>1, <4>3
      <4>6. answerNet[q] + AnswerPoints * (a - (b + 1)) = 0
        BY <3>1, <4>3, <4>5
      <4> QED BY <3>4, <4>1, <4>4, <4>6
    <3> QED BY <3>2, <3>3, <3>4
  <2>7. NetFollowsFlag'
    BY <1>2, <2>6 DEF NetFollowsFlag
  <2> QED BY <1>1, <2>1, <2>7 DEF AnswersInv
<1>7. answersSent[i].accepted = yes /\ answersSent[i].reply = r
  BY <1>4
<1> QED BY <1>5, <1>6, <1>7 DEF Aa!Flip

LEMMA AaPay ==
  ASSUME AnswersAssumption, AnswersInv, NEW w \in AnswerWorkers, Aa!Pay(w)
  PROVE  AnswersInv'
<1>1. ForumTypes' /\ RequestFollows'
  BY AaForumRests DEF AnswersInv, Aa!Pay
<1>2. PICK i \in answerIdem : i = answerWorker[w] /\ i # 0
  BY DEF AnswersInv, ScoringTypes, Aa!Pay
<1>3. i \in DOMAIN answersSent /\ answersSent[i] \in AnswerEvent
  BY DEF AnswersInv, ScoringTypes
<1>4. PICK r \in AnswerReplies, yes \in BOOLEAN : answersSent[i] = [reply |-> r, accepted |-> yes]
  BY <1>3 DEF AnswerEvent
<1>5. /\ UNCHANGED <<answersSent, answerQueue, answerIdem, awarded>>
      /\ answerNet' = [answerNet EXCEPT ![r] = @ + Aa!Pays(i)]
      /\ answerWorker' = [answerWorker EXCEPT ![w] = 0]
  BY <1>2, <1>4 DEF Aa!Pay, Aa!bus
<1>6. Aa!Pays(i) = IF ~ yes THEN -AnswerPoints ELSE IF r \in AnswerMembers THEN AnswerPoints ELSE 0
  BY <1>4 DEF Aa!Pays
<1>7. Aa!Pays(i) \in Int /\ AnswerPoints \in Nat
  BY <1>6 DEF AnswersAssumption, Aa!PointsAssumption
<1>8. ScoringTypes'
  BY <1>5, <1>7 DEF AnswersInv, ScoringTypes
<1>9. /\ answerWorker'[w] = 0
      /\ \A v \in AnswerWorkers \ {w} : answerWorker'[v] = answerWorker[v]
      /\ answerNet'[r] = answerNet[r] + Aa!Pays(i)
      /\ \A q \in AnswerReplies \ {r} : answerNet'[q] = answerNet[q]
  BY <1>5 DEF AnswersInv, ScoringTypes
<1>10. /\ Aa!Paying(r, yes)' = Aa!Paying(r, yes) \ {w} /\ w \in Aa!Paying(r, yes)
       /\ \A q, b : q # r \/ b # yes => Aa!Paying(q, b)' = Aa!Paying(q, b)
  BY <1>2, <1>4, <1>5, <1>9 DEF Aa!Paying
<1>11. /\ Cardinality(Aa!Paying(r, yes)') = Cardinality(Aa!Paying(r, yes)) - 1
       /\ \A q, b : Cardinality(Aa!Paying(q, b)) \in Nat
  BY <1>10, AaPaying, AaLeaves
<1>12. \A q : Paid(q)' = Paid(q) /\ Paid(q) \in Int
  BY <1>5, <1>7 DEF Paid
<1>13. ASSUME NEW q \in AnswerMembers
       PROVE  answerNet'[q] + AnswerPoints
                * (Cardinality(Aa!Paying(q, TRUE)') - Cardinality(Aa!Paying(q, FALSE)'))
                = Paid(q)
  <2>1. /\ answerNet[q] + AnswerPoints
               * (Cardinality(Aa!Paying(q, TRUE)) - Cardinality(Aa!Paying(q, FALSE)))
               = Paid(q)
        /\ answerNet[q] \in Int /\ q \in AnswerReplies
    BY DEF AnswersInv, NetFollowsFlag, ScoringTypes, AnswersAssumption, Aa!ReplyAssumption
  <2>2. CASE q # r
    BY <1>9, <1>10, <2>1, <2>2
  <2> DEFINE a == Cardinality(Aa!Paying(r, TRUE))
             b == Cardinality(Aa!Paying(r, FALSE))
             n == answerNet[q]
  <2>3. a \in Nat /\ b \in Nat
    BY <1>11
  <2>4. ASSUME q = r, yes = TRUE PROVE <1>13!2
    <3>1. Cardinality(Aa!Paying(r, TRUE)') = a - 1 /\ Cardinality(Aa!Paying(r, FALSE)') = b
      BY <1>10, <1>11, <2>4
    <3>2. answerNet'[q] = n + AnswerPoints
      BY <1>6, <1>9, <2>4
    <3>3. n + AnswerPoints * (a - b) = Paid(q) /\ n \in Int
      BY <2>1, <2>4
    <3> HIDE DEF a, b, n
    <3>4. AnswerPoints * (a - 1 - b) = AnswerPoints * (a - b) - AnswerPoints
      BY <1>7, <2>3
    <3>5. n + AnswerPoints + AnswerPoints * (a - 1 - b) = Paid(q)
      BY <1>7, <2>3, <3>3, <3>4
    <3> QED BY <2>4, <3>1, <3>2, <3>5
  <2>5. ASSUME q = r, yes = FALSE PROVE <1>13!2
    <3>1. Cardinality(Aa!Paying(r, TRUE)') = a /\ Cardinality(Aa!Paying(r, FALSE)') = b - 1
      BY <1>10, <1>11, <2>5
    <3>2. answerNet'[q] = n - AnswerPoints
      BY <1>6, <1>7, <1>9, <2>1, <2>5
    <3>3. n + AnswerPoints * (a - b) = Paid(q) /\ n \in Int
      BY <2>1, <2>5
    <3> HIDE DEF a, b, n
    <3>4. AnswerPoints * (a - (b - 1)) = AnswerPoints * (a - b) + AnswerPoints
      BY <1>7, <2>3
    <3>5. n - AnswerPoints + AnswerPoints * (a - (b - 1)) = Paid(q)
      BY <1>7, <2>3, <3>3, <3>4
    <3> QED BY <2>5, <3>1, <3>2, <3>5
  <2> QED BY <2>2, <2>4, <2>5
<1>14. NetFollowsFlag'
  BY <1>12, <1>13 DEF NetFollowsFlag
<1> QED BY <1>1, <1>8, <1>14 DEF AnswersInv

LEMMA AaPreserved == AnswersAssumption /\ AnswersInv /\ [Aa!Next]_(Aa!vars) => AnswersInv'
<1> SUFFICES ASSUME AnswersAssumption, AnswersInv, [Aa!Next]_(Aa!vars) PROVE AnswersInv'
  OBVIOUS
<1>1. CASE UNCHANGED Aa!vars
  <2>1. UNCHANGED Aa!forum /\ UNCHANGED answerBudget /\ UNCHANGED Aa!scoring /\ UNCHANGED Aa!bus
    BY <1>1 DEF Aa!vars
  <2> QED BY <2>1, AaForumRests, AaBusRests DEF AnswersInv
<1>2. CASE Aa!Next
  BY <1>2, AaAcceptRead, AaAcceptClear, AaAcceptSet, AaAcceptPost, AaDeleteRead, AaDeleteWrite,
     AaDie, AaRedeliver, AaFlip, AaPay
     DEF Aa!Next, Aa!Accept
<1> QED BY <1>1, <1>2

LEMMA AaImplied ==
  AnswersAssumption /\ AnswersInv =>
    Aa!TypeOK /\ Aa!NetMatchesFlag /\ (OneRequestAtATime => Aa!OneAnswer)
<1> SUFFICES ASSUME AnswersAssumption, AnswersInv
             PROVE  Aa!TypeOK /\ Aa!NetMatchesFlag /\ (OneRequestAtATime => Aa!OneAnswer)
  OBVIOUS
<1>1. Aa!TypeOK
  BY DEF AnswersInv, ForumTypes, ScoringTypes, Aa!TypeOK, AnswerRequest, AnswerEvent
<1>2. Aa!NetMatchesFlag
  BY AaCardinality DEF AnswersInv, NetFollowsFlag, Paid, Aa!NetMatchesFlag, Aa!Owed
<1>3. OneRequestAtATime => Aa!OneAnswer
  BY DEF AnswersInv, RequestFollows, Aa!OneAnswer
<1> QED BY <1>1, <1>2, <1>3

\* Whatever the requests of a post do at the same time, whichever of them die, and in whatever
\* order and however often the events arrive, a reply has earned what its award flag says.
THEOREM PointsFollowTheFlag ==
  AnswersAssumption => (Aa!Spec => [](Aa!TypeOK /\ Aa!NetMatchesFlag))
<1> SUFFICES ASSUME AnswersAssumption PROVE Aa!Spec => [](Aa!TypeOK /\ Aa!NetMatchesFlag)
  OBVIOUS
<1>1. Aa!Init => AnswersInv
  BY AaInit
<1>2. AnswersInv /\ [Aa!Next]_(Aa!vars) => AnswersInv'
  BY AaPreserved
<1>3. AnswersInv => Aa!TypeOK /\ Aa!NetMatchesFlag
  BY AaImplied
<1> QED BY <1>1, <1>2, <1>3, PTL DEF Aa!Spec

\* When the requests follow one another, the accepted replies are besides the post's answer and
\* no other whenever no request is running and none has died.
THEOREM AnswersAlwaysHold ==
  AnswersAssumption /\ OneRequestAtATime => (Aa!Spec => [](Aa!AnswersHold /\ AnswersHold))
<1> SUFFICES ASSUME AnswersAssumption, OneRequestAtATime
             PROVE  Aa!Spec => [](Aa!AnswersHold /\ AnswersHold)
  OBVIOUS
<1>1. Aa!Init => AnswersInv
  BY AaInit
<1>2. AnswersInv /\ [Aa!Next]_(Aa!vars) => AnswersInv'
  BY AaPreserved
<1>3. AnswersInv => Aa!AnswersHold /\ AnswersHold
  BY AaImplied DEF AnswersHold, Aa!AnswersHold
<1> QED BY <1>1, <1>2, <1>3, PTL DEF Aa!Spec

-----------------------------------------------------------------------------
(* Access.  The code sorts group ids, so some groups have a first one; Refused is no set of *)
(* scopes.                                                                                  *)
AccessAssumption ==
  /\ \A S \in SUBSET AccessGroups : S # {} => \E g \in S : \A h \in S : g <= h
  /\ AccessCommunity \notin AccessGroups
  /\ AccessNoGroup \notin AccessGroups \cup {AccessCommunity}
  /\ AccessRefused \notin SUBSET V!Scopes

\* The claims the portal can mint, and the rows it can hold.
Mintable ==
  {who \in V!Principals : /\ who.role # "Member" => who.groups = {}
                          /\ who.role # "UserGroupLeader" => who.led = AccessNoGroup}

Asking == [op : V!Ops, asked : AccessGroups \cup {AccessNoGroup}, who : Mintable, live : BOOLEAN]
Serving == [op : V!Ops, asked : AccessGroups \cup {AccessNoGroup}, who : Mintable, live : BOOLEAN,
            scopes : (SUBSET V!Scopes) \cup {AccessRefused}]

AccessTypes ==
  /\ account \in Mintable /\ (claims # V!NoToken => claims \in Mintable)
  /\ createdEvent \in [AccessEvents -> {V!NoEvent} \cup [group : V!Scopes, mine : BOOLEAN]]
  /\ ask # V!Nothing => ask \in Asking /\ ask.asked \in V!Names(ask.op)
  /\ served # V!Nothing => served \in Serving
  /\ heldSinceMint \subseteq AccessGroups /\ heldSinceAsk \subseteq AccessGroups

\* What a request goes by was held since the mint, or since it came in once it was looked up.
KnownWasHeld ==
  /\ V!Held(account) \subseteq heldSinceMint
  /\ claims # V!NoToken => V!Held(claims) \subseteq heldSinceMint
  /\ ask # V!Nothing =>
       /\ V!Held(account) \subseteq heldSinceAsk
       /\ V!Held(ask.who) \subseteq IF ask.live THEN heldSinceAsk ELSE heldSinceMint

AccessInv == AccessTypes /\ KnownWasHeld /\ V!ScopesWereHeld

LEMMA AcHeld ==
  ASSUME AccessAssumption, NEW who \in Mintable
  PROVE  V!Held(who) \subseteq AccessGroups
BY DEF Mintable, V!Principals, V!Held, AccessAssumption

LEMMA AcMin ==
  ASSUME AccessAssumption, NEW S \in SUBSET AccessGroups, S # {}
  PROVE  V!Min(S) \in S
BY DEF AccessAssumption, V!Min

-----------------------------------------------------------------------------
(* What an answer says, service by service. *)
AnswersWell(scopes, op, who, asked) ==
  /\ scopes \in (SUBSET V!Scopes) \cup {AccessRefused}
  /\ /\ who.role \in {"Member", "UserGroupLeader"} /\ scopes # AccessRefused
     /\ ~(op = "browseMembers" /\ who.role # "Member")
     /\ ~(op = "leaderboard" /\ asked # AccessNoGroup)
     /\ ~(op = "ideaBacklog" /\ who.led = AccessNoGroup)
     => scopes \ {AccessCommunity} \subseteq V!Held(who) \cup V!Held(account)

LEMMA AcBrowses ==
  ASSUME NEW who
  PROVE  /\ who.role = "CommunityLeader" => V!browse_forums(who) = V!Scopes
         /\ who.role = "UserGroupLeader" =>
              V!browse_forums(who) = {AccessCommunity} \cup ({who.led} \ {AccessNoGroup})
         /\ who.role = "Member" => V!browse_forums(who) = {AccessCommunity} \cup who.groups
BY DEF V!browse_forums

LEMMA AcEvents ==
  ASSUME AccessAssumption, NEW who \in Mintable, NEW op \in V!EventOps, NEW asked \in V!Names(op)
  PROVE  AnswersWell(V!AtEvents(op, who, asked), op, who, asked)
<1> USE DEF AccessAssumption, Mintable, V!Principals, V!Roles, V!Names, AnswersWell, V!Held,
            V!Scopes
<1>1. CASE op = "listEvents"
  BY <1>1 DEF V!AtEvents, V!ListEvents, V!visible_scopes
<1>2. CASE op = "browseIdeas"
  BY <1>2 DEF V!AtEvents, V!Browse, V!in_scope, V!visible_scopes
<1>3. CASE op = "ideaBacklog"
  BY <1>3 DEF V!AtEvents, V!Backlog
<1>4. CASE op = "statsByType"
  BY <1>4 DEF V!AtEvents, V!StatsByType
<1>5. CASE op = "statsByGroup"
  BY <1>5 DEF V!AtEvents, V!StatsByGroup
<1> QED BY <1>1, <1>2, <1>3, <1>4, <1>5 DEF V!EventOps

LEMMA AcContributions ==
  ASSUME AccessAssumption, NEW who \in Mintable, NEW op \in V!PointOps, NEW asked \in V!Names(op)
  PROVE  AnswersWell(V!AtContributions(op, who, asked), op, who, asked)
<1>0. /\ who.led \in AccessGroups \cup {AccessNoGroup} /\ who.groups \subseteq AccessGroups
      /\ who.role \in V!Roles /\ V!Held(who) \subseteq AccessGroups
  BY AcHeld DEF Mintable, V!Principals
<1> USE DEF AccessAssumption, V!Roles, V!Names, AnswersWell, V!Scopes
<1>1. CASE op \in {"groupLedger", "groupTrend", "groupSummary"}
  BY <1>0, <1>1 DEF V!AtContributions, V!group_ledger, V!group_trend, V!summary, V!LedOrAsked,
                    V!Held
<1>2. CASE op = "communityTrend"
  BY <1>0, <1>2 DEF V!AtContributions, V!community_trend
<1>3. CASE op = "exportPoints"
  BY <1>0, <1>3 DEF V!AtContributions, V!export, V!Held
<1>4. CASE op = "leaderboard"
  <2>1. who.groups # {} => V!Min(who.groups) \in who.groups
    BY <1>0, AcMin
  <2>2. V!Held(who) # {} => V!Min(V!Held(who)) \in V!Held(who)
    BY <1>0, AcMin
  <2>3. who.groups \subseteq V!Held(who)
    BY DEF V!Held
  <2> QED BY <1>0, <1>4, <2>1, <2>2, <2>3 DEF V!AtContributions, V!leaderboard
<1> QED BY <1>1, <1>2, <1>3, <1>4 DEF V!PointOps

LEMMA AcOthers ==
  ASSUME AccessAssumption, account \in Mintable, NEW who \in Mintable,
         NEW op \in {"certLedger", "listJoinRequests", "browseMembers", "panel"} \cup V!ForumOps,
         NEW asked \in V!Names(op)
  PROVE  AnswersWell(V!Answer(op, who, asked), op, who, asked)
<1> USE DEF AccessAssumption, Mintable, V!Principals, V!Roles, V!Names, AnswersWell, V!Held,
            V!Scopes,
            V!Answer, V!EventOps, V!PointOps, V!ForumOps
<1>1. CASE op = "certLedger"
  BY <1>1 DEF V!AtCertifications, V!resolve_scope, V!RefreshClaims
<1>2. CASE op = "listJoinRequests"
  BY <1>2 DEF V!AtIdentity, V!authorize
<1>3. CASE op = "browseMembers"
  BY <1>3 DEF V!AtProfiles, V!browse_members, V!member_scope
<1>4. CASE op = "panel"
  BY <1>4 DEF V!AtAnnouncements
<1>5. CASE op = "browseForums"
  <2>1. CASE who.role = "Administrator"
    BY <1>5, <2>1 DEF V!AtForums
  <2>2. ASSUME who.role # "Administrator" PROVE V!AtForums(op, who, asked) = V!browse_forums(who)
    BY <1>5, <2>2 DEF V!AtForums
  <2>3. CASE who.role = "CommunityLeader"
    BY <1>5, <2>2, <2>3, AcBrowses
  <2>4. CASE who.role = "UserGroupLeader"
    BY <1>5, <2>2, <2>4, AcBrowses
  <2>5. CASE who.role = "Member"
    BY <1>5, <2>2, <2>5, AcBrowses
  <2> QED BY <2>1, <2>3, <2>4, <2>5
<1>6. CASE op = "listPosts"
  BY <1>6 DEF V!AtForums, V!require_group_access
<1> QED BY <1>1, <1>2, <1>3, <1>4, <1>5, <1>6

LEMMA AcAnswer ==
  ASSUME AccessAssumption, account \in Mintable, NEW who \in Mintable, NEW op \in V!Ops,
         NEW asked \in V!Names(op)
  PROVE  AnswersWell(V!Answer(op, who, asked), op, who, asked)
<1>1. CASE op \in V!EventOps
  <2>1. V!Answer(op, who, asked) = V!AtEvents(op, who, asked)
    BY <1>1 DEF V!Answer, V!EventOps, V!PointOps, V!ForumOps
  <2> QED BY <1>1, <2>1, AcEvents
<1>2. CASE op \in V!PointOps
  <2>1. V!Answer(op, who, asked) = V!AtContributions(op, who, asked)
    BY <1>2 DEF V!Answer, V!EventOps, V!PointOps, V!ForumOps
  <2> QED BY <1>2, <2>1, AcContributions
<1>3. CASE op \in {"certLedger", "listJoinRequests", "browseMembers", "panel"} \cup V!ForumOps
  BY <1>3, AcOthers
<1> QED BY <1>1, <1>2, <1>3 DEF V!Ops, V!Refreshing

-----------------------------------------------------------------------------
(* The actions. *)
LEMMA AcInit == AccessAssumption /\ V!Init => AccessInv
<1> SUFFICES ASSUME AccessAssumption, V!Init PROVE AccessInv
  OBVIOUS
<1>1. account \in Mintable /\ V!Held(account) = {}
  BY DEF V!Init, Mintable, V!Principals, V!Roles, V!Held
<1> QED BY <1>1 DEF V!Init, AccessInv, AccessTypes, KnownWasHeld, V!ScopesWereHeld

LEMMA AcBecomes ==
  ASSUME AccessAssumption, AccessInv, NEW u \in Mintable, V!Becomes(u)
  PROVE  AccessInv'
<1>1. V!Held(u) \subseteq AccessGroups /\ V!Held(account)' = V!Held(u)
  BY AcHeld DEF V!Becomes, V!Held
<1>2. AccessTypes'
  BY <1>1 DEF AccessInv, AccessTypes, V!Becomes
<1>3. KnownWasHeld'
  BY <1>1 DEF AccessInv, KnownWasHeld, V!Becomes, V!Held
<1>4. V!ScopesWereHeld'
  BY DEF V!Becomes, V!ScopesWereHeld
<1> QED BY <1>2, <1>3, <1>4 DEF AccessInv

LEMMA AcChangeRole ==
  ASSUME AccessAssumption, AccessInv, V!ChangeRole
  PROVE  AccessInv'
<1>1. ASSUME NEW r \in {"CommunityLeader", "Administrator"},
             V!Becomes([role |-> r, led |-> AccessNoGroup, groups |-> {}])
      PROVE  AccessInv'
  <2>1. [role |-> r, led |-> AccessNoGroup, groups |-> {}] \in Mintable
    BY DEF Mintable, V!Principals, V!Roles
  <2> QED BY <1>1, <2>1, AcBecomes
<1>2. ASSUME NEW g \in AccessGroups \cup {AccessNoGroup},
             V!Becomes([role |-> "UserGroupLeader", led |-> g, groups |-> {}])
      PROVE  AccessInv'
  <2>1. [role |-> "UserGroupLeader", led |-> g, groups |-> {}] \in Mintable
    BY DEF Mintable, V!Principals, V!Roles
  <2> QED BY <1>2, <2>1, AcBecomes
<1>3. ASSUME NEW gs \in SUBSET AccessGroups,
             V!Becomes([role |-> "Member", led |-> AccessNoGroup, groups |-> gs])
      PROVE  AccessInv'
  <2>1. [role |-> "Member", led |-> AccessNoGroup, groups |-> gs] \in Mintable
    BY DEF Mintable, V!Principals, V!Roles
  <2> QED BY <1>3, <2>1, AcBecomes
<1> QED BY <1>1, <1>2, <1>3 DEF V!ChangeRole

LEMMA AcJoinOrLeave ==
  ASSUME AccessAssumption, AccessInv, NEW g \in AccessGroups, V!JoinOrLeave(g)
  PROVE  AccessInv'
<1>1. PICK was \in Mintable : was = account
  BY DEF AccessInv, AccessTypes
<1> DEFINE u == [was EXCEPT !.groups = IF g \in @ THEN @ \ {g} ELSE @ \cup {g}]
<1>2. was.role = "Member" /\ V!Becomes(u)
  BY <1>1 DEF V!JoinOrLeave
<1>3. u \in Mintable
  BY <1>2 DEF Mintable, V!Principals
<1> HIDE DEF u
<1> QED BY <1>2, <1>3, AcBecomes

\* Claims are no more than the row holds.
LEMMA AcClaims ==
  ASSUME AccessAssumption, NEW u \in Mintable, NEW found \in BOOLEAN
  PROVE  V!Claims(u, found) \in Mintable /\ V!Held(V!Claims(u, found)) \subseteq V!Held(u)
BY DEF V!Claims, Mintable, V!Principals, V!Roles, V!Held

LEMMA AcSignIn ==
  ASSUME AccessAssumption, AccessInv, NEW found \in BOOLEAN, V!SignIn(found)
  PROVE  AccessInv'
<1>1. /\ V!Claims(account, found) \in Mintable
      /\ V!Held(V!Claims(account, found)) \subseteq V!Held(account)
      /\ V!Held(account) \subseteq AccessGroups
  BY AcClaims, AcHeld DEF AccessInv, AccessTypes
<1>2. /\ claims' = V!Claims(account, found) /\ V!Held(claims)' = V!Held(V!Claims(account, found))
      /\ heldSinceMint' = V!Held(account) /\ V!Held(account)' = V!Held(account)
      /\ UNCHANGED <<account, createdEvent, ask, heldSinceAsk>> /\ ask = V!Nothing
      /\ served' = V!Nothing
  BY DEF V!SignIn, V!Held
<1>3. AccessTypes'
  BY <1>1, <1>2 DEF AccessInv, AccessTypes
<1>4. KnownWasHeld'
  BY <1>1, <1>2 DEF AccessInv, KnownWasHeld
<1>5. V!ScopesWereHeld'
  BY <1>2 DEF V!ScopesWereHeld
<1> QED BY <1>3, <1>4, <1>5 DEF AccessInv

LEMMA AcCreates ==
  ASSUME AccessAssumption, AccessInv, NEW e \in AccessEvents, NEW g \in V!Scopes,
         V!CreateEvent(e, g) \/ V!OthersCreate(e, g)
  PROVE  AccessInv'
<1>1. /\ UNCHANGED <<account, claims, ask, heldSinceMint, heldSinceAsk>>
      /\ served' = served \/ served' = V!Nothing
      /\ \E mine \in BOOLEAN :
            createdEvent' = [createdEvent EXCEPT ![e] = [group |-> g, mine |-> mine]]
  BY DEF V!CreateEvent, V!OthersCreate
<1>2. createdEvent' \in [AccessEvents -> {V!NoEvent} \cup [group : V!Scopes, mine : BOOLEAN]]
  BY <1>1 DEF AccessInv, AccessTypes
<1>3. AccessTypes'
  BY <1>1, <1>2 DEF AccessInv, AccessTypes
<1>4. KnownWasHeld' /\ V!ScopesWereHeld'
  BY <1>1 DEF AccessInv, KnownWasHeld, V!ScopesWereHeld, V!Held
<1> QED BY <1>3, <1>4 DEF AccessInv

LEMMA AcAsk ==
  ASSUME AccessAssumption, AccessInv, NEW op \in V!Ops, NEW asked \in V!Names(op), V!Ask(op, asked)
  PROVE  AccessInv'
<1>1. asked \in AccessGroups \cup {AccessNoGroup}
  BY DEF V!Names
<1> DEFINE r == [op |-> op, asked |-> asked, who |-> claims, live |-> FALSE]
<1>2. /\ r \in Asking /\ r.op = op /\ r.asked = asked /\ r.who = claims /\ r.live = FALSE
      /\ claims # V!NoToken
  BY <1>1 DEF Asking, AccessInv, AccessTypes, V!Ask
<1>3. /\ ask' = r /\ heldSinceAsk' = V!Held(account) /\ served' = V!Nothing
      /\ UNCHANGED <<account, claims, createdEvent, heldSinceMint>>
  BY DEF V!Ask
<1> HIDE DEF r
<1>4. V!Held(account) \subseteq AccessGroups
  BY AcHeld DEF AccessInv, AccessTypes
<1>5. AccessTypes'
  BY <1>2, <1>3, <1>4 DEF AccessInv, AccessTypes
<1>6. KnownWasHeld'
  BY <1>2, <1>3 DEF AccessInv, KnownWasHeld, V!Held
<1>7. V!ScopesWereHeld'
  BY <1>3 DEF V!ScopesWereHeld
<1> QED BY <1>5, <1>6, <1>7 DEF AccessInv

LEMMA AcLookup ==
  ASSUME AccessAssumption, AccessInv, V!Lookup
  PROVE  AccessInv'
<1>1. PICK r \in Asking : r = ask /\ r.asked \in V!Names(r.op)
  BY DEF AccessInv, AccessTypes, V!Lookup
<1>2. PICK u \in Mintable : u = account
  BY DEF AccessInv, AccessTypes
<1>3. PICK was \in Mintable : was = r.who /\ was.role = "Member"
  BY <1>1 DEF Asking, V!Lookup
<1> DEFINE gs == IF u.role = "Member" THEN u.groups ELSE {}
           now == [was EXCEPT !.groups = gs]
<1>4. V!RefreshClaims(account).groups = gs
  BY <1>2 DEF V!RefreshClaims
<1>5. V!LiveGroups(r.who) = now
  BY <1>3, <1>4 DEF V!LiveGroups
<1>6. gs \subseteq V!Held(account) /\ gs \subseteq AccessGroups
  BY <1>2 DEF V!Held, Mintable, V!Principals
<1> HIDE DEF gs
<1>7. now \in Mintable /\ V!Held(now) = gs
  BY <1>3, <1>6 DEF Mintable, V!Principals, V!Held, AccessAssumption
<1> HIDE DEF now
<1> DEFINE l == [r EXCEPT !.who = now, !.live = TRUE]
<1>8. ask' = l
  BY <1>1, <1>5 DEF V!Lookup
<1>9. l \in Asking /\ l.who = now /\ l.live = TRUE /\ l.op = r.op /\ l.asked = r.asked
  BY <1>7 DEF Asking
<1> HIDE DEF l
<1>10. /\ UNCHANGED <<account, claims, createdEvent, served, heldSinceMint, heldSinceAsk>>
       /\ ask # V!Nothing
  BY DEF V!Lookup
<1>11. AccessTypes'
  BY <1>1, <1>8, <1>9, <1>10 DEF AccessInv, AccessTypes
<1>12. /\ V!Held(ask.who)' = gs
       /\ V!Held(account)' = V!Held(account)
       /\ V!Held(claims)' = V!Held(claims)
  BY <1>7, <1>8, <1>9, <1>10 DEF V!Held
<1>13. KnownWasHeld'
  BY <1>6, <1>8, <1>9, <1>10, <1>12 DEF AccessInv, KnownWasHeld
<1>14. V!ScopesWereHeld'
  BY <1>10 DEF AccessInv, V!ScopesWereHeld
<1> QED BY <1>11, <1>13, <1>14 DEF AccessInv

LEMMA AcServe ==
  ASSUME AccessAssumption, AccessInv, V!Serve
  PROVE  AccessInv'
<1>1. PICK r \in Asking : r = ask /\ r.asked \in V!Names(r.op)
  BY DEF AccessInv, AccessTypes, V!Serve
<1> DEFINE s == V!Answer(r.op, r.who, r.asked)
           a == [op |-> r.op, asked |-> r.asked, who |-> r.who, live |-> r.live, scopes |-> s]
<1>2. AnswersWell(s, r.op, r.who, r.asked)
  BY <1>1, AcAnswer DEF AccessInv, AccessTypes, Asking
<1>3. served' = a /\ ask' = V!Nothing /\ ask # V!Nothing
  BY <1>1 DEF V!Serve
<1> HIDE DEF s
<1>4. s \in (SUBSET V!Scopes) \cup {AccessRefused}
  BY <1>2 DEF AnswersWell
<1>5. /\ a \in Serving /\ a.op = r.op /\ a.asked = r.asked /\ a.who = r.who /\ a.live = r.live
      /\ a.scopes = s
  BY <1>1, <1>4 DEF Asking, Serving
<1> HIDE DEF a
<1>6. UNCHANGED <<account, claims, createdEvent, heldSinceMint, heldSinceAsk>>
  BY DEF V!Serve
<1>7. AccessTypes'
  BY <1>3, <1>5, <1>6 DEF AccessInv, AccessTypes
<1>8. KnownWasHeld'
  BY <1>3, <1>6 DEF AccessInv, KnownWasHeld, V!Held
<1>9. V!Held(r.who) \cup V!Held(account) \subseteq IF r.live THEN heldSinceAsk ELSE heldSinceMint
  BY <1>1, <1>3 DEF AccessInv, KnownWasHeld
<1>10. V!ScopesWereHeld'
  BY <1>2, <1>3, <1>5, <1>6, <1>9 DEF V!ScopesWereHeld, AnswersWell
<1> QED BY <1>7, <1>8, <1>10 DEF AccessInv

LEMMA AcPreserved == AccessAssumption /\ AccessInv /\ [V!Next]_(V!vars) => AccessInv'
<1> SUFFICES ASSUME AccessAssumption, AccessInv, [V!Next]_(V!vars) PROVE AccessInv'
  OBVIOUS
<1>1. CASE UNCHANGED V!vars
  BY <1>1 DEF V!vars, AccessInv, AccessTypes, KnownWasHeld, V!ScopesWereHeld, V!Held
<1>2. CASE V!Next
  BY <1>2, AcChangeRole, AcJoinOrLeave, AcSignIn, AcCreates, AcAsk, AcLookup, AcServe DEF V!Next
<1> QED BY <1>1, <1>2

-----------------------------------------------------------------------------
(* The rules of each service agree on any claims the portal can mint. *)
LEMMA AcListed ==
  ASSUME AccessAssumption, AccessInv PROVE V!ListedCanBeOpened
<1> SUFFICES ASSUME claims \in Mintable, claims.role # "Administrator" PROVE V!ListedCanBeOpened
  BY DEF AccessInv, AccessTypes, V!ListedCanBeOpened, V!Participant
<1> PICK who \in Mintable : who = claims
  OBVIOUS
<1>0. /\ who.led \in AccessGroups \cup {AccessNoGroup} /\ who.groups \subseteq AccessGroups
      /\ who.role \in {"Member", "UserGroupLeader", "CommunityLeader"}
      /\ who.role # "Member" => who.groups = {}
      /\ who.role # "UserGroupLeader" => who.led = AccessNoGroup
  BY DEF Mintable, V!Principals, V!Roles
<1>1. ASSUME NEW e \in AccessEvents, createdEvent[e] # V!NoEvent
      PROVE  createdEvent[e].group \in V!ListEvents(who) <=> V!load_viewable(createdEvent[e], who)
  <2>1. createdEvent[e].group \in V!Scopes
    BY <1>1 DEF AccessInv, AccessTypes
  <2> QED BY <1>0, <1>1, <2>1 DEF V!ListEvents, V!visible_scopes, V!load_viewable, V!can_view,
                                  V!Scopes,
                                 V!Held, AccessAssumption
<1>2. ASSUME NEW g \in AccessGroups
      PROVE  g \in V!browse_forums(who) <=> V!require_group_access(who, g)
  <2>1. CASE who.role = "CommunityLeader"
    BY <2>1, AcBrowses DEF V!require_group_access, V!Scopes
  <2>2. CASE who.role = "UserGroupLeader"
    BY <1>0, <2>2, AcBrowses DEF V!require_group_access, AccessAssumption
  <2>3. CASE who.role = "Member"
    <3>1. V!browse_forums(who) = {AccessCommunity} \cup who.groups
      BY <2>3, AcBrowses
    <3>2. V!require_group_access(who, g) <=> g \in who.groups
      BY <2>3 DEF V!require_group_access, AccessAssumption
    <3>3. g \in V!browse_forums(who) <=> g \in who.groups
      BY <3>1 DEF AccessAssumption
    <3> QED BY <3>2, <3>3 DEF V!require_group_access
  <2> QED BY <1>0, <2>1, <2>2, <2>3
<1>3. ASSUME NEW g \in AccessGroups
      PROVE  who.role # "CommunityLeader" =>
               (g \in V!Browse(who, AccessNoGroup) <=> V!Browse(who, g) # AccessRefused)
  BY <1>0 DEF V!Browse, V!in_scope, V!visible_scopes, V!Scopes, V!Held, AccessAssumption
<1>4. ASSUME NEW g \in AccessGroups
      PROVE  g \in V!browse_members(who, AccessNoGroup) <=> V!browse_members(who, g) = {g}
  BY <1>0 DEF V!browse_members, V!member_scope, V!Scopes, AccessAssumption
<1> QED BY <1>1, <1>2, <1>3, <1>4 DEF V!ListedCanBeOpened

LEMMA AcLeader ==
  ASSUME AccessAssumption, AccessInv PROVE V!LeaderSeesTheSame
<1> SUFFICES ASSUME claims \in Mintable, claims.role = "UserGroupLeader", claims.led # AccessNoGroup
             PROVE  V!LeaderSeesTheSame
  BY DEF AccessInv, AccessTypes, V!LeaderSeesTheSame, V!Participant
<1> PICK who \in Mintable : who = claims
  OBVIOUS
<1> DEFINE cl == [role |-> "CommunityLeader", led |-> AccessNoGroup, groups |-> {}]
<1>0. /\ who.led \in AccessGroups /\ who.role = "UserGroupLeader" /\ who.led # AccessNoGroup
      /\ cl.role = "CommunityLeader"
  BY DEF Mintable, V!Principals
<1> HIDE DEF cl
<1>1. \A op \in {"ideaBacklog", "statsByType"} : \A asked :
        V!Answer(op, who, asked) = {who.led} /\ V!Answer(op, cl, who.led) = {who.led}
  BY <1>0 DEF V!Answer, V!EventOps, V!PointOps, V!ForumOps, V!AtEvents, V!Backlog, V!StatsByType
<1>2. \A op \in {"groupLedger", "groupTrend", "groupSummary", "exportPoints"} : \A asked :
        V!Answer(op, who, asked) = {who.led} /\ V!Answer(op, cl, who.led) = {who.led}
  BY <1>0 DEF V!Answer, V!EventOps, V!PointOps, V!ForumOps, V!AtContributions, V!group_ledger,
              V!group_trend, V!summary, V!export, V!LedOrAsked
<1>3. \A asked : /\ V!Answer("certLedger", who, asked) = {who.led}
                 /\ V!Answer("certLedger", cl, who.led) = {who.led}
  BY <1>0 DEF V!Answer, V!EventOps, V!PointOps, V!ForumOps, V!AtCertifications, V!resolve_scope
<1> QED BY <1>1, <1>2, <1>3 DEF V!LeaderSeesTheSame, cl

LEMMA AcImplied == AccessAssumption /\ AccessInv => V!AccessHolds
<1> SUFFICES ASSUME AccessAssumption, AccessInv PROVE V!AccessHolds
  OBVIOUS
<1>1. V!TypeOK
  BY DEF AccessInv, AccessTypes, V!TypeOK, Mintable, Serving
<1>2. V!CreatorManagesInView
  BY DEF V!CreatorManagesInView, V!load_manageable, V!can_manage, V!Participant
<1> QED BY <1>1, <1>2, AcListed, AcLeader DEF V!AccessHolds, AccessInv

\* For any number of groups and events, whatever becomes of the account while a token or a
\* request is on its way: what a caller is listed it can open, a leader and a Community Leader are
\* shown the same of a group, the groups whose rows are served were held, and a creator manages
\* its events in view.
THEOREM AccessAlwaysHolds == AccessAssumption => (V!Spec => [](V!AccessHolds /\ AccessHolds))
<1> SUFFICES ASSUME AccessAssumption PROVE V!Spec => [](V!AccessHolds /\ AccessHolds)
  OBVIOUS
<1>1. V!Init => AccessInv
  BY AcInit
<1>2. AccessInv /\ [V!Next]_(V!vars) => AccessInv'
  BY AcPreserved
<1>3. AccessInv => V!AccessHolds /\ AccessHolds
  BY AcImplied DEF AccessHolds
<1> QED BY <1>1, <1>2, <1>3, PTL DEF V!Spec
=============================================================================
