------------------------------ MODULE Settings ------------------------------
(***************************************************************************)
(* The settings of the platform and the services that go by them.  An      *)
(* administrator saves a few fields: the record is read, merged and put    *)
(* back whole.  Other services read it through caches of their containers, *)
(* each with a way of its own to do without: identity falls back on the    *)
(* defaults of its deployment and keeps those as long as a read; events    *)
(* keep an empty answer, and of the point values only true ones.           *)
(*                                                                         *)
(*   stored     the fields: those of the settings record, one the          *)
(*              administrators cannot change, and a point value of the     *)
(*              framework; Unset if the record has none                    *)
(*   template   the texts stored in place of a default, 0 for none         *)
(*   save[a]    the request of an administrator and the copy it holds      *)
(*   told       the settings as the last SettingsChanged has them          *)
(*   client     the one whose containers are followed                      *)
(*   cache[k]   of container k: what it holds, and since when              *)
(*   answer[k]  the last answer it was given                               *)
(*   heldAt     ghost: when a field last had a value                       *)
(*   failedAt   ghost: when a client's read last failed                    *)
(*   overlap    ghost: a save was read before another had finished         *)
(***************************************************************************)
EXTENDS Integers, FiniteSets

CONSTANTS Admins, Containers, Templates, Unset, Default, EnvDefault, Ttl, Budgets

VARIABLES stored, template, save, told, client, cache, answer, clock, heldAt, failedAt, overlap, budget

row == <<stored, heldAt>>
admin == <<template, save, told, overlap>>
clients == <<client, cache, answer, failedAt>>
vars == <<row, admin, clients, clock, budget>>

Saved == {"open", "days"}
Fields == Saved \cup {"teams", "points"}
Values == {0, 1}
Clients == {"identity", "teams", "points"}
\* The fields the client asks for.
Asked == IF client = "identity" THEN Saved ELSE {client}

NoSave == [do |-> "idle", body |-> {}, copy |-> Default, template |-> 0, text |-> 0]
NoCache == [from |-> "none", at |-> 0, val |-> Default]
NoAnswer == [from |-> "none", stale |-> FALSE, age |-> 0, since |-> 0]

\* settings_public: what the record lacks is a default.
settings_public(r) == [f \in Fields |-> IF r[f] = Unset THEN Default[f] ELSE r[f]]

Init ==
  /\ \E there \in {{}, {"open"}, Saved} : \E v \in [there -> Values] :
       stored = [f \in Fields |-> IF f \in there THEN v[f] ELSE IF f \in Saved THEN Unset ELSE 0]
  /\ template = [t \in Templates |-> 0] /\ save = [a \in Admins |-> NoSave]
  /\ told = settings_public(stored)
  /\ client \in Clients /\ cache = [k \in Containers |-> NoCache]
  /\ answer = [k \in Containers |-> NoAnswer]
  /\ clock = 0 /\ heldAt = [f \in Fields |-> [v \in Values |-> -99]]
  /\ failedAt = [k \in Containers |-> -99]
  /\ overlap = FALSE /\ budget \in Budgets

Spend(b) == budget[b] > 0 /\ budget' = [budget EXCEPT ![b] = @ - 1]
Saving == {a \in Admins : save[a] # NoSave}

-----------------------------------------------------------------------------
(* update_settings: get_settings, the fields of the body over it, put.       *)

\* The locked fields are what they are.
Merged(body) ==
  [f \in Fields |-> IF f = "teams" THEN 0 ELSE IF f \in DOMAIN body THEN body[f]
                    ELSE settings_public(stored)[f]]

UpdateReads(a) ==
  /\ save[a] = NoSave
  /\ \E fs \in SUBSET (Saved \cup {"teams"}) \ {{}} : \E body \in [fs -> Values] :
       save' = [save EXCEPT ![a] = [NoSave EXCEPT !.do = "put", !.body = fs, !.copy = Merged(body)]]
  /\ overlap' = (overlap \/ Saving # {})
  /\ Spend("save")
  /\ UNCHANGED <<row, template, told, clients, clock>>

put_settings(new) ==
  /\ stored' = [new EXCEPT !["points"] = stored["points"]]
  /\ heldAt' = [f \in Fields |-> [v \in Values |->
                 IF settings_public(stored)[f] = v /\ settings_public(stored')[f] # v THEN clock
                 ELSE heldAt[f][v]]]

UpdatePuts(a) ==
  /\ save[a].do = "put"
  /\ put_settings(save[a].copy)
  /\ save' = [save EXCEPT ![a].do = "tell"]
  /\ UNCHANGED <<template, told, overlap, clients, clock, budget>>

\* SettingsChanged, with the record, or with the name of a template.
Tells(a) ==
  /\ save[a].do = "tell" /\ save' = [save EXCEPT ![a] = NoSave]
  /\ told' = IF save[a].template # 0 THEN told ELSE save[a].copy
  /\ UNCHANGED <<row, template, overlap, clients, clock, budget>>

\* update_template: a text over the stored template, or over its default.
get_template(t) == template[t]
TemplateReads(a) ==
  /\ save[a] = NoSave
  /\ \E t \in Templates : save' = [save EXCEPT ![a] = [NoSave EXCEPT !.do = "template", !.template = t,
                                                        !.text = get_template(t) + 1]]
  /\ overlap' = (overlap \/ Saving # {})
  /\ Spend("save")
  /\ UNCHANGED <<row, template, told, clients, clock>>

TemplatePuts(a) ==
  /\ save[a].do = "template"
  /\ template' = [template EXCEPT ![save[a].template] = save[a].text]
  /\ save' = [save EXCEPT ![a].do = "tell"]
  /\ UNCHANGED <<row, told, overlap, clients, clock, budget>>

\* A leader changes the points of an activity.
EditPoints ==
  /\ stored' = [stored EXCEPT !["points"] = 1 - @]
  /\ heldAt' = [heldAt EXCEPT !["points"][stored["points"]] = clock]
  /\ Spend("points")
  /\ UNCHANGED <<admin, clients, clock>>

-----------------------------------------------------------------------------
(* The clients.  A container serves one request at a time; a client asks the *)
(* service when its cache is empty or has expired, and the call may fail.    *)
Age(k) == clock - cache[k].at

\* identity: older than the limit; events: as old as it.
Fresh(k) ==
  /\ cache[k].from # "none"
  /\ IF client = "identity" THEN Age(k) <= Ttl ELSE Age(k) < Ttl

\* Mutant: when the call fails, what was last read still holds.
FailedKeeping(k) == IF cache[k].from = "live" THEN [cache[k] EXCEPT !.at = clock]
                       ELSE [from |-> "env", at |-> clock, val |-> EnvDefault]

\* What is kept of a call that failed.
Failed(k) == CASE client = "identity" -> [from |-> "env", at |-> clock, val |-> EnvDefault]
                  [] client = "teams" -> [from |-> "empty", at |-> clock, val |-> [Default EXCEPT !["teams"] = 0]]
                  [] client = "points" -> cache[k]

Answer(k, f, c) ==
  answer' = [answer EXCEPT ![k] =
    [from |-> c.from, stale |-> c.val[f] # settings_public(stored)[f],
     age |-> clock - heldAt[f][c.val[f]], since |-> clock - failedAt'[k]]]

\* get
FromCache(k) ==
  /\ Fresh(k)
  /\ UNCHANGED <<client, cache, failedAt>>
  /\ \E f \in Asked : Answer(k, f, cache[k])
  /\ UNCHANGED <<row, admin, clock, budget>>

\* _fetch
Fetched(k) ==
  /\ ~Fresh(k)
  /\ cache' = [cache EXCEPT ![k] = [from |-> "live", at |-> clock, val |-> settings_public(stored)]]
  /\ UNCHANGED <<client, failedAt>>
  /\ \E f \in Asked : Answer(k, f, cache'[k])
  /\ UNCHANGED <<row, admin, clock, budget>>

\* The points field is left out of an answer without them.
FetchFails(k) ==
  /\ ~Fresh(k)
  /\ cache' = [cache EXCEPT ![k] = Failed(k)]
  /\ failedAt' = [failedAt EXCEPT ![k] = clock]
  /\ IF client = "points" THEN answer' = [answer EXCEPT ![k] = [NoAnswer EXCEPT !.from = "empty"]]
     ELSE \E f \in Asked : Answer(k, f, cache'[k])
  /\ Spend("fail")
  /\ UNCHANGED <<row, admin, client, clock>>

Tick ==
  /\ clock' = clock + 1
  /\ Spend("ticks")
  /\ UNCHANGED <<row, admin, clients>>

-----------------------------------------------------------------------------
Next ==
  \/ \E a \in Admins : UpdateReads(a) \/ UpdatePuts(a) \/ Tells(a) \/ TemplateReads(a) \/ TemplatePuts(a)
  \/ \E k \in Containers : FromCache(k) \/ Fetched(k) \/ FetchFails(k)
  \/ EditPoints \/ Tick

Spec == Init /\ [][Next]_vars

-----------------------------------------------------------------------------

TypeOK ==
  /\ stored \in [Fields -> {Unset, 0, 1}] /\ stored["teams"] # 1
  /\ \A k \in Containers : cache[k].from \in {"none", "live", "env", "empty"}
                                          /\ cache[k].at <= clock
  /\ \A a \in Admins : save[a].do = "idle" => save[a] = NoSave

(* A service goes by a value no older than its cache may be, whatever was    *)
(* saved meanwhile, and whether or not reads failed.                         *)
AnswersAreRecent ==
  \A k \in Containers : answer[k].from = "live" /\ answer[k].stale => answer[k].age <= Ttl

(* A container is back on the stored settings once its cache expires: it     *)
(* does without them no longer than that after a read that failed.           *)
FallbackIsBrief ==
  \A k \in Containers : answer[k].from \in {"env", "empty"} => answer[k].since <= Ttl

(* SettingsChanged: when no save is under way, and none was read before      *)
(* another had finished, what was last announced is what is stored.          *)
ToldIsStored ==
  Saving = {} /\ ~overlap =>
    \A f \in Saved \cup {"teams"} : told[f] = settings_public(stored)[f]

(* The types and the three of them together. *)
SettingsHold == TypeOK /\ AnswersAreRecent /\ FallbackIsBrief /\ ToldIsStored
=============================================================================
