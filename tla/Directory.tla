----------------------------- MODULE Directory -----------------------------
(***************************************************************************)
(* One member as three stores know him: the row of the identity service,   *)
(* the profile that member-profiles keeps of him from the identity events  *)
(* and from his own edits, and the document both services write into the   *)
(* shared search index, each from the stream of its own table and once a   *)
(* night from a scan of it.                                                *)
(*                                                                         *)
(*   user      the identity row, with the groups he is in                  *)
(*   profile   the profile row; role and status are Unset in a stub        *)
(*   doc       the document: what the directory and the admin list show    *)
(*   sent      the identity events published, numbered in order;           *)
(*   seen      the numbers run_once has claimed, due those to be delivered *)
(*   task[t]   a consumer or an edit that holds a copy of the profile      *)
(*   userStream, profileStream   images not yet indexed, in order          *)
(*   scan      what a nightly reindex has read and not yet written         *)
(*   edits     ghost: the bio of the member's last edit                    *)
(*   overlap, lost, late   ghosts: two holders of a copy at once; an event *)
(*             claimed and not applied; events applied out of order        *)
(*   behind    ghost: the services of which the index may miss the last    *)
(*             row until a night: a record was given up, or the row was    *)
(*             written after the scan that the bulk request writes         *)
(***************************************************************************)
EXTENDS Integers, Sequences, FiniteSets

CONSTANTS Roles, FirstRole, Groups, Cities, Tasks, Unset, Budgets

VARIABLES user, profile, doc, sent, seen, due, task, userStream, profileStream, scan,
          edits, overlap, lost, late, behind, budget

ghosts == <<edits, overlap, lost, late, behind>>
vars == <<user, profile, doc, sent, seen, due, task, userStream, profileStream, scan, ghosts, budget>>

NoTask == [do |-> "idle", event |-> 0, copy |-> <<>>]
NoScan == [of |-> "none"]
NoProfile == [there |-> FALSE, role |-> Unset, status |-> Unset, groups |-> {},
              city |-> Unset, bio |-> 0]
NoDoc == [there |-> FALSE, role |-> Unset, status |-> Unset, groups |-> {},
          city |-> Unset, bio |-> 0]
Event(type, u, g) == [type |-> type, role |-> u.role, city |-> u.city, group |-> g]

\* The account has just been created: its event is under way.
Init ==
  /\ \E c \in Cities \cup {Unset} :
       user = [role |-> FirstRole, status |-> "active", groups |-> {}, city |-> c]
  /\ profile = NoProfile /\ doc = NoDoc
  /\ sent = << Event("UserProvisioned", user, {}) >> /\ seen = {} /\ due = {1}
  /\ task = [t \in Tasks |-> NoTask]
  /\ userStream = <<user>> /\ profileStream = <<>> /\ scan = NoScan
  /\ edits = 0 /\ overlap = FALSE /\ lost = FALSE /\ late = FALSE /\ behind = {}
  /\ budget \in Budgets

Spend(b) == budget[b] > 0 /\ budget' = [budget EXCEPT ![b] = @ - 1]
Free == CHOOSE t \in Tasks \cup {0} : IF t = 0 THEN \A o \in Tasks : task[o] # NoTask
                                     ELSE task[t] = NoTask /\ \A o \in Tasks : o < t => task[o] # NoTask
Holders == {t \in Tasks : task[t].do \in {"put", "save"}}

-----------------------------------------------------------------------------
(* The identity service: a write of the row, which its stream carries, and   *)
(* the event.  Groups are rows of their own: no stream record.               *)
Identity(u, type, g, record) ==
  /\ u # user /\ user' = u
  /\ userStream' = IF record THEN Append(userStream, u) ELSE userStream
  /\ IF type = "none" THEN UNCHANGED <<sent, due>>
     ELSE sent' = Append(sent, Event(type, u, g)) /\ due' = due \cup {Len(sent')}
  /\ behind' = behind \cup (IF record /\ scan.of = "users" THEN {"users"} ELSE {})
  /\ Spend("identity")
  /\ UNCHANGED <<profile, doc, seen, task, profileStream, scan, edits, overlap, lost, late>>

ChangeRole == \E r \in Roles : Identity([user EXCEPT !.role = r], "UserRoleChanged", {}, TRUE)
SetEnabled ==
  IF user.status = "active"
  THEN Identity([user EXCEPT !.status = "inactive"], "UserDeactivated", {}, TRUE)
  ELSE Identity([user EXCEPT !.status = "active"], "UserReactivated", {}, TRUE)
EditUser == \E c \in Cities : Identity([user EXCEPT !.city = c], "none", {}, TRUE)
JoinGroup == \E g \in Groups : Identity([user EXCEPT !.groups = @ \cup {g}], "MemberJoinedGroup", {g}, FALSE)
LeaveGroup == \E g \in Groups : Identity([user EXCEPT !.groups = @ \ {g}], "MemberLeftGroup", {g}, FALSE)

-----------------------------------------------------------------------------
(* The consumer.  run_once claims the id of the envelope, then the handler   *)
(* reads the profile, changes its copy and puts it back whole.               *)

Deliver(t, n) ==
  /\ n \in due /\ t = Free
  /\ due' = due \ {n}
  /\ IF n \in seen THEN UNCHANGED <<task, seen>>
     ELSE seen' = seen \cup {n} /\ task' = [task EXCEPT ![t] = [NoTask EXCEPT !.do = "read", !.event = n]]
  /\ UNCHANGED <<user, profile, doc, sent, userStream, profileStream, scan, ghosts, budget>>

DeliverAgain ==
  /\ \E n \in seen \ due : due' = due \cup {n}
  /\ Spend("again")
  /\ UNCHANGED <<user, profile, doc, sent, seen, task, userStream, profileStream, scan, ghosts>>

\* _get_or_stub
Stub == IF profile.there THEN profile ELSE [NoProfile EXCEPT !.there = TRUE]

\* _on_provisioned: optional columns only where the member has set none.
OnProvisioned(p, e) ==
  [p EXCEPT !.role = e.role, !.status = "active", !.city = IF @ = Unset THEN e.city ELSE @]

\* Mutant: the handler puts the columns it knows.
RoleChangedColumns(p, e) == [p EXCEPT !.role = e.role, !.bio = 0]

OnRoleChanged(p, e) == [p EXCEPT !.role = e.role]

SetStatus(p, s) == [p EXCEPT !.status = s]

OnJoinedGroup(p, e) == [p EXCEPT !.groups = @ \cup e.group]
OnLeftGroup(p, e) == [p EXCEPT !.groups = @ \ e.group]

Dispatch(p, e) ==
  CASE e.type = "UserProvisioned" -> OnProvisioned(p, e)
    [] e.type = "UserRoleChanged" -> OnRoleChanged(p, e)
    [] e.type = "UserDeactivated" -> SetStatus(p, "inactive")
    [] e.type = "UserReactivated" -> SetStatus(p, "active")
    [] e.type = "MemberJoinedGroup" -> OnJoinedGroup(p, e)
    [] e.type = "MemberLeftGroup" -> OnLeftGroup(p, e)

Hold(t, do, copy) ==
  /\ task' = [task EXCEPT ![t] = [@ EXCEPT !.do = do, !.copy = copy]]
  /\ overlap' = (overlap \/ Holders # {})

HandlerReads(t) ==
  /\ task[t].do = "read"
  /\ Hold(t, "put", Dispatch(Stub, sent[task[t].event]))
  /\ late' = (late \/ \E k \in 1 .. task[t].event - 1 :
                        k \notin seen \/ \E o \in Tasks : task[o].do = "read" /\ task[o].event = k)
  /\ UNCHANGED <<user, profile, doc, sent, seen, due, userStream, profileStream, scan, edits,
                 lost, behind, budget>>

\* put_profile: the whole item, and the record of it in the stream.
PutProfile(t) ==
  /\ task[t].do \in {"put", "save"}
  /\ profile' = task[t].copy
  /\ profileStream' = Append(profileStream, task[t].copy)
  /\ task' = [task EXCEPT ![t] = NoTask]
  /\ behind' = behind \cup ({scan.of} \cap {"profiles"})
  /\ UNCHANGED <<user, doc, sent, seen, due, userStream, scan, edits, overlap, lost, late, budget>>

\* The function dies: the claim stays, the event is not delivered again.
HandlerDies(t) ==
  /\ task[t].do \in {"read", "put"}
  /\ task' = [task EXCEPT ![t] = NoTask] /\ lost' = TRUE
  /\ Spend("dies")
  /\ UNCHANGED <<user, profile, doc, sent, seen, due, userStream, profileStream, scan, edits,
                 overlap, late, behind>>

\* update_own_profile: the fields in the body, the rest of the row as it was read.
UpdateOwnProfile(t) ==
  /\ t = Free
  /\ \E c \in Cities :
       Hold(t, "save", [Stub EXCEPT !.city = c, !.bio = edits + 1])
  /\ edits' = edits + 1
  /\ Spend("edits")
  /\ UNCHANGED <<user, profile, doc, sent, seen, due, userStream, profileStream, scan, lost, late,
                 behind>>

-----------------------------------------------------------------------------
(* The index.  The profile indexer replaces the document by the image, the   *)
(* identity indexer updates the fields of its row in it.                     *)

\* _IDENTITY_FIELDS, doc_as_upsert.
IdentityFields(d, u) == [d EXCEPT !.there = TRUE, !.role = u.role, !.status = u.status, !.city = u.city]

ProfileDocument(p) == p

IndexUser ==
  /\ userStream # <<>>
  /\ doc' = IdentityFields(doc, Head(userStream)) /\ userStream' = Tail(userStream)
  /\ UNCHANGED <<user, profile, sent, seen, due, task, profileStream, scan, ghosts, budget>>

IndexProfile ==
  /\ profileStream # <<>>
  /\ doc' = ProfileDocument(Head(profileStream)) /\ profileStream' = Tail(profileStream)
  /\ UNCHANGED <<user, profile, sent, seen, due, task, userStream, scan, ghosts, budget>>

\* Refused ten times, the batch goes to the dead-letter queue.
GiveUp ==
  /\ \/ /\ userStream # <<>> /\ userStream' = Tail(userStream) /\ UNCHANGED profileStream
        /\ behind' = behind \cup {"users"}
     \/ /\ profileStream # <<>> /\ profileStream' = Tail(profileStream) /\ UNCHANGED userStream
        /\ behind' = behind \cup {"profiles"}
  /\ Spend("given")
  /\ UNCHANGED <<user, profile, doc, sent, seen, due, task, scan, edits, overlap, lost, late>>

\* The nightly reindex of one service: a scan of its table, then one bulk request.
Scan ==
  /\ scan = NoScan /\ profile.there /\ budget.nights > 0
  /\ \/ scan' = [of |-> "users", row |-> user]
     \/ scan' = [of |-> "profiles", row |-> profile]
  /\ budget' = [budget EXCEPT !.nights = @ - 1]
  /\ UNCHANGED <<user, profile, doc, sent, seen, due, task, userStream, profileStream, ghosts>>

reindex_all_users ==
  /\ scan.of = "users"
  /\ doc' = IdentityFields(doc, scan.row) /\ scan' = NoScan
  /\ behind' = IF scan.row = user THEN behind \ {"users"} ELSE behind
  /\ UNCHANGED <<user, profile, sent, seen, due, task, userStream, profileStream,
                 edits, overlap, lost, late, budget>>

reindex_all_members ==
  /\ scan.of = "profiles"
  /\ doc' = ProfileDocument(scan.row) /\ scan' = NoScan
  /\ behind' = IF scan.row = profile THEN behind \ {"profiles"} ELSE behind
  /\ UNCHANGED <<user, profile, sent, seen, due, task, userStream, profileStream,
                 edits, overlap, lost, late, budget>>

-----------------------------------------------------------------------------
Next ==
  \/ ChangeRole \/ SetEnabled \/ EditUser \/ JoinGroup \/ LeaveGroup
  \/ \E t \in Tasks :
       \/ \E n \in due : Deliver(t, n)
       \/ HandlerReads(t) \/ PutProfile(t) \/ HandlerDies(t) \/ UpdateOwnProfile(t)
  \/ DeliverAgain
  \/ IndexUser \/ IndexProfile \/ GiveUp
  \/ Scan \/ reindex_all_users \/ reindex_all_members

Spec == Init /\ [][Next]_vars

-----------------------------------------------------------------------------
TypeOK ==
  /\ user.role \in Roles /\ user.status \in {"active", "inactive"} /\ user.groups \subseteq Groups
  /\ profile.groups \subseteq Groups /\ profile.role \in Roles \cup {Unset}
  /\ (~profile.there => profile = NoProfile) /\ due \cup seen \subseteq DOMAIN sent
  /\ \A t \in Tasks : task[t].event \in {0} \cup seen

Handled == due = {} /\ \A t \in Tasks : task[t] = NoTask
Indexed == userStream = <<>> /\ profileStream = <<>> /\ scan = NoScan

(* Once every event is handled, in order and one at a time, the profile has  *)
(* the role, status and groups of the account; a second delivery changes     *)
(* nothing.                                                                  *)
ProfileFollowsIdentity ==
  Handled /\ ~overlap /\ ~lost /\ ~late =>
    /\ profile.role = user.role /\ profile.status = user.status /\ profile.groups = user.groups

(* What the member wrote himself stays until he writes again: no event of    *)
(* the identity service, early or late, takes it back, unless its handler    *)
(* held a copy from before the edit.                                         *)
OwnEditStands == Handled /\ ~overlap => profile.bio = edits

(* When both streams are drained, and a night has passed since a record was  *)
(* given up or overtaken by a reindex, the directory shows the role and      *)
(* status of the account, in whatever order the two services wrote, and the  *)
(* groups and texts of the profile.                                          *)
DirectoryIsCurrent ==
  Handled /\ Indexed /\ behind = {} /\ ~overlap /\ ~lost /\ ~late =>
    /\ doc.role = user.role /\ doc.status = user.status
    /\ doc.groups = profile.groups /\ doc.bio = profile.bio

=============================================================================
