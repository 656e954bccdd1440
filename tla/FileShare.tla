----------------------------- MODULE FileShare ------------------------------
(***************************************************************************)
(* File-share slots (settings): a leader creates a slot for one key of the *)
(* community bucket, copies upload addresses for it, deactivates it and    *)
(* deletes it with its file; a consumer of the bucket's events keeps the   *)
(* slot's upload state.                                                    *)
(*                                                                         *)
(*   links[l]     the FILESHARE# record; NoLink when there is none         *)
(*   pointer[k]   the FILEKEY# pointer: the slot that owns the key         *)
(*   folders      the FOLDERS registry; a key stands for its folder        *)
(*   object[k]    when the stored object was put, 0 when there is none     *)
(*   minted       keys with an upload address that has not expired         *)
(*   notices      events of the bucket that are still to be delivered      *)
(*   call[c]      the reads and writes a request or delivery has to make   *)
(*   shared       ghost: slots whose deactivation or deletion overlapped   *)
(*                another request for the slot                             *)
(*   excused      ghost: keys whose upload state may be wrong, because a   *)
(*                removal and a put were told in the wrong order, a        *)
(*                deactivation overlapped a delivery, or a delivery died   *)
(*   late         ghost: keys put to with an address that outlived a slot  *)
(***************************************************************************)
EXTENDS Integers, Sequences, FiniteSets, SequencesExt

CONSTANTS Slots, Keys, NoId, Callers, MaxPuts, Budgets

VARIABLES links, pointer, folders, object, minted, notices, clock, call, shared, excused, late, budget

tables == <<links, pointer, folders>>
bucket == <<object, minted, notices, clock>>
ghosts == <<shared, excused, late>>
vars == <<tables, bucket, call, ghosts, budget>>

NoLink == [key |-> NoId, revoked |-> FALSE, uploaded |-> FALSE, at |-> 0]

\* When the files were put that are older than any slot.
Legacy == 1

Init ==
  /\ links = [l \in Slots |-> NoLink] /\ pointer = [k \in Keys |-> NoId] /\ folders = {}
  /\ object \in [Keys -> {0, Legacy}] /\ minted = {} /\ notices = {} /\ clock = Legacy
  /\ call = [c \in Callers |-> <<>>]
  /\ shared = {} /\ excused = {} /\ late = {} /\ budget \in Budgets

-----------------------------------------------------------------------------
(* A handler's program, and its steps.                                       *)
Op(do, l, k) == [do |-> do, link |-> l, key |-> k, at |-> 0, row |-> NoLink]
Does(c, what) == call[c] # <<>> /\ Head(call[c]).do = what
Now(c) == Head(call[c])
Goes(c, ops) == call' = [call EXCEPT ![c] = ops]
Go(c) == Goes(c, Tail(call[c]))
Idle(c) == call[c] = <<>>
Pending == UNION {ToSet(call[c]) : c \in Callers}
Telling(k) == {op \in Pending : op.key = k /\ op.do \in {"created", "deleted", "set", "clear"}}
Changing(l) == {op \in Pending : op.link = l /\ op.do \in {"put", "deleteObject", "deleteLink", "release"}}

-----------------------------------------------------------------------------
(* Requests.                                                                 *)
Fresh(l) == /\ links[l] = NoLink /\ \A k \in Keys : pointer[k] # l
            /\ \A op \in Pending : op.link # l

\* create_link, with an id of its own.
CreateLink(c, l, k) ==
  /\ Idle(c) /\ Fresh(l) /\ budget.creates > 0 /\ budget' = [budget EXCEPT !.creates = @ - 1]
  /\ Goes(c, <<Op("claim", l, k), Op("head", l, k), Op("create", l, k), Op("folder", l, k)>>)
  /\ UNCHANGED <<tables, bucket, ghosts>>

\* put_file_key_pointer: a conditional put, and a conflict when it fails.
Claim(c) ==
  /\ Does(c, "claim")
  /\ IF pointer[Now(c).key] = NoId
     THEN pointer' = [pointer EXCEPT ![Now(c).key] = Now(c).link] /\ Go(c)
     ELSE Goes(c, <<>>) /\ UNCHANGED pointer
  /\ UNCHANGED <<links, folders, bucket, ghosts, budget>>

\* object_exists: an object older than the slot gives the claim back.
HeadObject(c) ==
  /\ Does(c, "head")
  /\ IF object[Now(c).key] # 0 THEN Goes(c, <<Op("release", Now(c).link, Now(c).key)>>) ELSE Go(c)
  /\ UNCHANGED <<tables, bucket, ghosts, budget>>

PutNew(c) ==
  /\ Does(c, "create") /\ links' = [links EXCEPT ![Now(c).link] = [NoLink EXCEPT !.key = Now(c).key]]
  /\ Go(c) /\ UNCHANGED <<pointer, folders, bucket, ghosts, budget>>
AddFolder(c) ==
  /\ Does(c, "folder") /\ folders' = folders \cup {Now(c).key}
  /\ Go(c) /\ UNCHANGED <<links, pointer, bucket, ghosts, budget>>

\* delete_file_key_pointer: whoever has the key.
Release(c) ==
  /\ Does(c, "release") /\ pointer' = [pointer EXCEPT ![Now(c).key] = NoId]
  /\ Go(c) /\ UNCHANGED <<links, folders, bucket, ghosts, budget>>

\* get_upload_url: of a slot that is not deactivated.
GetUploadUrl(c, l) ==
  /\ Idle(c) /\ links[l] # NoLink /\ ~links[l].revoked /\ links[l].key \notin minted
  /\ minted' = minted \cup {links[l].key}
  /\ UNCHANGED <<tables, object, notices, clock, call, ghosts, budget>>

\* A change of a slot begins with a read of its record (_load_owned).
Begin(c, l, ops) ==
  /\ Idle(c) /\ links[l] # NoLink /\ budget.changes > 0
  /\ Goes(c, ops)
  /\ shared' = IF Changing(l) # {} THEN shared \cup {l} ELSE shared
  /\ budget' = [budget EXCEPT !.changes = @ - 1]
  /\ UNCHANGED <<tables, bucket, late>>

\* revoke_link: the record read is put back, deactivated.
RevokeLink(c, l) ==
  /\ Begin(c, l, <<[Op("put", l, links[l].key) EXCEPT !.row = [links[l] EXCEPT !.revoked = TRUE]]>>)
  /\ excused' = IF Telling(links[l].key) # {} THEN excused \cup {links[l].key} ELSE excused
PutRevoked(c) ==
  /\ Does(c, "put") /\ links' = [links EXCEPT ![Now(c).link] = Now(c).row]
  /\ Go(c) /\ UNCHANGED <<pointer, folders, bucket, ghosts, budget>>

\* Mutant: the record goes first.
LinkFirst(l, k) == <<Op("deleteLink", l, k), Op("release", l, k), Op("deleteObject", l, k)>>

\* delete_link: the object, the record, and the pointer last.
DeleteOps(l, k) == <<Op("deleteObject", l, k), Op("deleteLink", l, k), Op("release", l, k)>>
DeleteLink(c, l) == Begin(c, l, DeleteOps(l, links[l].key)) /\ UNCHANGED excused

DeleteLinkRow(c) ==
  /\ Does(c, "deleteLink") /\ links' = [links EXCEPT ![Now(c).link] = NoLink]
  /\ Go(c) /\ UNCHANGED <<pointer, folders, bucket, ghosts, budget>>

-----------------------------------------------------------------------------
(* The bucket.                                                               *)
Tell(k, kind) ==
  /\ notices' = notices \cup {[Op(kind, NoId, k) EXCEPT !.at = clock + 1]}
  /\ clock' = clock + 1

Erase(k) ==
  /\ object' = [object EXCEPT ![k] = 0]
  /\ IF object[k] # 0 THEN Tell(k, "deleted") ELSE UNCHANGED <<notices, clock>>

DeleteObject(c) ==
  /\ Does(c, "deleteObject") /\ Erase(Now(c).key)
  /\ Go(c) /\ UNCHANGED <<tables, minted, ghosts, budget>>

\* S3 rejects it: the request fails, and nothing else of it happens.
DeleteObjectFails(c) ==
  /\ Does(c, "deleteObject") /\ budget.faults > 0 /\ budget' = [budget EXCEPT !.faults = @ - 1]
  /\ Goes(c, <<>>) /\ UNCHANGED <<tables, bucket, ghosts>>

\* The slot whose address was copied still stands.
Owned(k) == \E l \in Slots : links[l].key = k /\ \A op \in Changing(l) : op.do = "put"

\* A file is put with an address, until an hour after it was copied.
PutObject(k) ==
  /\ k \in minted /\ clock < MaxPuts
  /\ object' = [object EXCEPT ![k] = clock + 1] /\ Tell(k, "created")
  /\ late' = IF Owned(k) THEN late ELSE late \cup {k}
  /\ UNCHANGED <<tables, minted, call, shared, excused, budget>>
Expire(k) ==
  /\ k \in minted /\ minted' = minted \ {k}
  /\ UNCHANGED <<tables, object, notices, clock, call, ghosts, budget>>

\* An object is removed from the console.
RemoveObject(k) ==
  /\ object[k] # 0 /\ clock < MaxPuts /\ Erase(k)
  /\ UNCHANGED <<tables, minted, call, ghosts, budget>>

-----------------------------------------------------------------------------
(* The consumer.                                                             *)
\* An event is claimed (run_once) before it is applied: delivered once, in any
\* order.
Overtakes(n) ==
  \/ Telling(n.key) # {}
  \/ \E m \in notices : m.key = n.key /\ m.at < n.at /\ "deleted" \in {m.do, n.do}
Deliver(c, n) ==
  /\ Idle(c) /\ n \in notices /\ notices' = notices \ {n} /\ Goes(c, <<n>>)
  /\ excused' = IF Overtakes(n) \/ \E op \in Pending : op.key = n.key /\ op.do = "put"
                THEN excused \cup {n.key} ELSE excused
  /\ UNCHANGED <<tables, object, minted, clock, shared, late, budget>>

\* _on_created drops what is older than the stored uploadedAt.
NotStale(l, at) == ~(links[l].at # 0 /\ at < links[l].at)

\* The pointer's slot is read; a key nobody owns is ignored.
Lookup(c) ==
  /\ Does(c, "created") \/ Does(c, "deleted")
  /\ LET n == Now(c)
         l == pointer[n.key]
     IN  Goes(c, IF l = NoId \/ (n.do = "created" /\ ~NotStale(l, n.at)) THEN <<>>
                 ELSE <<[n EXCEPT !.link = l, !.do = IF @ = "created" THEN "set" ELSE "clear"]>>)
  /\ UNCHANGED <<tables, bucket, ghosts, budget>>

\* set_upload_state and clear_upload_state, if the record is there.
UploadState(l, up, at) ==
  links' = IF links[l] = NoLink THEN links ELSE [links EXCEPT ![l].uploaded = up, ![l].at = at]
SetUploadState(c) ==
  /\ Does(c, "set") /\ UploadState(Now(c).link, TRUE, Now(c).at)
  /\ Go(c) /\ UNCHANGED <<pointer, folders, bucket, ghosts, budget>>
ClearUploadState(c) ==
  /\ Does(c, "clear") /\ UploadState(Now(c).link, FALSE, 0)
  /\ Go(c) /\ UNCHANGED <<pointer, folders, bucket, ghosts, budget>>

\* A process dies between two of its steps.
Crash(c) ==
  /\ ~Idle(c) /\ budget.faults > 0 /\ budget' = [budget EXCEPT !.faults = @ - 1]
  /\ excused' = IF Now(c) \in Telling(Now(c).key) THEN excused \cup {Now(c).key} ELSE excused
  /\ Goes(c, <<>>) /\ UNCHANGED <<tables, bucket, shared, late>>

Step(c) ==
  \/ Claim(c) \/ HeadObject(c) \/ PutNew(c) \/ AddFolder(c) \/ Release(c) \/ PutRevoked(c)
  \/ DeleteObject(c) \/ DeleteObjectFails(c) \/ DeleteLinkRow(c)
  \/ Lookup(c) \/ SetUploadState(c) \/ ClearUploadState(c) \/ Crash(c)
Next ==
  \/ \E c \in Callers : \/ Step(c)
                        \/ \E n \in notices : Deliver(c, n)
                        \/ \E l \in Slots : \/ GetUploadUrl(c, l) \/ RevokeLink(c, l) \/ DeleteLink(c, l)
                                            \/ \E k \in Keys : CreateLink(c, l, k)
  \/ \E k \in Keys : PutObject(k) \/ Expire(k) \/ RemoveObject(k)

Spec == Init /\ [][Next]_vars

-----------------------------------------------------------------------------
TypeOK ==
  /\ links \in [Slots -> [key : Keys \cup {NoId}, revoked : BOOLEAN, uploaded : BOOLEAN, at : 0..MaxPuts]]
  /\ \A l \in Slots : links[l] # NoLink => links[l].key \in Keys
  /\ pointer \in [Keys -> Slots \cup {NoId}] /\ folders \subseteq Keys
  /\ object \in [Keys -> 0..MaxPuts] /\ minted \subseteq Keys /\ clock \in 0..(MaxPuts + 1)

\* One file has one slot: the key of a slot is held by its pointer as long as
\* the record is there, so that no second slot has it (put_file_key_pointer,
\* delete_link), whatever dies, unless two requests for a slot overlapped.
NameIsHeld ==
  shared = {} => \A l \in Slots : links[l] # NoLink => pointer[links[l].key] = l

\* A stored file has a slot that holds its name (delete_object before
\* delete_file_share_link, object_exists), unless it was put with an address
\* that outlived its slot.
NoFileIsOrphaned ==
  shared = {} => \A k \in Keys \ late : object[k] > Legacy => \E l \in Slots : links[l].key = k

\* Once its events are delivered, a slot shows whether its file is there, and
\* the newest put (_on_created), in whatever order puts were told.
UploadStateIsTrue ==
  \A l \in Slots :
    LET k == links[l].key IN
    links[l] # NoLink /\ shared = {} /\ k \notin excused \cup late /\ Changing(l) = {}
      /\ Telling(k) = {} /\ (\A n \in notices : n.key # k)
      /\ object[k] # Legacy
      => links[l].uploaded = (object[k] # 0) /\ links[l].at = object[k]
=============================================================================
