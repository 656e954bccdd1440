------------------------------ MODULE Library ------------------------------
(***************************************************************************)
(* The materials of an event and the Content Library.  A leader reserves a *)
(* material and its browser puts the file to the object store, or hands an *)
(* upload slot to someone outside; the store and its malware scanner tell  *)
(* of each object in any order; what is clean enters the library when the  *)
(* event is completed or afterwards.  Approved contributions and curators  *)
(* add to the library too.                                                 *)
(*                                                                         *)
(* A handler is a program: call[c] holds the reads and writes that c's     *)
(* request or delivery still has to make, one item of the tables each.     *)
(*                                                                         *)
(*   event          its status                                             *)
(*   materials[m]   the MAT# row; kind "none": absent                      *)
(*   slots[l]       the UL# row                                            *)
(*   library[r]     the RESOURCE# row: of, the material, slot or           *)
(*                  contribution it came from, and the key it offers       *)
(*   tags           TAGS#ALL                                               *)
(*   objects[k]     what is stored under a key: a name of the event, or    *)
(*                  the resource of a curator's upload                     *)
(*   minted, puts   keys with an upload address, objects put under them    *)
(*   notices        of the store and the scanner, still to be delivered    *)
(*   excused        ghost: what a curator removed from the library, what   *)
(*                  was replaced, or put under a name already in use       *)
(*   stale          the event was completed under a request that had read  *)
(*                  it before                                              *)
(***************************************************************************)
EXTENDS Integers, Sequences, FiniteSets, SequencesExt

CONSTANTS Names, Materials, Slots, Resources, Contributions, Tags, NoId, Callers,
          MaxPuts, Budgets

VARIABLES event, materials, slots, library, tags, objects, minted, puts, notices,
          excused, stale, call, budget, overlap

tables == <<event, materials, slots, library, tags>>
store == <<objects, minted, puts, notices>>
vars == <<tables, store, excused, stale, call, budget, overlap>>

Keys == Names \cup Resources
Scans == {"PendingScan", "Clean", "Quarantined"}
NoMaterial == [id |-> NoId, name |-> NoId, kind |-> "none", key |-> NoId,
               scan |-> "PendingScan", uploaded |-> FALSE]
NoSlot == [name |-> NoId, revoked |-> FALSE, uploaded |-> FALSE, scan |-> "PendingScan"]
NoResource == [of |-> NoId, source |-> "none", scan |-> "Clean", key |-> NoId, topics |-> {}]

Init ==
  /\ event = "Upcoming"
  /\ materials = [m \in Materials |-> NoMaterial]
  /\ slots = [l \in Slots |-> NoSlot]
  /\ library = [r \in Resources |-> NoResource] /\ tags = {}
  /\ objects = [k \in Keys |-> "none"] /\ minted = {} /\ puts = [k \in Keys |-> 0]
  /\ notices = {}
  /\ excused = {} /\ stale = FALSE
  /\ call = [c \in Callers |-> <<>>] /\ budget \in Budgets /\ overlap = FALSE

Stored == {m \in Materials : materials[m] # NoMaterial}
Named(n) == {m \in Stored : materials[m].name = n}
Open == {l \in Slots : slots[l] # NoSlot}
Pending == UNION {ToSet(call[c]) : c \in Callers}

\* new_id: of no row, and of none that a handler is about to put.
Unused(s, used) ==
  CHOOSE x \in s \cup {NoId} : x \notin used /\ (x = NoId => s \subseteq used)
NewMaterial ==
  Unused(Materials, Stored \cup {op.row.id : op \in {o \in Pending : o.do = "putMaterial"}})
NewResource ==
  Unused(Resources, {r \in Resources : library[r] # NoResource}
                    \cup {op.res : op \in {o \in Pending : o.do = "putResource"}})

-----------------------------------------------------------------------------
(* Operations that a handler has still to make. *)

PutMaterial(row) == [do |-> "putMaterial", row |-> row]
SetUploaded(m) == [do |-> "setUploaded", mat |-> m]
Fresh(row, status) == [do |-> "fresh", row |-> row, status |-> status]
Promote(row) == [do |-> "promote", row |-> row]
CheckEvent(m) == [do |-> "checkEvent", mat |-> m]
PutResource(r, row) == [do |-> "putResource", res |-> r, row |-> row]
AddTags(ts) == [do |-> "addTags", tags |-> ts]

\* _qualifies_for_library
Qualifies(row) == row.scan = "Clean" /\ (row.kind = "link" \/ row.uploaded)

\* _maybe_promote_to_library, with the event as the request read it.
MaybePromote(status, row) == IF status = "Completed" THEN << Promote(row) >> ELSE <<>>

\* A slot's file in the form of a material, keyed by the slot.
SlotAsMaterial(l, row) ==
  [id |-> l, name |-> row.name, kind |-> "file", key |-> row.name, scan |-> "Clean",
   uploaded |-> TRUE]

\* promote_external_upload
PromoteSlot(l, row) ==
  IF row.uploaded /\ ~row.revoked THEN << Promote(SlotAsMaterial(l, row)) >> ELSE <<>>

\* put_resource of a new row: an id of its own.
ResourceOf(row) ==
  [of |-> row.id, source |-> "event-material", scan |-> "Clean", key |-> row.key, topics |-> {}]

Does(c, what) == call[c] # <<>> /\ Head(call[c]).do = what
Continue(c, ops) ==
  call' = [call EXCEPT ![c] = ops \o Tail(@)] /\ UNCHANGED <<excused, stale, budget, overlap>>
Fail(c) == call' = [call EXCEPT ![c] = <<>>] /\ UNCHANGED <<excused, stale, budget, overlap>>

-----------------------------------------------------------------------------
(* The steps. *)

WriteMaterial(c) ==
  /\ Does(c, "putMaterial")
  /\ LET row == Head(call[c]).row IN materials' = [materials EXCEPT ![row.id] = row]
  /\ Continue(c, <<>>)
  /\ UNCHANGED <<event, slots, library, tags, store>>

\* The conditional updates of a material: an absent row raises.
UpdateMaterial(c, what, change(_, _)) ==
  /\ Does(c, what)
  /\ LET op == Head(call[c])
     IN  IF op.mat \in Stored
         THEN /\ materials' = [materials EXCEPT ![op.mat] = change(@, op)]
              /\ Continue(c, <<>>)
         ELSE Fail(c) /\ UNCHANGED materials
  /\ UNCHANGED <<event, slots, library, tags, store>>

SetUploadState(c) ==
  UpdateMaterial(c, "setUploaded", LAMBDA row, op : [row EXCEPT !.uploaded = TRUE])

ClearUploadState(c) ==
  UpdateMaterial(c, "clearUploaded", LAMBDA row, op : [row EXCEPT !.uploaded = FALSE])

SetScanState(c) ==
  UpdateMaterial(c, "setScan", LAMBDA row, op : [row EXCEPT !.scan = op.scan])

DeleteMaterial(c) ==
  /\ Does(c, "deleteMaterial")
  /\ materials' = [materials EXCEPT ![Head(call[c]).mat] = NoMaterial]
  /\ Continue(c, <<>>)
  /\ UNCHANGED <<event, slots, library, tags, store>>

\* The row as it is now, or the one the request read; then the promotion.
ReadFresh(c) ==
  /\ Does(c, "fresh")
  /\ LET op == Head(call[c])
         m == op.row.id
     IN  Continue(c, MaybePromote(op.status, IF m \in Stored THEN materials[m] ELSE op.row))
  /\ UNCHANGED <<tables, store>>

\* Mutant: the consumer forgets that the event may be completed.
CheckNoEvent(c) ==
  /\ Does(c, "checkEvent")
  /\ Continue(c, <<>>)
  /\ UNCHANGED <<tables, store>>

\* A consumer that has changed a material looks at the event, then at the material.
CheckEventThenMaterial(c) ==
  /\ Does(c, "checkEvent")
  /\ Continue(c, IF event = "Completed"
                 THEN << [do |-> "freshMaterial", mat |-> Head(call[c]).mat] >> ELSE <<>>)
  /\ UNCHANGED <<tables, store>>

ReadMaterial(c) ==
  /\ Does(c, "freshMaterial")
  /\ LET m == Head(call[c]).mat
     IN  Continue(c, IF m \in Stored THEN << Promote(materials[m]) >> ELSE <<>>)
  /\ UNCHANGED <<tables, store>>

\* promote_single_material: only a source that has no resource yet.
PromoteSingle(c) ==
  /\ Does(c, "promote")
  /\ LET row == Head(call[c]).row
     IN  Continue(c, IF Qualifies(row) /\ \A r \in Resources : library[r].of # row.id
                     THEN << [do |-> "create", row |-> row] >> ELSE <<>>)
  /\ UNCHANGED <<tables, store>>

\* _create_from_material
CreateFromMaterial(c) ==
  /\ Does(c, "create")
  /\ LET r == NewResource
     IN  r # NoId /\ library' = [library EXCEPT ![r] = ResourceOf(Head(call[c]).row)]
  /\ Continue(c, <<>>)
  /\ UNCHANGED <<event, materials, slots, tags, store>>

\* promote_event_materials: the materials as they are now, then the slots.
PromoteMaterials(c) ==
  /\ Does(c, "promoteMaterials")
  /\ LET rows == {materials[m] : m \in {x \in Stored : Qualifies(materials[x])}}
     IN  Continue(c, [i \in 1..Cardinality(rows) |->
                        [do |-> "create", row |-> SetToSeq(rows)[i]]])
  /\ UNCHANGED <<tables, store>>

PromoteSlots(c) ==
  /\ Does(c, "promoteSlots")
  /\ Continue(c, FlattenSeq([i \in 1..Cardinality(Open) |->
       LET l == SetToSeq(Open)[i]
       IN  IF slots[l].scan = "Clean" THEN PromoteSlot(l, slots[l]) ELSE <<>>]))
  /\ UNCHANGED <<tables, store>>

\* put_event, of an event that was read Upcoming.
WriteEvent(c) ==
  /\ Does(c, "putEvent")
  /\ event' = Head(call[c]).status
  /\ stale' = (stale \/ \E d \in Callers : \E i \in DOMAIN call[d] :
                          d # c /\ call[d][i].do \in {"fresh", "putMaterial", "putEvent"})
  /\ call' = [call EXCEPT ![c] = Tail(@)]
  /\ UNCHANGED <<materials, slots, library, tags, store, excused, budget, overlap>>

\* delete_by_material_id: what the index lists now.
DropResources(c) ==
  /\ Does(c, "drop")
  /\ LET rs == {r \in Resources : library[r].of = Head(call[c]).mat}
     IN  Continue(c, [i \in 1..Cardinality(rs) |->
                        [do |-> "deleteResource", res |-> SetToSeq(rs)[i]]])
  /\ UNCHANGED <<tables, store>>

DeleteResource(c) ==
  /\ Does(c, "deleteResource")
  /\ library' = [library EXCEPT ![Head(call[c]).res] = NoResource]
  /\ Continue(c, <<>>)
  /\ UNCHANGED <<event, materials, slots, tags, store>>

\* delete_object: the store tells of it.
DeleteObject(c) ==
  /\ Does(c, "deleteObject")
  /\ LET k == Head(call[c]).key
     IN  /\ objects' = [objects EXCEPT ![k] = "none"]
         /\ notices' = IF objects[k] = "none" THEN notices
                       ELSE notices \cup {[kind |-> "deleted", key |-> k, good |-> TRUE]}
  /\ Continue(c, <<>>)
  /\ UNCHANGED <<tables, minted, puts>>

\* The conditional updates of a slot, and its deletion.
UpdateSlot(c, what, change(_, _)) ==
  /\ Does(c, what)
  /\ LET op == Head(call[c])
     IN  IF slots[op.slot] # NoSlot
         THEN /\ slots' = [slots EXCEPT ![op.slot] = change(@, op)]
              /\ Continue(c, <<>>)
         ELSE Fail(c) /\ UNCHANGED slots
  /\ UNCHANGED <<event, materials, library, tags, store>>

SetSlotUploaded(c) ==
  UpdateSlot(c, "slotUploaded", LAMBDA row, op : [row EXCEPT !.uploaded = TRUE])

SetSlotRevoked(c) ==
  UpdateSlot(c, "slotRevoked", LAMBDA row, op : [row EXCEPT !.revoked = TRUE])

SetSlotScanState(c) ==
  UpdateSlot(c, "slotScan", LAMBDA row, op : [row EXCEPT !.scan = op.scan])

PutSlot(c) ==
  /\ Does(c, "putSlot")
  /\ LET op == Head(call[c]) IN slots' = [slots EXCEPT ![op.slot] = op.row]
  /\ Continue(c, <<>>)
  /\ UNCHANGED <<event, materials, library, tags, store>>

\* The verdict on a slot's file: the slot as it was found, with the event as it is now.
CheckEventForSlot(c) ==
  /\ Does(c, "checkSlot")
  /\ LET op == Head(call[c])
     IN  Continue(c, IF event = "Completed" THEN PromoteSlot(op.slot, op.row) ELSE <<>>)
  /\ UNCHANGED <<tables, store>>

WriteResource(c) ==
  /\ Does(c, "putResource")
  /\ LET op == Head(call[c]) IN library' = [library EXCEPT ![op.res] = op.row]
  /\ Continue(c, <<>>)
  /\ UNCHANGED <<event, materials, slots, tags, store>>

\* The answer carries an upload address.
Mint(c) ==
  /\ Does(c, "mint")
  /\ minted' = minted \cup {Head(call[c]).key}
  /\ Continue(c, <<>>)
  /\ UNCHANGED <<tables, objects, puts, notices>>

WriteTags(c) ==
  /\ Does(c, "addTags")
  /\ tags' = tags \cup Head(call[c]).tags
  /\ Continue(c, <<>>)
  /\ UNCHANGED <<event, materials, slots, library, store>>

-----------------------------------------------------------------------------
(* The handlers. *)

Idle(c) == call[c] = <<>>

Run(c, ops, request) ==
  /\ Idle(c)
  /\ LET beside == IF \A d \in Callers : Idle(d) THEN 0 ELSE 1
     IN  /\ budget.request >= request /\ budget.beside >= beside
         /\ budget' = [budget EXCEPT !.request = @ - request, !.beside = @ - beside]
         /\ overlap' = (overlap \/ beside = 1)
  /\ call' = [call EXCEPT ![c] = ops]
  /\ UNCHANGED <<tables, stale>>

Start(c, ops) == Run(c, ops, 1) /\ UNCHANGED <<store, excused>>
Manageable == event # "Cancelled"

\* upload_url: the row is reserved before the browser may put, a row that waits is reused.
UploadUrl(c, n) ==
  LET m == NewMaterial
      row == [id |-> m, name |-> n, kind |-> "file", key |-> n, scan |-> "PendingScan",
              uploaded |-> FALSE]
      mint == << [do |-> "mint", key |-> n] >>
  IN  /\ Manageable
      /\ \A x \in Named(n) : materials[x].kind = "file" /\ ~materials[x].uploaded
      /\ \/ Named(n) # {} /\ Run(c, mint, 1)
         \/ Named(n) = {} /\ m # NoId /\ Run(c, << PutMaterial(row) >> \o mint, 1)
      /\ excused' = IF objects[n] = "none" THEN excused ELSE excused \cup {m}
      /\ UNCHANGED store

\* add, create path: a link, or a file that was never reserved.
AddMaterial(c, n, kind) ==
  LET m == NewMaterial
      row == [id |-> m, name |-> n, kind |-> kind,
              key |-> IF kind = "file" THEN n ELSE NoId,
              scan |-> IF kind = "file" THEN "PendingScan" ELSE "Clean",
              uploaded |-> kind = "link" \/ objects[n] # "none"]
  IN  /\ Manageable /\ Named(n) = {} /\ m # NoId
      /\ Run(c, << PutMaterial(row) >> \o MaybePromote(event, row), 1)
      /\ excused' = IF kind = "file" THEN excused \cup {m} ELSE excused
      /\ UNCHANGED store

\* add, confirm path: what the store holds is stamped, the verdict is left alone.
ConfirmUpload(c, m) ==
  /\ Manageable /\ m \in Stored /\ materials[m].kind = "file"
  /\ Start(c, (IF ~materials[m].uploaded /\ objects[materials[m].key] # "none"
               THEN << SetUploaded(m) >> ELSE <<>>) \o << Fresh(materials[m], event) >>)

\* replace: the row as it was read, pending again when there is a new file.
ReplaceMaterial(c, m, n, newFile) ==
  LET row == materials[m]
      there == objects[row.name] # "none"
  IN  /\ Manageable /\ m \in Stored
      /\ n # row.name => Named(n) = {}
      /\ LET new == IF newFile THEN [row EXCEPT !.name = n, !.key = row.name,
                                                !.scan = "PendingScan", !.uploaded = there]
                    ELSE [row EXCEPT !.name = n]
         IN  Run(c, << PutMaterial(new) >> \o MaybePromote(event, new), 1)
      /\ excused' = IF newFile THEN excused \cup {m} ELSE excused
      /\ UNCHANGED store

\* remove: the object first, then the row, then the resource.
RemoveMaterial(c, m) ==
  /\ Manageable /\ m \in Stored
  /\ Start(c, (IF materials[m].kind = "file" /\ materials[m].key # NoId
               THEN << [do |-> "deleteObject", key |-> materials[m].key] >> ELSE <<>>)
              \o << [do |-> "deleteMaterial", mat |-> m], [do |-> "drop", mat |-> m] >>)

CreateSlot(c, n) ==
  /\ Named(n) = {} /\ \A l \in Open : slots[l].name = n => slots[l].revoked
  /\ \E l \in Slots \ Open :
       Start(c, << [do |-> "putSlot", slot |-> l, row |-> [NoSlot EXCEPT !.name = n]] >>)

\* get_upload_url
SlotUploadUrl(c, l) ==
  /\ l \in Open /\ ~slots[l].revoked
  /\ Start(c, << [do |-> "mint", key |-> slots[l].name] >>)

DeleteSlot(c, l) ==
  /\ l \in Open
  /\ Start(c, << [do |-> "deleteObject", key |-> slots[l].name],
                 [do |-> "putSlot", slot |-> l, row |-> NoSlot] >>)

RevokeSlot(c, l) == l \in Open /\ Start(c, << [do |-> "slotRevoked", slot |-> l] >>)

\* complete_internal
Complete(c) ==
  /\ event = "Upcoming"
  /\ Start(c, << [do |-> "putEvent", status |-> "Completed"], [do |-> "promoteMaterials"], [do |-> "promoteSlots"] >>)

Cancel(c) == event = "Upcoming" /\ Start(c, << [do |-> "putEvent", status |-> "Cancelled"] >>)

\* _handle_upload: the first slot of the list, for every slot has the folder for a prefix.
FirstSlot(k) == CHOOSE l \in Open : TRUE

\* The consumer of the store's notices: the material that owns the key, else a slot.
ObjectNotice(c, note) ==
  LET owners == {m \in Stored : materials[m].key = note.key}
      m == CHOOSE x \in owners : TRUE
  IN  /\ note \in notices /\ note.kind \in {"created", "deleted"}
      /\ Run(c, CASE owners # {} /\ note.kind = "deleted" ->
                       << [do |-> "clearUploaded", mat |-> m] >>
                  [] owners # {} /\ note.kind = "created" -> << SetUploaded(m), CheckEvent(m) >>
                  [] owners = {} /\ Open # {} /\ note.kind = "created" ->
                       << [do |-> "slotUploaded", slot |-> FirstSlot(note.key)] >>
                  [] OTHER -> <<>>, 0)
      /\ notices' = notices \ {note}
      /\ UNCHANGED <<objects, minted, puts, excused>>

\* The scanner's verdict as the portal keeps it.
ScanState(good) == IF good THEN "Clean" ELSE "Quarantined"

\* The consumer of verdicts on the event's objects.
EventVerdict(c, note) ==
  LET owners == {m \in Stored : materials[m].key = note.key}
      m == CHOOSE x \in owners : TRUE
      links == {l \in Open : slots[l].name = note.key}
      l == CHOOSE x \in links : TRUE
      scan == ScanState(note.good)
  IN  /\ note \in notices /\ note.kind = "verdict" /\ note.key \in Names
      /\ Run(c, CASE owners # {} ->
                       << [do |-> "setScan", mat |-> m, scan |-> scan] >>
                       \o (IF note.good THEN << CheckEvent(m) >> ELSE <<>>)
                  [] owners = {} /\ links # {} ->
                       << [do |-> "slotScan", slot |-> l, scan |-> scan] >>
                       \o (IF note.good
                           THEN << [do |-> "checkSlot", slot |-> l, row |-> slots[l]] >>
                           ELSE <<>>)
                  [] OTHER -> <<>>, 0)
      /\ notices' = notices \ {note}
      /\ UNCHANGED <<objects, minted, puts, excused>>

\* The verdict on a curator's upload: the resource is read and put back with its state.
LibraryVerdict(c, note) ==
  LET r == note.key
      scan == ScanState(note.good)
  IN  /\ note \in notices /\ note.kind = "verdict" /\ r \in Resources
      /\ Run(c, IF library[r] = NoResource THEN <<>>
                ELSE << PutResource(r, [library[r] EXCEPT !.scan = scan]) >>, 0)
      /\ notices' = notices \ {note}
      /\ UNCHANGED <<objects, minted, puts, excused>>

\* ContributionApproved with addToLibrary, delivered perhaps more than once.
AddFromContribution(c, x, link, ts) ==
  /\ \A r \in Resources : library[r].of # x
  /\ NewResource # NoId
  /\ Start(c, << PutResource(NewResource,
                   [of |-> x, source |-> "member-contribution", key |-> NoId, topics |-> ts,
                    scan |-> IF link THEN "Clean" ELSE "PendingScan"]), AddTags(ts) >>)

\* add, by a curator: a link, or a file with an upload address of its own.
AddResource(c, link, ts) ==
  LET r == NewResource
  IN  /\ r # NoId
      /\ Start(c, << PutResource(r, [of |-> NoId, source |-> "curator-direct",
                                     key |-> IF link THEN NoId ELSE r, topics |-> ts,
                                     scan |-> IF link THEN "Clean" ELSE "PendingScan"]),
                     AddTags(ts) >>
                  \o (IF link THEN <<>> ELSE << [do |-> "mint", key |-> r] >>))

\* edit: the row as it was read, with the new fields.
EditResource(c, r, ts) ==
  /\ library[r] # NoResource
  /\ Start(c, << PutResource(r, [library[r] EXCEPT !.topics = ts]), AddTags(ts) >>)

RemoveResource(c, r) ==
  /\ library[r] # NoResource
  /\ Run(c, << [do |-> "deleteResource", res |-> r] >>, 1)
  /\ excused' = excused \cup {library[r].of}
  /\ UNCHANGED store

-----------------------------------------------------------------------------
\* Someone who has the address puts an object; the store and the scanner tell of it.
PutObject(k, good) ==
  /\ k \in minted /\ puts[k] < MaxPuts
  /\ objects' = [objects EXCEPT ![k] = IF good THEN "good" ELSE "bad"]
  /\ puts' = [puts EXCEPT ![k] = @ + 1]
  /\ notices' = notices \cup {[kind |-> "verdict", key |-> k, good |-> good]}
                  \cup (IF k \in Names THEN {[kind |-> "created", key |-> k, good |-> TRUE]} ELSE {})
  /\ UNCHANGED <<tables, minted, excused, stale, call, budget, overlap>>

Crash(c) ==
  /\ ~Idle(c) /\ budget.crash > 0
  /\ budget' = [budget EXCEPT !.crash = @ - 1, !.died = @ + 1]
  /\ call' = [call EXCEPT ![c] = <<>>]
  /\ UNCHANGED <<tables, store, excused, stale, overlap>>

Manage(c) ==
  \/ \E n \in Names : UploadUrl(c, n) \/ CreateSlot(c, n)
                      \/ \E kind \in {"link", "file"} : AddMaterial(c, n, kind)
  \/ \E m \in Materials : ConfirmUpload(c, m) \/ RemoveMaterial(c, m)
                      \/ \E n \in Names, newFile \in BOOLEAN : ReplaceMaterial(c, m, n, newFile)
  \/ \E l \in Slots : SlotUploadUrl(c, l) \/ DeleteSlot(c, l) \/ RevokeSlot(c, l)
  \/ Complete(c) \/ Cancel(c)

Curate(c) ==
  \E ts \in SUBSET Tags :
    \/ \E link \in BOOLEAN : \/ AddResource(c, link, ts)
                             \/ \E x \in Contributions : AddFromContribution(c, x, link, ts)
    \/ \E r \in Resources : EditResource(c, r, ts) \/ (ts = {} /\ RemoveResource(c, r))

Consume(c) ==
  \E note \in notices : ObjectNotice(c, note) \/ EventVerdict(c, note) \/ LibraryVerdict(c, note)

Step(c) ==
  \/ WriteMaterial(c) \/ SetUploadState(c) \/ ClearUploadState(c) \/ SetScanState(c)
  \/ DeleteMaterial(c) \/ ReadFresh(c) \/ CheckEventThenMaterial(c) \/ ReadMaterial(c)
  \/ PromoteSingle(c) \/ CreateFromMaterial(c) \/ PromoteMaterials(c) \/ PromoteSlots(c)
  \/ WriteEvent(c) \/ DropResources(c) \/ DeleteResource(c) \/ DeleteObject(c)
  \/ SetSlotUploaded(c) \/ SetSlotRevoked(c) \/ SetSlotScanState(c) \/ PutSlot(c)
  \/ CheckEventForSlot(c) \/ WriteResource(c) \/ WriteTags(c) \/ Mint(c)

Next ==
  \/ \E c \in Callers : Manage(c) \/ Curate(c) \/ Consume(c) \/ Step(c) \/ Crash(c)
  \/ \E k \in Keys, good \in BOOLEAN : PutObject(k, good)

Spec == Init /\ [][Next]_vars

-----------------------------------------------------------------------------
(* Properties. *)

Quiet == notices = {} /\ \A c \in Callers : Idle(c)
InLibrary(x) == \E r \in Resources : library[r].of = x

TypeOK ==
  /\ event \in {"Upcoming", "Completed", "Cancelled"}
  /\ \A m \in Stored : materials[m].id = m /\ materials[m].scan \in Scans
  /\ slots \in [Slots -> [name : Names \cup {NoId}, revoked : BOOLEAN, uploaded : BOOLEAN,
                          scan : Scans]]
  /\ library \in [Resources -> [of : Materials \cup Slots \cup Contributions \cup {NoId},
                                source : {"none", "event-material", "member-contribution",
                                          "curator-direct"},
                                scan : Scans, key : Keys \cup {NoId}, topics : SUBSET Tags]]

\* In whatever order the upload, its notice, the verdict, the confirmation and the completion
\* come, what is clean and uploaded is in the library once all has settled; only a request
\* that had read the event before its completion can miss it, or one that died.
CleanReachesLibrary ==
  Quiet /\ event = "Completed" /\ ~stale /\ budget.died = 0 =>
    \A m \in Stored : Qualifies(materials[m]) => InLibrary(m) \/ m \in excused

\* Whether the confirmation, the store's notice or the verdict comes first: a file that was
\* reserved, put and passed by the scanner is not left pending, unless it was replaced or put
\* under a name that was taken.
UploadIsNotStranded ==
  Quiet /\ ~overlap /\ budget.died = 0 =>
    \A m \in Stored \ excused :
      materials[m].key # NoId /\ objects[materials[m].key] = "good" => Qualifies(materials[m])

\* What the library offers for download is no object the scanner refused, as long as an
\* address is used once.
OnlyCleanIsOffered ==
  \A r \in Resources : LET k == library[r].key IN
    k # NoId /\ library[r].scan = "Clean" /\ puts[k] <= 1 => objects[k] # "bad"

\* One resource for each material, slot and contribution, when handlers do not overlap.
OncePerSource ==
  ~overlap => \A r, s \in Resources :
    r # s /\ library[r].of = library[s].of => library[r].of = NoId

\* The library follows the event: a material that is removed takes its resource along.
RemovedIsGone ==
  Quiet /\ ~overlap /\ budget.died = 0 =>
    \A r \in Resources : library[r].of \in Materials => library[r].of \in Stored

\* Every topic can be found: no resource has one that TAGS#ALL does not list.
TopicsAreListed ==
  Quiet /\ budget.died = 0 => \A r \in Resources : library[r].topics \subseteq tags
=============================================================================
