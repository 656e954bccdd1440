----------------------------- MODULE MCEvents -------------------------------
(* Small instances of the events service: planning, attendance, materials and *)
(* the content library, ideas.  They share no row, so their steps commute,    *)
(* and one run checks them one beside the other: the initial state picks the  *)
(* part that moves, the rest stands at one of its initial states, and a       *)
(* property is that of the part that moves.                                   *)
EXTENDS EventAttendance, EventParts, TLC

CONSTANTS c1, c2,                \* concurrent requests or invocations
          u1, u2, ld, ga, gb,    \* people, a group leader, groups
          x1,                    \* an external presenter
          none,
          n1, m1, m2, l1, t1, r1, r2   \* library: names, materials, link slots, tags, resources

VARIABLES
  libraryEvent, materials, slots, library, tags, objects, minted, puts, notices, excused,
  stale, libraryCall, libraryBudget, libraryOverlap,
  plan, desig, scopes, who, planDay, planCall, planAwarded, planDeleted, planRaced, healed,
  verified, planDied, planBudget

libraryVars == <<libraryEvent, materials, slots, library, tags, objects, minted, puts, notices,
                 excused, stale, libraryCall, libraryBudget, libraryOverlap>>
planVars == <<plan, desig, scopes, who, planDay, planCall, planAwarded, planDeleted, planRaced,
              healed, verified, planDied, planBudget>>
allVars == <<part, vars, libraryVars, ideaVars, planVars>>

-----------------------------------------------------------------------------
(* A manager submits both attendees, or one twice. *)
MCLists == { <<u1, u2>>, <<u2, u2>> }

(* Handlers in sequence with one death, or a pair of them beside each other. *)
LibraryBudget(request, beside, crash) ==
  [request |-> request, beside |-> beside, crash |-> crash, died |-> 0]
L == INSTANCE Library WITH
  Names <- {n1}, Materials <- {m1, m2}, Slots <- {l1}, Resources <- {r1, r2},
  Contributions <- {x1}, Tags <- {t1}, NoId <- none, Callers <- {c1, c2}, MaxPuts <- 1,
  Budgets <- {LibraryBudget(4, 0, 0), LibraryBudget(3, 0, 1), LibraryBudget(3, 1, 0)},
  event <- libraryEvent, call <- libraryCall, budget <- libraryBudget, overlap <- libraryOverlap

(* Two ideas; one member of a group, one of none, and its leader vote. *)
MCGroupsOf == u1 :> {ga} @@ u2 :> {} @@ ld :> {}
MCLedBy == ld :> ga

(* An event with one designee of each kind, or none. *)
MCInputs == { [presenters |-> <<>>, organizers |-> <<>>, externals |-> 0],
              [presenters |-> <<u1>>, organizers |-> <<u1>>, externals |-> 1] }
MCExternals == <<x1>>
PlanBudget(r, b, p, d) == [requests |-> r, beside |-> b, profiles |-> p, deaths |-> d]
P == INSTANCE Planning WITH
  Events <- {1}, Users <- {u1}, Externals <- MCExternals, Inputs <- MCInputs,
  Callers <- {c1, c2}, LastDay <- 2, Budgets <- {PlanBudget(3, 1, 0, 0), PlanBudget(2, 0, 1, 1)},
  event <- plan, today <- planDay, call <- planCall, awarded <- planAwarded,
  deleted <- planDeleted, raced <- planRaced, died <- planDied, budget <- planBudget

-----------------------------------------------------------------------------
MCInit ==
  /\ part \in {"attendance", "library", "ideas", "planning"}
  /\ Init /\ (part # "attendance" => event.ends = 1)
  /\ L!Init /\ (part # "library" => libraryBudget = LibraryBudget(4, 0, 0))
  /\ Id!Init
  /\ P!Init /\ (part # "planning" => planBudget = PlanBudget(3, 1, 0, 0) /\ who[u1].named)

TakePart == part = "attendance" /\ Next /\ UNCHANGED <<libraryVars, ideaVars, planVars>>
Publish == part = "library" /\ L!Next /\ UNCHANGED <<vars, ideaVars, planVars>>
Propose == part = "ideas" /\ Id!Next /\ UNCHANGED <<vars, libraryVars, planVars>>
Organize == part = "planning" /\ P!Next /\ UNCHANGED <<vars, libraryVars, ideaVars>>

MCNext == UNCHANGED part /\ (TakePart \/ Publish \/ Propose \/ Organize)

MCSpec == MCInit /\ [][MCNext]_allVars

(* Concurrent requests are alike. *)
Alike == Permutations({c1, c2})

-----------------------------------------------------------------------------
\* Clean material of a completed event is in the library, in whatever order upload,
\* notice, verdict and completion come, no file that was put and passed stays pending,
\* the library offers no file the scanner refused and one resource for each source,
\* a removed material takes its resource along, and every topic is listed
\* (LibraryConsumers, promote_material, remove_material).
LibraryHolds ==
  part = "library" =>
    /\ L!TypeOK
    /\ L!CleanReachesLibrary /\ L!UploadIsNotStranded /\ L!OnlyCleanIsOffered
    /\ L!OncePerSource /\ L!RemovedIsGone /\ L!TopicsAreListed
\* An event counts the presenters and organizers it has rows for, nobody earns who was
\* not found to be a Member (BR-P3), a completed event has awarded its eligible
\* designees, and the Community Leader's listing has every event.
PlanningHolds ==
  part = "planning" =>
    /\ P!TypeOK
    /\ P!CountsMatchRows /\ P!OnlyMembersEarn /\ P!DesigneesAreAwarded /\ P!EveryEventIsListed
=============================================================================
