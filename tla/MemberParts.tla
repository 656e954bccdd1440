----------------------------- MODULE MemberParts -----------------------------
(* Components of who the members are and what they see, each with names of    *)
(* its own, for a model of several of them and for the proofs about each.     *)
EXTENDS Parts

-----------------------------------------------------------------------------
(* The settings. *)
CONSTANTS Admins, Containers, Templates, Unset, Default, EnvDefault, Ttl, SaveBudgets

VARIABLES stored, template, save, toldSettings, client, cache, answer, clock, heldAt, failedAt,
          saveOverlap, saveBudget

settingsVars == <<stored, template, save, toldSettings, client, cache, answer, clock, heldAt,
                  failedAt, saveOverlap, saveBudget>>

St == INSTANCE Settings WITH
  Budgets <- SaveBudgets, told <- toldSettings, overlap <- saveOverlap, budget <- saveBudget

\* No service goes by a setting older than its cache may be, a failed read is made good
\* once the cache expires, and what was announced last is what is stored (update_settings,
\* the clients' get).
SettingsHold == part = "settings" => St!SettingsHold
-----------------------------------------------------------------------------
(* What a token lets its holder see and do. *)
CONSTANTS AccessGroups, AccessCommunity, AccessNoGroup, AccessRefused, AccessEvents, AccessBudgets

VARIABLES account, claims, createdEvent, ask, served, heldSinceMint, heldSinceAsk, accessBudget

accessVars == <<account, claims, createdEvent, ask, served, heldSinceMint, heldSinceAsk,
                accessBudget>>

V == INSTANCE Access WITH
  Groups <- AccessGroups, Community <- AccessCommunity, NoGroup <- AccessNoGroup,
  Refused <- AccessRefused, Events <- AccessEvents, Budgets <- AccessBudgets,
  row <- account, token <- claims, event <- createdEvent, request <- ask, reply <- served,
  sinceMint <- heldSinceMint, sinceAsk <- heldSinceAsk, budget <- accessBudget

\* What a caller is listed is what it can open (BR-S2), a leader's and a Community
\* Leader's figures of a group agree, rows served unasked are of groups the caller
\* held, and a creator manages its events in the scopes it is listed (BR-A5).
AccessHolds == part = "access" => V!AccessHolds

\* A demoted creator keeps its rights on the events it created (BR-A5).
CreatorKeepsRights == part = "access" => V!CreatorKeepsRights
=============================================================================
