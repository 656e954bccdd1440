----------------------------- MODULE EventParts ------------------------------
(* Components of the events service, each with names of its own, for a model  *)
(* of several of them and for the proofs about each.                          *)
EXTENDS Parts

-----------------------------------------------------------------------------
(* The ideas. *)
CONSTANTS IdeaIds, Community, IdeaGroupsOf, IdeaLedBy, IdeaCallers, MaxIdeaRequests, MaxIdeaDeaths

VARIABLES ideas, votes, ideaCall, declined, ideaOverlap, ideaRaced, ideaTwice, ideaRequests,
          ideaDeaths

ideaVars == <<ideas, votes, ideaCall, declined, ideaOverlap, ideaRaced, ideaTwice, ideaRequests,
              ideaDeaths>>

Id == INSTANCE Ideas WITH
  GroupsOf <- IdeaGroupsOf, LedBy <- IdeaLedBy, Callers <- IdeaCallers,
  MaxRequests <- MaxIdeaRequests, MaxDeaths <- MaxIdeaDeaths,
  call <- ideaCall, overlap <- ideaOverlap, raced <- ideaRaced, twice <- ideaTwice,
  requests <- ideaRequests, deaths <- ideaDeaths

\* An idea's count is the number of its votes, once quiet, the backlog is sorted by the
\* counts as they are, a declined idea and its votes are gone, and nobody votes outside
\* his groups (vote, decline).
IdeasHold == part = "ideas" => Id!IdeasHold
=============================================================================
