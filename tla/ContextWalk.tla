----------------------------- MODULE ContextWalk -----------------------------
(***************************************************************************)
(* A model, once discovered, and the walk of Reachable.tla over it: what   *)
(* impact analysis, which starts at the changed files, and the tools that  *)
(* answer about a repository, which start at what matches a query, share.  *)
(***************************************************************************)
EXTENDS Discovery

VARIABLES seeds, maxDepth, at, depth, frontier, pos, edge, next, paths \* of the walk

walkVars == <<seeds, maxDepth, at, depth, frontier, pos, edge, next, paths>>

Walk == INSTANCE Reachable
  WITH Links <- Relations, Models <- Seq(Relations), Starts <- Seq(Ids), Depths <- Nat

\* No walk has begun; one that does will go as far as the bound.
InitWalk(bound) ==
  /\ seeds = <<>>
  /\ maxDepth = bound
  /\ at = "idle"
  /\ depth = 0 /\ frontier = <<>> /\ pos = 1 /\ edge = 1 /\ next = <<>> /\ paths = <<>>

\* What was reached and is an entity of the model.
Known == DOMAIN paths \cap DOMAIN entities
=============================================================================
