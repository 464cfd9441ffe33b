------------------------------ MODULE Reachable ------------------------------
(***************************************************************************)
(* contextmodel.Model.Reachable: the breadth-first walk that decides what  *)
(* a change could affect.  It follows relations of every kind outwards     *)
(* from the changed files, at most maxDepth hops, and records for every    *)
(* entity the path by which it was first reached: the explanation shown    *)
(* to whoever asks why it is affected.                                     *)
(***************************************************************************)
EXTENDS Naturals, Sequences, Functions

CONSTANTS
  Ids,     \* the entity ids
  Links,   \* the relations a model may record: each has a from and a to in Ids
  Models,  \* the models that may be walked: sequences of relations
  Starts,  \* the seeds a walk may start from: sequences of ids
  Depths   \* the values maxDepth may have

ASSUME LinksAssumption == \A r \in Links : r.from \in Ids /\ r.to \in Ids
ASSUME ModelsAssumption == Models \subseteq Seq(Links)
ASSUME StartsAssumption == Starts \subseteq Seq(Ids)
ASSUME DepthsAssumption == Depths \subseteq Nat

VARIABLES
  relations,  \* Model.relations, in insertion order
  seeds,
  maxDepth,
  at,         \* "level" at the head of the outer loop, "entity" within, "done"
  depth,      \* the hops made so far
  frontier,   \* the entities first reached with that many hops
  pos,        \* the one of them being expanded
  edge,       \* the relation being looked at
  next,       \* the entities reached with one more hop
  paths       \* the relations by which each entity was first reached

vars == <<relations, seeds, maxDepth, at, depth, frontier, pos, edge, next, paths>>

\* An entity is marked visited when it is a seed or gets its path.
Visited == Range(seeds) \cup DOMAIN paths

\* paths[id], which for a seed is the empty path.
PathTo(id) == IF id \in DOMAIN paths THEN paths[id] ELSE <<>>

InitWalk ==
  /\ at = "level"
  /\ depth = 0
  /\ frontier = seeds
  /\ pos = 1
  /\ edge = 1
  /\ next = <<>>
  /\ paths = <<>>

Init ==
  /\ relations \in Models
  /\ seeds \in Starts
  /\ maxDepth \in Depths
  /\ InitWalk

\* A slip: one level too few.
GoesOn_TooShort == depth + 1 < maxDepth /\ frontier # <<>>

GoesOn == depth < maxDepth /\ frontier # <<>>

\* The outer loop goes on.
BeginLevel ==
  /\ at = "level"
  /\ GoesOn
  /\ at' = "entity"
  /\ UNCHANGED <<relations, seeds, maxDepth, depth, frontier, pos, edge, next, paths>>

\* A slip: only the seeds are marked visited.
Skips_SeedsOnly(r) == r.to \in Range(seeds)

\* RelationsFrom yields the relations from the entity; one to an entity that
\* was visited before is passed over.
Skips(r) == r.to \in Visited

Leads == relations[edge].from = frontier[pos] /\ ~Skips(relations[edge])

InLevel == at = "entity" /\ pos <= Len(frontier)

\* A slip: the path of the entity being expanded is lost.
Extended_LastHop(id, r) == <<r>>

Extended(id, r) == Append(PathTo(id), r)

Follow ==
  /\ InLevel
  /\ edge <= Len(relations)
  /\ Leads
  /\ LET r == relations[edge]
     IN /\ paths' = [id \in DOMAIN paths \cup {r.to} |->
                       IF id = r.to THEN Extended(frontier[pos], r) ELSE paths[id]]
        /\ next' = Append(next, r.to)
  /\ edge' = edge + 1
  /\ UNCHANGED <<relations, seeds, maxDepth, at, depth, frontier, pos>>

PassOver ==
  /\ InLevel
  /\ edge <= Len(relations)
  /\ ~Leads
  /\ edge' = edge + 1
  /\ UNCHANGED <<relations, seeds, maxDepth, at, depth, frontier, pos, next, paths>>

\* The entity has been expanded.
NextEntity ==
  /\ InLevel
  /\ edge > Len(relations)
  /\ pos' = pos + 1
  /\ edge' = 1
  /\ UNCHANGED <<relations, seeds, maxDepth, at, depth, frontier, next, paths>>

\* The next level starts with a list of its own.
EndLevel ==
  /\ at = "entity"
  /\ pos > Len(frontier)
  /\ frontier' = next
  /\ next' = <<>>
  /\ pos' = 1
  /\ edge' = 1
  /\ depth' = depth + 1
  /\ at' = "level"
  /\ UNCHANGED <<relations, seeds, maxDepth, paths>>

Stop ==
  /\ at = "level"
  /\ ~GoesOn
  /\ at' = "done"
  /\ UNCHANGED <<relations, seeds, maxDepth, depth, frontier, pos, edge, next, paths>>

Walk == BeginLevel \/ Follow \/ PassOver \/ NextEntity \/ EndLevel \/ Stop

Returned == at = "done" /\ UNCHANGED vars

Next == Walk \/ Returned

Spec == Init /\ [][Next]_vars

-----------------------------------------------------------------------------
(* Correctness                                                             *)

\* How far from the seeds the walk has found an entity to be.
Hops(id) == IF id \in Range(seeds) THEN 0 ELSE Len(PathTo(id))

\* Every variable has its type.
TypeOK ==
  /\ relations \in Seq(Links)
  /\ seeds \in Seq(Ids)
  /\ maxDepth \in Nat
  /\ at \in {"level", "entity", "done"}
  /\ depth \in 0 .. maxDepth
  /\ frontier \in Seq(Ids)
  /\ pos \in 1 .. Len(frontier) + 1
  /\ edge \in 1 .. Len(relations) + 1
  /\ next \in Seq(Ids)
  /\ DOMAIN paths \subseteq Ids
  /\ \A id \in DOMAIN paths : paths[id] \in Seq(Links) /\ paths[id] # <<>>

\* p leads from a seed to id along relations of the model.
Explains(p, id) ==
  /\ p[1].from \in Range(seeds)
  /\ p[Len(p)].to = id
  /\ \A k \in 1 .. Len(p) : p[k] \in Range(relations)
  /\ \A k \in 1 .. Len(p) - 1 : p[k].to = p[k + 1].from

\* Whatever is reported as reached comes with an explanation that holds: a
\* chain of recorded relations from a changed file to it, no longer than the
\* bound and through no seed; and nothing changed is reported as affected.
PathsExplain ==
  \A id \in DOMAIN paths :
    /\ Explains(paths[id], id)
    /\ Len(paths[id]) <= maxDepth
    /\ id \notin Range(seeds)

\* When the walk ends no relation leads further out than it should: an entity
\* one relation away from one that was reached short of the bound was reached
\* too, and by a path at most one longer.
WalkIsExact ==
  at = "done" =>
    \A k \in 1 .. Len(relations) :
      LET r == relations[k]
      IN r.from \in Visited /\ Hops(r.from) < maxDepth =>
           r.to \in Visited /\ Hops(r.to) <= Hops(r.from) + 1

\* The reference: the entities within n hops of the seeds.
Ball[n \in 0 .. maxDepth] ==
  IF n = 0 THEN Range(seeds)
  ELSE Ball[n - 1] \cup {r.to : r \in {s \in Range(relations) : s.from \in Ball[n - 1]}}

\* The walk reaches exactly the entities within maxDepth hops, each by one of
\* its shortest paths.
WalkIsShortest ==
  at = "done" =>
    /\ Visited = Ball[maxDepth]
    /\ \A id \in DOMAIN paths : id \notin Ball[Len(paths[id]) - 1]
=============================================================================
