--------------------------- MODULE ReachableProofs ---------------------------
(***************************************************************************)
(* What holds of every walk, over every model, from all seeds and to every *)
(* depth: each explanation is a chain of recorded relations, and the walk  *)
(* leaves out nothing within its bound.                                    *)
(***************************************************************************)
EXTENDS Reachable, Integers, WellFoundedInduction, SequenceTheorems, TLAPS

\* How many hops the longest path made so far may have.
Reach == IF at = "entity" THEN depth + 1 ELSE depth

\* Every path made so far is a chain that explains what it reaches.
Explained ==
  \A id \in DOMAIN paths :
    /\ Explains(paths[id], id)
    /\ Len(paths[id]) <= Reach
    /\ id \notin Range(seeds)

\* The frontier is exactly what is depth hops away, next exactly what has been
\* found one hop further.
Levels ==
  /\ at = "entity" => depth < maxDepth
  /\ at = "done" => depth = maxDepth \/ frontier = <<>>
  /\ at = "level" => pos = 1 /\ edge = 1
  /\ \A k \in 1 .. Len(frontier) : frontier[k] \in Visited /\ Hops(frontier[k]) = depth
  /\ \A id \in Visited : Hops(id) = depth => id \in Range(frontier)
  /\ \A k \in 1 .. Len(next) : next[k] \in DOMAIN paths /\ Len(paths[next[k]]) = depth + 1
  /\ \A id \in DOMAIN paths : Len(paths[id]) = depth + 1 => id \in Range(next)

\* The k-th relation has been looked at from each entity it starts at.
Done(k) ==
  LET from == relations[k].from
  IN \/ Hops(from) < depth
     \/ /\ at = "entity"
        /\ \E m \in 1 .. Len(frontier) :
             frontier[m] = from /\ (m < pos \/ (m = pos /\ k < edge))

\* What the k-th relation leads to is as near as it should be.
Tight(k) ==
  LET r == relations[k]
  IN r.to \in Visited /\ Hops(r.to) <= Hops(r.from) + 1

\* A relation that has been looked at leads nowhere new.
Closed ==
  \A k \in 1 .. Len(relations) : relations[k].from \in Visited /\ Done(k) => Tight(k)

IInv == TypeOK /\ Explained /\ Levels /\ Closed

-----------------------------------------------------------------------------

\* The walk starts with the seeds, no hop away, and nothing else.
LEMMA WalkInitial == Init => IInv
  <1> SUFFICES ASSUME Init PROVE IInv
    OBVIOUS
  <1>1. relations \in Seq(Links) /\ seeds \in Seq(Ids) /\ maxDepth \in Nat
    BY ModelsAssumption, StartsAssumption, DepthsAssumption DEF Init
  <1>2. /\ frontier = seeds /\ paths = <<>> /\ next = <<>> /\ depth = 0 /\ at = "level"
        /\ pos = 1 /\ edge = 1
    BY DEF Init, InitWalk
  <1>3. DOMAIN paths = {} /\ Len(next) = 0
    BY <1>2
  <1>4. TypeOK
    BY <1>1, <1>2, <1>3 DEF Init, InitWalk, TypeOK
  <1>5. Visited = Range(frontier) /\ \A id \in Visited : Hops(id) = 0
    BY <1>2, <1>3 DEF Visited, Hops
  <1>6. \A k \in 1 .. Len(frontier) : frontier[k] \in Range(frontier)
    BY <1>1, <1>2 DEF Range
  <1>7. Explained /\ Levels
    BY <1>2, <1>3, <1>5, <1>6 DEF Explained, Levels
  <1>8. Closed
    BY <1>2, <1>5 DEF Closed, Done
  <1> QED
    BY <1>4, <1>7, <1>8 DEF IInv

\* A step that only moves within the loops keeps what is said of the paths.
LEMMA SamePaths ==
  ASSUME UNCHANGED <<relations, seeds, paths>>
  PROVE  /\ Visited' = Visited
         /\ \A id : Hops(id)' = Hops(id)
         /\ \A k : Tight(k)' <=> Tight(k)
         /\ \A p, id : Explains(p, id)' <=> Explains(p, id)
  BY DEF Visited, Hops, PathTo, Tight, Explains

\* The relations that have been looked at stay so while the walk advances
\* within a level, and those looked at now are the ones next in line.
LEMMA Advance ==
  ASSUME IInv, at = "entity", Closed, pos <= Len(frontier),
         UNCHANGED <<relations, seeds, maxDepth, at, depth, frontier, next, paths>>,
         \/ edge <= Len(relations) /\ ~Leads /\ edge' = edge + 1 /\ pos' = pos
         \/ edge > Len(relations) /\ edge' = 1 /\ pos' = pos + 1
  PROVE  IInv'
  <1>1. TypeOK /\ Explained /\ Levels
    BY DEF IInv
  <1>2. pos' \in 1 .. Len(frontier) + 1 /\ edge' \in 1 .. Len(relations) + 1
    <2>1. Len(relations) \in Nat /\ Len(frontier) \in Nat
      BY <1>1 DEF TypeOK
    <2> QED
      BY <1>1, <2>1 DEF TypeOK
  <1>3. TypeOK'
    BY <1>1, <1>2 DEF TypeOK
  <1>4. Explained' /\ Levels'
    BY <1>1, SamePaths DEF Explained, Levels, Reach
  <1>5. ASSUME NEW k \in 1 .. Len(relations), relations[k].from \in Visited, Done(k)'
        PROVE  Tight(k)
    <2>1. CASE Done(k)
      BY <1>5, <2>1 DEF Closed
    <2>2. CASE ~Done(k)
      <3>1. /\ k = edge /\ edge <= Len(relations) /\ ~Leads
            /\ frontier[pos] = relations[k].from
        <4>1. PICK m \in 1 .. Len(frontier) :
                /\ frontier[m] = relations[k].from
                /\ m < pos' \/ (m = pos' /\ k < edge')
          BY <1>5, <2>2, SamePaths DEF Done
        <4>2. ~(m < pos \/ (m = pos /\ k < edge))
          BY <2>2, <4>1 DEF Done
        <4>3. pos \in Nat /\ edge \in Nat /\ Len(relations) \in Nat /\ Len(frontier) \in Nat
          BY <1>1 DEF TypeOK
        <4>4. m = pos /\ ~(k < edge)
          BY <4>1, <4>2, <4>3
        <4> QED
          BY <4>1, <4>3, <4>4
      <3>2. relations[k].to \in Visited
        BY <3>1 DEF Leads, Skips
      <3>3. Hops(relations[k].from) = depth
        BY <3>1, <1>1 DEF Levels, TypeOK
      <3>4. Hops(relations[k].to) <= depth + 1
        BY <3>2, <1>1 DEF Explained, Reach, Hops, PathTo, Visited, TypeOK
      <3> QED
        BY <3>2, <3>3, <3>4 DEF Tight
    <2> QED
      BY <2>1, <2>2
  <1>6. Closed'
    BY <1>5, SamePaths DEF Closed
  <1> QED
    BY <1>3, <1>4, <1>6 DEF IInv

\* A new path: one hop longer than that of the entity expanded.
LEMMA FollowInvariant ==
  ASSUME IInv, Follow
  PROVE  IInv'
  <1>1. TypeOK /\ Explained /\ Levels /\ Closed
    BY DEF IInv
  <1>2. /\ at = "entity" /\ pos \in 1 .. Len(frontier) /\ edge \in 1 .. Len(relations)
        /\ relations[edge].from = frontier[pos] /\ relations[edge].to \notin Visited
        /\ relations[edge] \in Links /\ relations[edge] \in Range(relations)
    BY <1>1 DEF Follow, InLevel, Leads, Skips, TypeOK, Range
  <1>3. PICK r \in Links : r = relations[edge] /\ r \in Range(relations)
    BY <1>2
  <1>4. PICK from \in Ids : from = frontier[pos]
    BY <1>1, <1>2 DEF TypeOK
  <1>5. PICK q : q = PathTo(from)
    OBVIOUS
  <1>6. r.from = from /\ r.to \in Ids /\ r.to \notin Visited /\ depth \in Nat
    BY <1>1, <1>2, <1>3, <1>4, LinksAssumption DEF TypeOK
  <1>7. from \in Visited /\ Hops(from) = depth
    BY <1>1, <1>2, <1>4 DEF Levels
  <1>8. /\ q \in Seq(Links) /\ Len(q) = depth
        /\ q = <<>> => from \in Range(seeds)
        /\ q # <<>> => Explains(q, from)
    <2>1. CASE from \in DOMAIN paths
      <3>1. from \notin Range(seeds) /\ Explains(paths[from], from) /\ paths[from] # <<>>
        BY <1>1, <2>1 DEF Explained, TypeOK
      <3> QED
        BY <1>1, <1>5, <1>7, <2>1, <3>1 DEF Hops, PathTo, TypeOK
    <2>2. CASE from \notin DOMAIN paths
      <3>1. from \in Range(seeds) /\ q = <<>> /\ depth = 0
        BY <1>5, <1>7, <2>2 DEF Visited, PathTo, Hops
      <3> QED
        BY <3>1
    <2> QED
      BY <2>1, <2>2
  <1>9. PICK p \in Seq(Links) : p = Append(q, r)
    <2>1. q \in Seq(Links)
      BY <1>8
    <2>2. Append(q, r) \in Seq(Links)
      BY <2>1
    <2> QED
      BY <2>2
  <1>10. /\ Len(p) = depth + 1 /\ p[depth + 1] = r
         /\ \A k \in 1 .. depth : p[k] = q[k]
    BY <1>6, <1>8, <1>9
  <1>11. p # <<>>
    BY <1>6, <1>10
  <1>12. Explains(p, r.to)
    <2>1. CASE q = <<>>
      BY <1>3, <1>6, <1>8, <1>10, <2>1 DEF Explains
    <2>2. CASE q # <<>>
      <3>1. depth >= 1 /\ Explains(q, from)
        BY <1>6, <1>8, <2>2
      <3>2. p[1] = q[1] /\ p[depth].to = from
        BY <1>6, <1>8, <1>10, <3>1 DEF Explains
      <3>3. \A k \in 1 .. Len(p) : p[k] \in Range(relations)
        BY <1>3, <1>6, <1>8, <1>10, <3>1 DEF Explains
      <3>4. \A k \in 1 .. Len(p) - 1 : p[k].to = p[k + 1].from
        <4> SUFFICES ASSUME NEW k \in 1 .. depth PROVE p[k].to = p[k + 1].from
          BY <1>6, <1>10
        <4>1. CASE k = depth
          BY <1>6, <1>10, <3>2, <4>1
        <4>2. CASE k < depth
          BY <1>6, <1>8, <1>10, <3>1, <4>2 DEF Explains
        <4> QED
          BY <1>6, <4>1, <4>2
      <3> QED
        BY <1>6, <1>10, <3>1, <3>2, <3>3, <3>4 DEF Explains
    <2> QED
      BY <2>1, <2>2
  <1>13. /\ DOMAIN paths' = DOMAIN paths \cup {r.to}
         /\ paths'[r.to] = p
         /\ \A id \in DOMAIN paths : paths'[id] = paths[id]
    BY <1>3, <1>4, <1>5, <1>6, <1>9 DEF Follow, Extended, Visited
  <1>14. /\ next' = Append(next, r.to) /\ edge' = edge + 1
         /\ UNCHANGED <<relations, seeds, maxDepth, at, depth, frontier, pos>>
    BY <1>3 DEF Follow
  <1>15. Visited' = Visited \cup {r.to}
    BY <1>13, <1>14 DEF Visited
  <1>16. ASSUME NEW id \in Visited PROVE Hops(id)' = Hops(id)
    <2>1. CASE id \in Range(seeds)
      BY <2>1, <1>14 DEF Hops
    <2>2. CASE id \in DOMAIN paths
      BY <2>2, <1>13, <1>14 DEF Hops, PathTo
    <2> QED
      BY <2>1, <2>2 DEF Visited
  <1>17. Hops(r.to)' = depth + 1
    BY <1>6, <1>10, <1>13, <1>14 DEF Hops, PathTo, Visited
  <1>18. TypeOK'
    <2>1. next' \in Seq(Ids)
      BY <1>1, <1>6, <1>14 DEF TypeOK
    <2>2. edge' \in 1 .. Len(relations) + 1
      BY <1>1, <1>2, <1>14 DEF TypeOK
    <2>3. \A id \in DOMAIN paths' : paths'[id] \in Seq(Links) /\ paths'[id] # <<>>
      BY <1>1, <1>9, <1>11, <1>13 DEF TypeOK
    <2> QED
      BY <1>1, <1>6, <1>13, <1>14, <2>1, <2>2, <2>3 DEF TypeOK
  <1>19. Explained'
    <2>1. ASSUME NEW id \in DOMAIN paths
          PROVE  Explains(paths[id], id)' /\ Len(paths'[id]) <= depth + 1 /\ id \notin Range(seeds)
      BY <1>1, <1>2, <1>13, <1>14, <2>1 DEF Explained, Reach, Explains
    <2>2. Explains(paths[r.to], r.to)'
      BY <1>12, <1>13, <1>14 DEF Explains
    <2>3. Len(paths'[r.to]) <= depth + 1 /\ r.to \notin Range(seeds)
      BY <1>6, <1>10, <1>13 DEF Visited
    <2> QED
      BY <1>2, <1>13, <1>14, <2>1, <2>2, <2>3 DEF Explained, Reach
  <1>20. Levels'
    <2>1. \A k \in 1 .. Len(frontier) : frontier[k] \in Visited' /\ Hops(frontier[k])' = depth
      <3> SUFFICES ASSUME NEW k \in 1 .. Len(frontier), NEW id, id = frontier[k]
                   PROVE  id \in Visited' /\ Hops(id)' = depth
        BY <1>14
      <3> QED
        BY <1>1, <1>15, <1>16 DEF Levels
    <2>2. \A id \in Visited' : Hops(id)' = depth => id \in Range(frontier)
      BY <1>1, <1>6, <1>15, <1>16, <1>17 DEF Levels
    <2>3. /\ Len(next') = Len(next) + 1 /\ next'[Len(next')] = r.to
          /\ \A k \in 1 .. Len(next) : next'[k] = next[k]
          /\ Len(next) \in Nat
      BY <1>1, <1>6, <1>14 DEF TypeOK
    <2>4. \A k \in 1 .. Len(next') : next'[k] \in DOMAIN paths' /\ Len(paths'[next'[k]]) = depth + 1
      BY <1>1, <1>10, <1>13, <2>3 DEF Levels
    <2>5. \A id \in DOMAIN paths' : Len(paths'[id]) = depth + 1 => id \in Range(next')
      <3>1. next' \in Seq(Ids) /\ next \in Seq(Ids)
        BY <1>1, <1>18 DEF TypeOK
      <3>2. r.to \in Range(next') /\ Range(next) \subseteq Range(next')
        BY <2>3, <3>1 DEF Range
      <3> QED
        BY <1>1, <1>13, <3>2 DEF Levels
    <2> QED
      BY <1>1, <1>2, <1>14, <2>1, <2>2, <2>4, <2>5 DEF Levels
  <1>21. Closed'
    <2> SUFFICES ASSUME NEW k \in 1 .. Len(relations), NEW f, NEW t,
                        f = relations[k].from, t = relations[k].to,
                        f \in Visited', Done(k)'
                 PROVE  t \in Visited' /\ Hops(t)' <= Hops(f)' + 1
      BY <1>14 DEF Closed, Tight
    <2>1. \/ Hops(f)' < depth
          \/ \E m \in 1 .. Len(frontier) :
               frontier[m] = f /\ (m < pos \/ (m = pos /\ k < edge + 1))
      BY <1>14 DEF Done
    <2>2. f # r.to
      BY <1>1, <1>6, <1>17, <2>1 DEF Levels
    <2>3. f \in Visited /\ Hops(f)' = Hops(f)
      BY <1>15, <1>16, <2>2
    <2>4. CASE Done(k)
      <3>1. t \in Visited /\ Hops(t) <= Hops(f) + 1
        BY <1>1, <2>3, <2>4 DEF Closed, Tight
      <3> QED
        BY <1>15, <1>16, <2>3, <3>1
    <2>5. CASE ~Done(k)
      <3>1. k = edge /\ f = from
        BY <1>1, <1>2, <1>4, <2>1, <2>3, <2>5 DEF Done, TypeOK
      <3> QED
        BY <1>3, <1>6, <1>7, <1>15, <1>17, <2>3, <3>1
    <2> QED
      BY <2>4, <2>5
  <1> QED
    BY <1>18, <1>19, <1>20, <1>21 DEF IInv

\* The next level starts: what was found one hop further is its frontier.
LEMMA EndLevelInvariant ==
  ASSUME IInv, EndLevel
  PROVE  IInv'
  <1>1. TypeOK /\ Explained /\ Levels /\ Closed
    BY DEF IInv
  <1>2. /\ at = "entity" /\ at' = "level" /\ pos > Len(frontier)
        /\ frontier' = next /\ next' = <<>> /\ pos' = 1 /\ edge' = 1 /\ depth' = depth + 1
        /\ UNCHANGED <<relations, seeds, maxDepth, paths>>
    BY DEF EndLevel
  <1>3. depth < maxDepth /\ depth \in Nat /\ maxDepth \in Nat
    BY <1>1, <1>2 DEF Levels, TypeOK
  <1>4. TypeOK'
    BY <1>1, <1>2, <1>3 DEF TypeOK
  <1>5. Explained'
    BY <1>1, <1>2, SamePaths DEF Explained, Reach
  <1>6. Levels'
    <2>1. \A k \in 1 .. Len(next) : next[k] \in Visited /\ Hops(next[k]) = depth + 1
      BY <1>1 DEF Levels, Explained, Visited, Hops, PathTo
    <2>2. \A id \in Visited : Hops(id) = depth + 1 => id \in Range(next)
      BY <1>1, <1>3 DEF Levels, Visited, Hops, PathTo
    <2>3. \A id \in DOMAIN paths : Len(paths[id]) # depth + 2
      BY <1>1, <1>2, <1>3 DEF Explained, Reach, TypeOK
    <2> QED
      BY <1>2, <1>3, <2>1, <2>2, <2>3, SamePaths DEF Levels
  <1>7. Closed'
    <2> SUFFICES ASSUME NEW k \in 1 .. Len(relations), relations[k].from \in Visited,
                        Hops(relations[k].from) < depth + 1
                 PROVE  Tight(k)
      BY <1>2, SamePaths DEF Closed, Done
    <2>1. Hops(relations[k].from) \in Nat
      BY <1>1 DEF Hops, PathTo, Visited, TypeOK
    <2>2. CASE Hops(relations[k].from) < depth
      BY <1>1, <2>2 DEF Closed, Done
    <2>3. CASE Hops(relations[k].from) = depth
      <3>1. relations[k].from \in Range(frontier) /\ DOMAIN frontier = 1 .. Len(frontier)
        BY <1>1, <2>3 DEF Levels, TypeOK
      <3>2. PICK m \in 1 .. Len(frontier) : frontier[m] = relations[k].from
        BY <3>1 DEF Range
      <3>3. m < pos
        BY <1>1, <1>2 DEF TypeOK
      <3> QED
        BY <1>1, <1>2, <3>2, <3>3 DEF Closed, Done
    <2> QED
      BY <1>3, <2>1, <2>2, <2>3
  <1> QED
    BY <1>4, <1>5, <1>6, <1>7 DEF IInv

\* The walk stops at the bound, or when there is nothing left to expand.
LEMMA LevelInvariant ==
  ASSUME IInv, BeginLevel \/ Stop
  PROVE  IInv'
  <1>1. TypeOK /\ Explained /\ Levels /\ Closed
    BY DEF IInv
  <1>2. /\ at = "level" /\ at' \in {"entity", "done"}
        /\ at' = "entity" => depth < maxDepth
        /\ at' = "done" => ~(depth < maxDepth /\ frontier # <<>>)
        /\ UNCHANGED <<relations, seeds, maxDepth, depth, frontier, pos, edge, next, paths>>
    BY DEF BeginLevel, Stop, GoesOn
  <1>3. TypeOK'
    BY <1>1, <1>2 DEF TypeOK
  <1>4. Explained'
    BY <1>1, <1>2, SamePaths DEF Explained, Reach, TypeOK
  <1>5. Levels'
    <2>1. at' = "done" => depth = maxDepth \/ frontier = <<>>
      BY <1>1, <1>2 DEF TypeOK
    <2> QED
      BY <1>1, <1>2, <2>1, SamePaths DEF Levels
  <1>6. Closed'
    <2>1. pos = 1 /\ edge = 1
      BY <1>1, <1>2 DEF Levels
    <2>2. ASSUME NEW k \in 1 .. Len(relations), Done(k)' PROVE Done(k)
      BY <1>2, <2>1, <2>2, SamePaths DEF Done
    <2> QED
      BY <1>1, <1>2, <2>2, SamePaths DEF Closed
  <1> QED
    BY <1>3, <1>4, <1>5, <1>6 DEF IInv

\* Every step of the walk keeps the invariant.
LEMMA WalkInductive ==
  ASSUME IInv, [Next]_vars
  PROVE  IInv'
  <1>1. CASE BeginLevel \/ Stop
    BY <1>1, LevelInvariant
  <1>2. CASE Follow
    BY <1>2, FollowInvariant
  <1>3. CASE PassOver \/ NextEntity
    BY <1>3, Advance DEF PassOver, NextEntity, InLevel, IInv
  <1>4. CASE EndLevel
    BY <1>4, EndLevelInvariant
  <1>5. CASE UNCHANGED vars
    <2>1. UNCHANGED <<relations, seeds, maxDepth, at, depth, frontier, pos, edge, next, paths>>
      BY <1>5 DEF vars
    <2>2. TypeOK'
      BY <2>1 DEF IInv, TypeOK
    <2>3. Explained' /\ Levels'
      BY <2>1, SamePaths DEF IInv, Explained, Levels, Reach
    <2>4. Closed'
      <3> SUFFICES ASSUME NEW k \in 1 .. Len(relations), relations[k].from \in Visited, Done(k)'
                   PROVE  Tight(k)
        BY <2>1, SamePaths DEF Closed
      <3>1. Done(k)
        BY <2>1, SamePaths DEF Done
      <3> QED
        BY <3>1 DEF IInv, Closed
    <2> QED
      BY <2>2, <2>3, <2>4 DEF IInv
  <1> QED
    BY <1>1, <1>2, <1>3, <1>4, <1>5 DEF Next, Walk, Returned

\* The invariant holds throughout every walk.
THEOREM WalkInvariant == Spec => []IInv
  BY WalkInitial, WalkInductive, PTL DEF Spec

\* The invariant explains every path.
LEMMA PathsHold ==
  ASSUME IInv
  PROVE  PathsExplain
  BY DEF IInv, TypeOK, Explained, Levels, Reach, PathsExplain

\* It leaves a finished walk nothing to reach.
LEMMA EndIsExact ==
  ASSUME IInv
  PROVE  WalkIsExact
  <1> SUFFICES ASSUME at = "done", NEW k \in 1 .. Len(relations),
                      relations[k].from \in Visited, Hops(relations[k].from) < maxDepth
               PROVE  Tight(k)
    BY DEF WalkIsExact, Tight
  <1>1. TypeOK /\ Explained /\ Levels /\ Closed
    BY DEF IInv
  <1>2. Hops(relations[k].from) \in 0 .. depth
    BY <1>1 DEF Hops, PathTo, Visited, Explained, Reach, TypeOK
  <1>3. CASE depth = maxDepth
    BY <1>1, <1>3 DEF Closed, Done
  <1>4. CASE frontier = <<>>
    <2>1. Range(frontier) = {}
      BY <1>4 DEF Range
    <2>2. Hops(relations[k].from) # depth
      BY <1>1, <2>1 DEF Levels
    <2>3. Hops(relations[k].from) < depth
      BY <1>1, <1>2, <2>2 DEF TypeOK
    <2> QED
      BY <1>1, <2>3 DEF Closed, Done
  <1> QED
    BY <1>1, <1>3, <1>4 DEF Levels

\* Every explanation is a chain of recorded relations that leads from a changed
\* file to what it explains, within the bound.
THEOREM ExplanationsHold == Spec => []PathsExplain
  <1>1. IInv => PathsExplain
    BY PathsHold
  <1> QED
    BY <1>1, WalkInvariant, PTL

\* A finished walk has left out nothing within its bound.
THEOREM NothingLeftOut == Spec => []WalkIsExact
  <1>1. IInv => WalkIsExact
    BY EndIsExact
  <1> QED
    BY <1>1, WalkInvariant, PTL

-----------------------------------------------------------------------------
(* Shortest paths                                                          *)

\* A nonempty set of natural numbers has a least element.
LEMMA LeastElement ==
  ASSUME NEW T \in SUBSET Nat, T # {}
  PROVE  \E n \in T : \A m \in T : n <= m
  <1> DEFINE below == {ss \in Nat \X Nat : ss[1] < ss[2]}
  <1>1. IsWellFoundedOn(below, Nat)
    BY NatLessThanWellFounded DEF OpToRel
  <1> HIDE DEF below
  <1>2. PICK x \in T : \A y \in T : ~ (<<y, x>> \in below)
    BY <1>1, WFMin
  <1>3. ASSUME NEW y \in T PROVE x <= y
    <2>1. ~ (<<y, x>> \in below)
      BY <1>2
    <2> QED
      BY <2>1 DEF below
  <1> QED
    BY <1>3

\* Induction up to n, over the members of a set.
LEMMA UpTo ==
  ASSUME NEW n \in Nat, NEW T, 0 \in T, \A k \in 1 .. n : k - 1 \in T => k \in T
  PROVE  \A k \in 0 .. n : k \in T
  <1> DEFINE rest == {k \in 0 .. n : k \notin T}
  <1> SUFFICES ASSUME rest # {} PROVE FALSE
    OBVIOUS
  <1>0. rest \in SUBSET Nat
    OBVIOUS
  <1>1. PICK k \in rest : \A j \in rest : k <= j
    <2> HIDE DEF rest
    <2> QED
      BY <1>0, LeastElement
  <1>2. k \in 1 .. n /\ k - 1 \in 0 .. n /\ k - 1 \notin rest
    BY <1>1
  <1> QED
    BY <1>1, <1>2

\* The ids that one of the relations rs leads to from S.
Beyond(rs, S) == {r.to : r \in {s \in rs : s.from \in S}}

\* Whether f grows S by one of the relations rs at a time, n times.
Grows(f, n, rs, S) == f = [k \in 0 .. n |-> IF k = 0 THEN S ELSE f[k - 1] \cup Beyond(rs, f[k - 1])]

\* Its values.
LEMMA GrowsStep ==
  ASSUME NEW n \in Nat, NEW rs, NEW S, NEW f, Grows(f, n, rs, S), NEW k \in 0 .. n
  PROVE  f[k] = IF k = 0 THEN S ELSE f[k - 1] \cup Beyond(rs, f[k - 1])
  <1> DEFINE h == [j \in 0 .. n |-> IF j = 0 THEN S ELSE f[j - 1] \cup Beyond(rs, f[j - 1])]
  <1>1. f = h
    BY DEF Grows
  <1>2. h[k] = IF k = 0 THEN S ELSE f[k - 1] \cup Beyond(rs, f[k - 1])
    OBVIOUS
  <1> HIDE DEF h
  <1> QED
    BY <1>1, <1>2

\* They can be grown as often as one likes.
LEMMA GrowsExists ==
  ASSUME NEW n \in Nat, NEW rs, NEW S
  PROVE  \E f : Grows(f, n, rs, S)
  <1> DEFINE T == {m \in Nat : \E f : Grows(f, m, rs, S)}
  <1>1. 0 \in T
    <2>1. Grows([k \in 0 .. 0 |-> S], 0, rs, S)
      BY DEF Grows
    <2> QED
      BY <2>1
  <1>2. ASSUME NEW m \in 1 .. n, m - 1 \in T PROVE m \in T
    <2>1. PICK f : Grows(f, m - 1, rs, S)
      BY <1>2
    <2> DEFINE g == [k \in 0 .. m |-> IF k = m THEN f[m - 1] \cup Beyond(rs, f[m - 1]) ELSE f[k]]
    <2>2. ASSUME NEW k \in 0 .. m
          PROVE  g[k] = IF k = 0 THEN S ELSE g[k - 1] \cup Beyond(rs, g[k - 1])
      <3>1. CASE k = m
        <4>1. k # 0 /\ g[k] = f[k - 1] \cup Beyond(rs, f[k - 1]) /\ k - 1 \in 0 .. m /\ g[k - 1] = f[k - 1]
          BY <3>1
        <4> QED
          BY <4>1
      <3>2. CASE k # m
        <4>1. k \in 0 .. m - 1 /\ g[k] = f[k]
          BY <3>2
        <4>2. f[k] = IF k = 0 THEN S ELSE f[k - 1] \cup Beyond(rs, f[k - 1])
          BY <2>1, <4>1, GrowsStep
        <4>3. CASE k = 0
          BY <4>1, <4>2, <4>3
        <4>4. CASE k # 0
          <5>1. k - 1 \in 0 .. m /\ k - 1 # m /\ g[k - 1] = f[k - 1]
            BY <4>1, <4>4
          <5> QED
            BY <4>1, <4>2, <4>4, <5>1
        <4> QED
          BY <4>3, <4>4
      <3> QED
        BY <3>1, <3>2
    <2>3. g = [k \in 0 .. m |-> g[k]]
      OBVIOUS
    <2> HIDE DEF g
    <2>4. Grows(g, m, rs, S)
      BY <2>2, <2>3 DEF Grows
    <2> QED
      BY <2>4
  <1> HIDE DEF T
  <1>3. n \in T
    BY <1>1, <1>2, UpTo
  <1> QED
    BY <1>3 DEF T

\* What is within k hops is what is within k - 1 hops and what a relation leads
\* to from there.
LEMMA BallGrows ==
  ASSUME maxDepth \in Nat
  PROVE  /\ Ball[0] = Range(seeds)
         /\ \A k \in 1 .. maxDepth :
              Ball[k] = Ball[k - 1] \cup Beyond(Range(relations), Ball[k - 1])
  <1>1. Ball = CHOOSE f : Grows(f, maxDepth, Range(relations), Range(seeds))
    BY DEF Ball, Grows, Beyond
  <1>2. Grows(Ball, maxDepth, Range(relations), Range(seeds))
    BY <1>1, GrowsExists
  <1>3. ASSUME NEW k \in 0 .. maxDepth
        PROVE  Ball[k] = IF k = 0 THEN Range(seeds)
                         ELSE Ball[k - 1] \cup Beyond(Range(relations), Ball[k - 1])
    BY <1>2, GrowsStep
  <1>4. 0 \in 0 .. maxDepth /\ \A k \in 1 .. maxDepth : k \in 0 .. maxDepth /\ k # 0
    OBVIOUS
  <1> QED
    BY <1>3, <1>4

\* What was reached lies within as many hops as its path has.
LEMMA PathsStayInBall ==
  ASSUME IInv, NEW id \in DOMAIN paths, Len(paths[id]) <= maxDepth
  PROVE  id \in Ball[Len(paths[id])]
  <1> DEFINE p == paths[id]
             T == {k \in 0 .. Len(p) : k = 0 \/ p[k].to \in Ball[k]}
  <1>1. maxDepth \in Nat /\ p \in Seq(Links) /\ p # <<>> /\ Explains(p, id)
    BY DEF IInv, TypeOK, Explained
  <1>2. Len(p) \in Nat \ {0}
    BY <1>1, EmptySeq
  <1> HIDE DEF p
  <1>0. PICK n \in Nat \ {0} : n = Len(p)
    BY <1>2
  <1>3. ASSUME NEW k \in 1 .. n, k - 1 \in T PROVE k \in T
    <2>1. k \in 0 .. maxDepth /\ k - 1 \in 0 .. maxDepth /\ k # 0
      BY <1>0, <1>1, <1>2, <1>3 DEF p
    <2>2. p[k] \in Range(relations)
      BY <1>0, <1>1 DEF Explains
    <2>3. p[k].from \in Ball[k - 1]
      <3>1. CASE k = 1
        BY <1>1, <2>1, <3>1, BallGrows DEF Explains
      <3>2. CASE k # 1
        <4>1. k - 1 \in 1 .. Len(p) - 1
          BY <1>0, <1>2, <3>2
        <4>2. p[k - 1].to = p[k].from
          BY <1>1, <1>2, <4>1 DEF Explains
        <4> QED
          BY <1>0, <1>3, <3>2, <4>1, <4>2
      <3> QED
        BY <3>1, <3>2
    <2>4. p[k].to \in Ball[k]
      BY <1>1, <2>1, <2>2, <2>3, BallGrows DEF Beyond
    <2> QED
      BY <1>0, <2>1, <2>4
  <1>4. 0 \in T
    BY <1>2
  <1> HIDE DEF T
  <1>5. Len(p) \in T
    <2>1. n \in T
      BY <1>3, <1>4, UpTo
    <2> QED
      BY <1>0, <2>1
  <1> QED
    BY <1>1, <1>2, <1>5 DEF T, p, Explains

\* A ball holds the smaller ones.
LEMMA BallsAreNested ==
  ASSUME maxDepth \in Nat, NEW j \in 0 .. maxDepth
  PROVE  Ball[j] \subseteq Ball[maxDepth]
  <1> DEFINE T == {k \in 0 .. maxDepth : k <= j \/ Ball[j] \subseteq Ball[k]}
  <1>1. 0 \in T
    OBVIOUS
  <1>2. ASSUME NEW k \in 1 .. maxDepth, k - 1 \in T PROVE k \in T
    <2>1. Ball[k - 1] \subseteq Ball[k]
      BY BallGrows
    <2>2. CASE k <= j
      BY <2>2
    <2>3. CASE k > j
      <3>1. Ball[j] \subseteq Ball[k - 1]
        BY <1>2, <2>3
      <3> QED
        BY <2>1, <3>1
    <2> QED
      BY <2>2, <2>3
  <1> HIDE DEF T
  <1>3. maxDepth \in T
    BY <1>1, <1>2, UpTo
  <1> QED
    BY <1>3 DEF T

\* A finished walk has reached what is within its bound, with no more hops than
\* it takes.
LEMMA BallsAreReached ==
  ASSUME IInv, WalkIsExact, at = "done", NEW n \in 0 .. maxDepth
  PROVE  Ball[n] \subseteq {id \in Visited : Hops(id) <= n}
  <1> DEFINE T == {k \in 0 .. maxDepth : Ball[k] \subseteq {id \in Visited : Hops(id) <= k}}
  <1>1. maxDepth \in Nat /\ relations \in Seq(Links)
    BY DEF IInv, TypeOK
  <1>2. \A id \in Visited : Hops(id) \in Nat
    BY DEF IInv, TypeOK, Visited, Hops, PathTo
  <1>3. 0 \in T
    <2>1. Ball[0] = Range(seeds)
      BY <1>1, BallGrows
    <2> QED
      BY <1>1, <2>1 DEF Visited, Hops
  <1>4. ASSUME NEW k \in 1 .. maxDepth, k - 1 \in T PROVE k \in T
    <2>1. Ball[k] = Ball[k - 1] \cup Beyond(Range(relations), Ball[k - 1])
      BY <1>1, BallGrows
    <2>2. Ball[k - 1] \subseteq {id \in Visited : Hops(id) <= k - 1}
      BY <1>4
    <2>3. ASSUME NEW id \in Ball[k] PROVE id \in Visited /\ Hops(id) <= k
      <3>1. CASE id \in Ball[k - 1]
        BY <1>1, <1>2, <2>2, <3>1
      <3>2. CASE id \in Beyond(Range(relations), Ball[k - 1])
        <4>1. PICK r \in Range(relations) : r.from \in Ball[k - 1] /\ id = r.to
          BY <3>2 DEF Beyond
        <4>2. PICK e \in 1 .. Len(relations) : relations[e] = r
          BY <1>1, <4>1, LenProperties DEF Range
        <4>3. r.from \in Visited /\ Hops(r.from) <= k - 1 /\ Hops(r.from) < maxDepth
          BY <1>1, <1>2, <2>2, <4>1
        <4>4. r.to \in Visited /\ Hops(r.to) <= Hops(r.from) + 1
          BY <4>2, <4>3 DEF WalkIsExact
        <4> QED
          BY <1>2, <4>1, <4>3, <4>4
      <3> QED
        BY <2>1, <3>1, <3>2
    <2> QED
      BY <2>3
  <1> HIDE DEF T
  <1>5. n \in T
    BY <1>1, <1>3, <1>4, UpTo
  <1> QED
    BY <1>5 DEF T

\* The invariant makes a finished walk reach exactly what is within its bound.
LEMMA EndIsShortest ==
  ASSUME IInv
  PROVE  WalkIsShortest
  <1>0. WalkIsExact
    BY EndIsExact
  <1> SUFFICES ASSUME at = "done"
               PROVE  /\ Visited = Ball[maxDepth]
                      /\ \A id \in DOMAIN paths : id \notin Ball[Len(paths[id]) - 1]
    BY DEF WalkIsShortest
  <1>1. maxDepth \in Nat /\ maxDepth \in 0 .. maxDepth
    BY DEF IInv, TypeOK
  <1>2. ASSUME NEW id \in DOMAIN paths
        PROVE  /\ Len(paths[id]) \in 1 .. maxDepth
               /\ id \notin Range(seeds)
    <2>1. paths[id] \in Seq(Links) /\ paths[id] # <<>> /\ Len(paths[id]) <= depth
          /\ depth \in 0 .. maxDepth /\ id \notin Range(seeds)
      BY DEF IInv, TypeOK, Explained, Reach
    <2> QED
      BY <1>1, <2>1, EmptySeq
  <1>3. Ball[maxDepth] \subseteq Visited
    BY <1>0, <1>1, BallsAreReached
  <1>4. ASSUME NEW id \in Visited PROVE id \in Ball[maxDepth]
    <2>1. CASE id \in Range(seeds)
      <3>1. Ball[0] = Range(seeds) /\ Ball[0] \subseteq Ball[maxDepth]
        BY <1>1, BallGrows, BallsAreNested
      <3> QED
        BY <2>1, <3>1
    <2>2. CASE id \in DOMAIN paths
      <3>1. Len(paths[id]) \in 0 .. maxDepth /\ id \in Ball[Len(paths[id])]
        BY <1>1, <1>2, <2>2, PathsStayInBall
      <3> QED
        BY <1>1, <3>1, BallsAreNested
    <2> QED
      BY <2>1, <2>2 DEF Visited
  <1>5. ASSUME NEW id \in DOMAIN paths, id \in Ball[Len(paths[id]) - 1] PROVE FALSE
    <2>1. Hops(id) = Len(paths[id])
      BY <1>2 DEF Hops, PathTo
    <2>2. Len(paths[id]) - 1 \in 0 .. maxDepth
      BY <1>1, <1>2
    <2>3. Hops(id) <= Len(paths[id]) - 1
      BY <1>0, <1>5, <2>2, BallsAreReached
    <2> QED
      BY <1>1, <1>2, <2>1, <2>3
  <1> QED
    BY <1>3, <1>4, <1>5

\* A finished walk has reached exactly what is within maxDepth relations of a
\* seed, each by one of its shortest paths.
THEOREM WalksAreShortest == Spec => []WalkIsShortest
  <1>1. IInv => WalkIsShortest
    BY EndIsShortest
  <1> QED
    BY <1>1, WalkInvariant, PTL
=============================================================================
