----------------------------- MODULE MCReachable -----------------------------
(***************************************************************************)
(* Instances of Reachable.tla for TLC: every model of four relations over  *)
(* four entities, in every order, with loops, diamonds and dead ends.      *)
(***************************************************************************)
EXTENDS Reachable

MCIds == {"a", "b", "c", "d"}

Edge(f, t) == [from |-> f, to |-> t]

MCLinks == {Edge("a", "b"), Edge("a", "c"), Edge("b", "c"), Edge("c", "b"),
            Edge("b", "d"), Edge("c", "d"), Edge("d", "a"), Edge("d", "d")}

MCModels == [1 .. 4 -> MCLinks] \cup {<<>>}

\* One changed file, two of them, one named twice.
MCStarts == {<<"a">>, <<"a", "d">>, <<"b", "b">>}

MCDepths == 0 .. 3
=============================================================================
