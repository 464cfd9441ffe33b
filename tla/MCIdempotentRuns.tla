-------------------------- MODULE MCIdempotentRuns --------------------------
(***************************************************************************)
(* Instances of IdempotentRuns.tla for TLC.                                *)
(***************************************************************************)
EXTENDS IdempotentRuns, TLC

\* The webhook server: three deliveries that share a key (two of one scenario,
\* one of another) and one whose key substitutes to the empty string.
ServerRequests == {"a", "b", "c", "d"}
ServerKeyOf == ("a" :> "k") @@ ("b" :> "k") @@ ("c" :> "k") @@ ("d" :> "")
ServerScenarioOf == [r \in ServerRequests |-> IF r = "c" THEN "refund" ELSE "order"]

\* The run command: the same, a second empty key, none and an unresolved one.
CommandRequests == {"a", "c", "d", "e", "f", "g", "h"}
CommandKeyOf == ("a" :> "k") @@ ("c" :> "k") @@ ("d" :> "") @@ ("e" :> "") @@
                ("f" :> "k") @@ ("g" :> NoKey) @@ ("h" :> BadKey)
CommandScenarioOf == [r \in CommandRequests |-> IF r = "c" THEN "refund" ELSE "order"]

MCKeys == {"k", ""}
MCStatuses == {"PASSED", "FAILED"}
MCScenarios == {"order", "refund"}
=============================================================================
