----------------------------- MODULE MCRunCommand -----------------------------
(***************************************************************************)
(* Instances of RunCommand.tla for TLC.                                    *)
(***************************************************************************)
EXTENDS RunCommand

MCTags == {"smoke", "slow"}
MCKeys == {"k", ""}

Http == [kind |-> "http", always |-> FALSE]
Scn(name, tags, key, steps) == [name |-> name, tags |-> tags, key |-> key, steps |-> steps]

\* With a cleanup step; with a condition; without a key or a tag, without a
\* step; with an unresolved key.
Order  == Scn("order", {"smoke"}, "k", <<Http, [Http EXCEPT !.always = TRUE]>>)
Refund == Scn("refund", {"smoke", "slow"}, "k", <<[Http EXCEPT !.kind = "condition"], Http>>)
Check  == Scn("check", {}, NoKey, <<Http>>)
Idle   == Scn("idle", {"slow"}, "", <<>>)
Broken == Scn("broken", {"smoke"}, BadKey, <<Http>>)

MCScenarios == {Order, Refund, Check, Idle, Broken}

Given == {<<Order, Refund>>, <<Refund, Check, Order>>, <<Broken>>, <<Idle, Broken, Check>>, <<Refund, Idle>>}

MCInvocations ==
  [flags : {"ok"}, load : {"ok"}, format : {"text", "json", "junit"}, given : Given,
   include : {{}, {"smoke"}}, exclude : {{}, {"slow"}, {"smoke"}}]
  \cup
  [flags : {"ok", "invalid", "missing"}, load : {"ok", "env", "spec", "scenario"}, format : {"text"},
   given : {<<Check>>}, include : {{}}, exclude : {{}}]
=============================================================================
