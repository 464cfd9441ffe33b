------------------------------- MODULE MCImpact -------------------------------
(***************************************************************************)
(* An instance of Impact.tla for TLC: the sample repositories, changes to  *)
(* files that are there, are gone, or never belonged to a service, every   *)
(* combination of selectors, and --verify with one spec or another.        *)
(***************************************************************************)
EXTENDS Impact, SampleRepositories

Line(s, p) == [status |-> s, prev |-> p, path |-> p]

MCChanges ==
  ("working tree" :> {<<Line("M", <<"shop", "cart.go">>)>>, <<Line("D", <<"pay", "old.go">>)>>}) @@
  ("commit" :> {<<>>, <<Line("M", <<"pay", "fee.go">>)>>}) @@
  ("range" :>
     {<<[status |-> "R", prev |-> <<"pay", "old.go">>, path |-> <<"pay", "fee.go">>],
        Line("M", <<"pay", "openapi.yml">>)>>}) @@
  ("pull request" :> {<<Line("A", <<"README">>), Line("M", <<"openapi.yml">>)>>})

Call(given) ==
  [surface |-> "tool", given |-> given, format |-> "text", verify |-> FALSE,
   openapi |-> None, environment |-> None]

Command(given) == [Call(given) EXCEPT !.surface = "command"]

Verify(given, spec) ==
  [Command(given) EXCEPT !.verify = TRUE, !.openapi = spec, !.environment = TRUE]

MCRequests ==
  {Call(given) : given \in (SUBSET Selectors) \ {{"base", "head"}, {"pr"}}} \cup
  {Command(given) : given \in {g \in SUBSET Selectors : Cardinality(g) > 2 \/ g = {"head"} \/ g = {"base", "pr"}}} \cup
  {[Command({}) EXCEPT !.format = "yaml"],
   [Command({"base", "head"}) EXCEPT !.verify = TRUE, !.openapi = <<"pay", "openapi.yml">>],
   [Verify({"pr"}, <<"README">>) EXCEPT !.format = "json"],
   Verify({"commit"}, <<"pay", "openapi.yml">>), Verify({"base", "head"}, <<"ledger", "openapi.yml">>),
   Verify({}, <<"pay", "openapi.yml">>)}
=============================================================================
