------------------------------ MODULE MCEngine ------------------------------
(***************************************************************************)
(* Instances of Engine.tla for TLC: a handful of scenarios, each chosen    *)
(* for what it makes possible.                                             *)
(***************************************************************************)
EXTENDS Engine, TLC

MCVars == {"id", "state"}

\* Two numbers, a word and the empty string.
MCValues == {"7", "9", "open", ""}
MCNumber == ("7" :> 7) @@ ("9" :> 9)

MCCodes == {200, 401, 503}

Unset == [v \in Vars |-> Absent]

\* An operation step with no options at all, and a condition step.
Call == [kind |-> "http", always |-> FALSE, sound |-> TRUE,
         timed |-> FALSE, limited |-> FALSE,
         max |-> 1, netErr |-> FALSE, codes |-> {},
         needs |-> {}, extracts |-> {}, compares |-> {},
         accepts |-> Codes, checksBody |-> FALSE]
If(l, o, r) == [kind |-> "condition", always |-> FALSE, op |-> o, lhs |-> l, rhs |-> r]

Create  == [Call EXCEPT !.extracts = {"id"}, !.max = 2, !.netErr = TRUE]
Read    == [Call EXCEPT !.needs = {"id"}, !.accepts = {200}]
Cleanup == [Call EXCEPT !.always = TRUE, !.needs = {"id"}]
Poll    == [Call EXCEPT !.timed = TRUE, !.max = 3, !.codes = {503},
                        !.netErr = TRUE, !.extracts = {"state"}]

\* docs/scenarios.md: write, read back, clean up, under a workflow deadline.
WriteReadCleanup == [timed |-> TRUE, steps |-> <<Create, Read, Cleanup>>]

\* A rate-limited step polled under its own deadline, then a condition on what
\* it extracted.
PollThenCompare ==
  [timed |-> FALSE,
   steps |-> <<[Poll EXCEPT !.limited = TRUE], If("state", "greater_than", "7")>>]

\* Two paths to extract, of which one may match; a cleanup step reads them.
PartialExtraction ==
  [timed |-> FALSE,
   steps |-> <<[Call EXCEPT !.extracts = {"id", "state"}],
               [Call EXCEPT !.needs = {"state"}], Cleanup>>]

\* An unknown operation under a network retry, with a cleanup that cannot
\* resolve its variable and is rate-limited under a deadline.
Misconfigured ==
  [timed |-> TRUE,
   steps |-> <<[Call EXCEPT !.sound = FALSE, !.max = 2, !.netErr = TRUE],
               [Cleanup EXCEPT !.limited = TRUE, !.timed = TRUE]>>]

\* Body assertions, one against a variable, retried on a listed status.
Compare ==
  [timed |-> FALSE,
   steps |-> <<[Call EXCEPT !.checksBody = TRUE, !.compares = {"state"},
                            !.codes = {200, 503}, !.max = 2, !.extracts = {"id"}],
               Read>>]

\* The retry example of docs/scenario-reference.md: one status asserted,
\* another one listed for retry.
RetryAsDocumented ==
  [timed |-> FALSE,
   steps |-> <<[Call EXCEPT !.accepts = {200}, !.codes = {503}, !.max = 2]>>]

\* Conditions of every kind on a seeded or absent variable, at the end of a
\* run whose deadline may pass meanwhile.
Conditions ==
  {[timed |-> TRUE, steps |-> <<Call, If("state", o, r), If("7", "less_than", "9")>>] :
     o \in UnaryOps \cup Orderings \cup {"equals", "not_equals"}, r \in {"id", "7"}}

MCRuns == {WriteReadCleanup, PollThenCompare, PartialExtraction, Misconfigured,
           Compare, RetryAsDocumented, [timed |-> FALSE, steps |-> <<>>]} \cup Conditions

MCSeeds == {Unset} \cup {[Unset EXCEPT !["state"] = v] : v \in Values}

\* One store only, for the larger instances.
MCUnset == {Unset}

MCModes == [strict : BOOLEAN, trace : {FALSE}]
=============================================================================
