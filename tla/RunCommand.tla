------------------------------ MODULE RunCommand ------------------------------
(***************************************************************************)
(* kaktoos run from its flags to its exit code: the files are loaded, the  *)
(* scenarios filtered by tag and run one after another with one            *)
(* idempotency store, and the results reported as text, JSON or JUnit.     *)
(* CI reads nothing but the report and the exit code, and each of them     *)
(* goes over the results on its own: they have to agree.                   *)
(*                                                                         *)
(* A run is what ScenarioRun.tla promises of it; Engine.tla shows how.     *)
(***************************************************************************)
EXTENDS Naturals, FiniteSetsExt, SequencesExt, Verification

CONSTANTS
  Scenarios,    \* the scenarios that may be given
  Tags,
  Keys,         \* what an idempotency_key may substitute to
  EmptyKey,     \* the empty string, one of Keys
  NoKey,        \* marks a scenario without a key
  BadKey,       \* marks a key template with an unresolved variable
  None,
  Invocations   \* the command lines

\* load is what the given files do: load, or the first that does not ("env",
\* "spec", "scenario").  flags: accepted, refused by the command, or a required
\* one missing, which cobra refuses.
ASSUME InvocationsAssumption ==
  \A i \in Invocations :
    /\ i.flags \in {"ok", "invalid", "missing"}
    /\ i.load \in {"ok", "env", "spec", "scenario"}
    /\ i.format \in {"text", "json", "junit"}
    /\ i.given \in Seq(Scenarios) /\ i.given # <<>>
    /\ i.include \subseteq Tags /\ i.exclude \subseteq Tags

\* steps: of which kind each step is and whether it is a cleanup step.
ASSUME ScenariosAssumption ==
  \A s \in Scenarios :
    /\ s.tags \subseteq Tags
    /\ s.key \in Keys \cup {NoKey, BadKey}
    /\ s.steps \in Seq([kind : {"http", "condition"}, always : BOOLEAN])

\* No exit code, no record of a run.
ASSUME NoneAssumption == None \notin Nat

ASSUME KeysAssumption == EmptyKey \in Keys /\ {NoKey, BadKey} \cap Keys = {} /\ NoKey # BadKey

VARIABLES
  inv,       \* the command line
  stage,     \* "start", "run", "report", "exited"
  selected,  \* the scenarios that match the filters
  memory,    \* the idempotency store: the completed result of each key
  results,   \* one per scenario run
  at,        \* the result being reported
  summary,   \* of the JSON report
  suites,    \* of the JUnit report
  detailed,  \* the failed steps whose error the text report has shown
  exit       \* the exit code, None before

vars == <<inv, stage, selected, memory, results, at, summary, suites, detailed, exit>>

-----------------------------------------------------------------------------
(* What the engine returns                                                 *)

Failures == {"FAILED", "TIMED_OUT"}

\* A step result as far as a report reads it.  says: its error has the word
\* "assertion" in it, as "assertion failed: ..." and "assertion equals
\* substitution failed: ..." have, and "schema violation: ...", which comes
\* first, or "HTTP request failed: ..." have not.  broken: an assertion of the
\* step did not hold.
StepResult(status, kind, cat, says, broken) ==
  [status |-> status, kind |-> kind, cat |-> cat, says |-> says, broken |-> broken]

\* By status code, whichever check failed the step.
AnsweredCategories == {"auth_failure", "rate_limited", "server_error"}

Failed(kind) ==
  IF kind = "condition"
    THEN {StepResult("FAILED", kind, c, FALSE, FALSE) : c \in {"assertion_failed", "config_error"}}
    ELSE {StepResult("FAILED", kind, c, says, broken) :
            c \in AnsweredCategories, says \in BOOLEAN, broken \in BOOLEAN}
         \cup {StepResult("FAILED", kind, c, FALSE, FALSE) : c \in {"transport_failure", "timeout", "config_error"}}
         \cup {StepResult("FAILED", kind, "assertion_failed", TRUE, broken) : broken \in BOOLEAN}
         \cup {StepResult("FAILED", kind, "contract_mismatch", FALSE, broken) : broken \in BOOLEAN}
         \cup {StepResult("FAILED", kind, "contract_mismatch", TRUE, FALSE),
               StepResult("TIMED_OUT", kind, "timeout", FALSE, FALSE)}

\* A skipped step has no StepType.
StepResults(kind) ==
  Failed(kind) \cup {StepResult("PASSED", kind, "none", FALSE, FALSE),
                     StepResult("SKIPPED", "none", "none", FALSE, FALSE)}

FailedBefore(o, k) == \E j \in 1 .. k - 1 : o[j].status \in Failures

\* What a scenario's steps may come to.
Outcomes(s) ==
  {o \in [DOMAIN s.steps -> UNION {StepResults(kind) : kind \in {"http", "condition"}}] :
     \A k \in DOMAIN s.steps :
       /\ o[k] \in StepResults(s.steps[k].kind)
       /\ o[k].status = "SKIPPED" <=> FailedBefore(o, k) /\ ~s.steps[k].always}

Verdict(o) ==
  IF ~FailedBefore(o, Len(o) + 1) THEN "PASSED"
  ELSE IF \E k \in DOMAIN o : o[k].status = "TIMED_OUT" THEN "TIMED_OUT"
  ELSE "FAILED"

\* of: the scenario that was executed; replayed: the result is from the store.
ExecutionResult(s, steps, status) ==
  [of |-> s, steps |-> steps, status |-> status, passed |-> status = "PASSED", replayed |-> FALSE]

\* A record keeps the name, the status and the error of a step, nothing else.
Rebuilt(r) ==
  [r EXCEPT !.replayed = TRUE,
            !.steps = [k \in DOMAIN r.steps |->
                         StepResult(r.steps[k].status, "none", "none", r.steps[k].says, FALSE)]]

-----------------------------------------------------------------------------
(* The reporter                                                            *)

\* A slip: the wording of the error decides first.
IsAssertionFailure_ByWording(s) == s.says \/ s.kind = "condition"

\* isAssertionFailure: the category decides; without one (a replay) the step's
\* type and its assertions, which are lost too, and the wording of the error.
IsAssertionFailure(s) ==
  IF s.cat # "none" THEN s.cat \in {"assertion_failed", "contract_mismatch"}
  ELSE s.kind = "condition" \/ s.broken \/ s.says

JUnitFailed(steps) ==
  {k \in DOMAIN steps : steps[k].status \notin {"PASSED", "SKIPPED"}}

Suite(r) ==
  LET failures == {k \in JUnitFailed(r.steps) : IsAssertionFailure(r.steps[k])}
  IN [tests    |-> Len(r.steps),
      failures |-> Cardinality(failures),
      errors   |-> Cardinality(JUnitFailed(r.steps) \ failures)]

\* A slip: a run that timed out has not failed.
Counted_TimedOutApart(sum, r) ==
  [total |-> sum.total + 1,
   passed |-> sum.passed + (IF r.passed THEN 1 ELSE 0),
   failed |-> sum.failed + (IF r.status = "FAILED" THEN 1 ELSE 0),
   timedOut |-> sum.timedOut + (IF r.status = "TIMED_OUT" THEN 1 ELSE 0)]

Counted(sum, r) ==
  [total |-> sum.total + 1,
   passed |-> sum.passed + (IF r.passed THEN 1 ELSE 0),
   failed |-> sum.failed + (IF r.passed THEN 0 ELSE 1),
   timedOut |-> sum.timedOut + (IF r.status = "TIMED_OUT" THEN 1 ELSE 0)]

\* A slip: the last result decides.
ExitCode_LastResult(rs) == IF Last(rs).passed THEN 0 ELSE 1

ExitCode(rs) == IF \E k \in DOMAIN rs : ~rs[k].passed THEN 1 ELSE 0

-----------------------------------------------------------------------------

\* --tag, then --exclude-tag; without tags a scenario matches neither.
Matches(i, s) ==
  /\ i.include # {} => s.tags \cap i.include # {}
  /\ s.tags \cap i.exclude = {}

\* filterByTags: the scenarios that match, in the order given.
Selection(i) ==
  LET kept[k \in 0 .. Len(i.given)] ==
        IF k = 0 THEN <<>>
        ELSE IF Matches(i, i.given[k]) THEN Append(kept[k - 1], i.given[k])
        ELSE kept[k - 1]
  IN kept[Len(i.given)]

Init ==
  /\ inv \in Invocations
  /\ stage = "start"
  /\ selected = <<>>
  /\ memory = [k \in Keys |-> None]
  /\ results = <<>>
  /\ at = 1
  /\ summary = [total |-> 0, passed |-> 0, failed |-> 0, timedOut |-> 0]
  /\ suites = <<>>
  /\ detailed = {}
  /\ exit = None

Exit(n) ==
  /\ stage' = "exited"
  /\ exit' = n
  /\ UNCHANGED <<inv, selected, memory, results, at, summary, suites, detailed>>

\* An unknown format or schema mode; a scenario that is not given at all.
RejectFlags ==
  /\ stage = "start"
  /\ inv.flags = "invalid"
  /\ Exit(2)

\* The error is returned to cobra, and Execute exits with 1.
FailToLoad ==
  /\ stage = "start"
  /\ \/ inv.flags = "missing"
     \/ inv.flags = "ok" /\ inv.load # "ok"
  /\ Exit(1)

Select ==
  /\ stage = "start"
  /\ inv.flags = "ok" /\ inv.load = "ok"
  /\ selected' = Selection(inv)
  /\ stage' = "run"
  /\ UNCHANGED <<inv, memory, results, at, summary, suites, detailed, exit>>

NothingSelected ==
  /\ stage = "run"
  /\ selected = <<>>
  /\ Exit(2)

Scenario == selected[Len(results) + 1]

MoreToRun == stage = "run" /\ Len(results) < Len(selected)

Return(r) ==
  /\ results' = Append(results, r)
  /\ UNCHANGED <<inv, stage, selected, at, summary, suites, detailed, exit>>

\* A FAILED result without steps.
RejectKey ==
  /\ MoreToRun
  /\ Scenario.key = BadKey
  /\ Return(ExecutionResult(Scenario, <<>>, "FAILED"))
  /\ UNCHANGED memory

Replayable == Scenario.key \in Keys /\ memory[Scenario.key] # None

Replay ==
  /\ MoreToRun
  /\ Replayable
  /\ Return(Rebuilt(memory[Scenario.key]))
  /\ UNCHANGED memory

Execute ==
  /\ MoreToRun
  /\ Scenario.key # BadKey
  /\ ~Replayable
  /\ \E o \in Outcomes(Scenario) :
       LET r == ExecutionResult(Scenario, o, Verdict(o))
       IN /\ Return(r)
          /\ memory' = [k \in Keys |->
                          IF k = Scenario.key /\ k # EmptyKey THEN r ELSE memory[k]]

StartReport ==
  /\ stage = "run"
  /\ selected # <<>>
  /\ Len(results) = Len(selected)
  /\ stage' = "report"
  /\ UNCHANGED <<inv, selected, memory, results, at, summary, suites, detailed, exit>>

\* One turn of the loop of Report, ReportJSON or ReportJUnit.  The text report
\* shows the error of a step that FAILED, not of one that TIMED_OUT.
ReportResult ==
  /\ stage = "report"
  /\ at <= Len(results)
  /\ LET r == results[at]
     IN /\ summary' = IF inv.format = "json" THEN Counted(summary, r) ELSE summary
        /\ suites' = IF inv.format = "junit" THEN Append(suites, Suite(r)) ELSE suites
        /\ detailed' = IF inv.format = "text"
             THEN detailed \cup {<<at, k>> : k \in {j \in DOMAIN r.steps : r.steps[j].status = "FAILED"}}
             ELSE detailed
  /\ at' = at + 1
  /\ UNCHANGED <<inv, stage, selected, memory, results, exit>>

Finish ==
  /\ stage = "report"
  /\ at > Len(results)
  /\ Exit(ExitCode(results))

Exited == stage = "exited" /\ UNCHANGED vars

Next ==
  \/ RejectFlags \/ FailToLoad \/ Select \/ NothingSelected
  \/ RejectKey \/ Replay \/ Execute
  \/ StartReport \/ ReportResult \/ Finish \/ Exited

Spec == Init /\ [][Next]_vars

-----------------------------------------------------------------------------
(* Correctness                                                             *)

Reported == stage = "exited" /\ results # <<>>

\* Exit code 0 (README.md: "all scenarios passed"): something ran, and each
\* scenario given that matches the filters, and no other, was executed with
\* every step passed or answered by such a run of its key.
GreenMeansAllPassed ==
  exit = 0 =>
    /\ results # <<>> /\ Len(results) = Len(selected)
    /\ Range(selected) = {s \in Range(inv.given) : Matches(inv, s)}
    /\ \A k \in DOMAIN results :
         /\ results[k].of = selected[k] \/ (results[k].replayed /\ results[k].of.key = selected[k].key)
         /\ Len(results[k].steps) = Len(results[k].of.steps)
         /\ \A j \in DOMAIN results[k].steps : results[k].steps[j].status = "PASSED"

\* The JSON summary accounts for every scenario once and agrees with the exit
\* code; a run that timed out is one that failed.
SummaryAgreesWithExit ==
  Reported /\ inv.format = "json" =>
    /\ summary.total = Len(selected)
    /\ summary.total = summary.passed + summary.failed
    /\ summary.timedOut <= summary.failed
    /\ summary.failed = 0 <=> exit = 0

\* README.md, "JUnit behavior, routed by failure_category": the assertion_failed
\* and contract_mismatch steps are failures.
RedByCategory(s) == s.cat \in {"assertion_failed", "contract_mismatch"}

\* The comment of ReportJUnit: a step is a failure when assertions failed or a
\* condition evaluated false.
RedByComment(s) == s.broken \/ (s.kind = "condition" /\ s.cat = "assertion_failed")

\* Of what was executed, the failures of a suite are at least the steps that
\* both texts make a failure and its errors at least those that neither does,
\* so a step is routed by what it came to and not by how its error is worded;
\* the texts disagree about the rest (a broken assertion with a 503).  Whether
\* executed or replayed, each step that FAILED or TIMED_OUT is counted once and
\* no other is, and a suite without either belongs to a run that passed or had
\* no steps.
JUnitRoutesByCategory ==
  Reported /\ inv.format = "junit" =>
    /\ Len(suites) = Len(results)
    /\ \A k \in DOMAIN results :
         LET steps  == results[k].steps
             failed == {n \in DOMAIN steps : steps[n].status \in Failures}
         IN /\ suites[k].failures + suites[k].errors = Cardinality(failed)
            /\ failed = {} => results[k].passed \/ steps = <<>>
            /\ ~results[k].replayed =>
                 /\ suites[k].failures >=
                      Cardinality({n \in failed : RedByCategory(steps[n]) /\ RedByComment(steps[n])})
                 /\ suites[k].errors >=
                      Cardinality({n \in failed : ~RedByCategory(steps[n]) /\ ~RedByComment(steps[n])})
=============================================================================
