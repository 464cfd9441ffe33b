------------------------------- MODULE Engine -------------------------------
(***************************************************************************)
(* One run of a scenario by internal/engine: RunScenario's loop over the   *)
(* steps, executeStep's attempts under a step and a workflow deadline,     *)
(* executeSingleStep's request, extraction and assertions, and             *)
(* executeConditionStep.  The engine is a single goroutine; what makes it  *)
(* hard is everything that moves under it: the target answers, refuses or  *)
(* stays silent, and two deadlines may pass between any two steps of it.   *)
(*                                                                         *)
(* The idempotency prelude and epilogue of RunScenario are in              *)
(* IdempotentRuns.tla; this module is a run that was not replayed.         *)
(***************************************************************************)
EXTENDS Integers, FiniteSets, Sequences, Verification

CONSTANTS
  Vars,     \* the names of scenario variables
  Values,   \* the values a variable may hold
  Absent,   \* marks a variable that is not in the store
  Empty,    \* the empty string, one of Values
  Number,   \* the number each numeric value parses to (strconv.ParseFloat)
  Codes,    \* the HTTP status codes the target may answer with
  Runs,     \* the scenarios that may be run
  Seeds,    \* the variable stores a run may start from
  Modes     \* the engine settings: strict schema validation, tracing

\* A condition step, as scenario.Load admits it: one known operator, the
\* operands a variable ($name) or a literal, no retry, never always_run.
UnaryOps  == {"exists", "not_exists"}
Orderings == {"greater_than", "less_than",
              "greater_than_or_equal", "less_than_or_equal"}
ConditionSteps ==
  [kind : {"condition"}, always : {FALSE},
   op : UnaryOps \cup Orderings \cup {"equals", "not_equals"},
   lhs : Vars \cup Values, rhs : Vars \cup Values]

\* An operation step.  "sound": the operation is declared, the template
\* functions evaluate and the request can be built.  "timed", "limited": the
\* step has its own timeout, the operation a rate limit.  max, netErr and
\* codes are the retry policy (no policy is one attempt).  needs, extracts and
\* compares are the variables the request, the extract block and the
\* assert.equals values name; accepts is the asserted status (all of Codes
\* when none is asserted), checksBody whether assert has body assertions.
HttpSteps ==
  [kind : {"http"}, always : BOOLEAN, sound : BOOLEAN,
   timed : BOOLEAN, limited : BOOLEAN,
   max : 1 .. 10, netErr : BOOLEAN, codes : SUBSET Codes,
   needs : SUBSET Vars, extracts : SUBSET Vars, compares : SUBSET Vars,
   accepts : SUBSET Codes, checksBody : BOOLEAN]

ASSUME ValuesAssumption ==
  /\ Absent \notin Values
  /\ Empty \in Values
  /\ Vars \cap Values = {}
  /\ DOMAIN Number \subseteq Values
  /\ \A v \in DOMAIN Number : Number[v] \in Int

ASSUME CodesAssumption == Codes \subseteq 100 .. 599

ASSUME RunsAssumption ==
  \A r \in Runs : /\ r.steps \in Seq(HttpSteps \cup ConditionSteps)
                  /\ r.timed \in BOOLEAN    \* it has a workflow_timeout

ASSUME SeedsAssumption == Seeds \subseteq [Vars -> Values \cup {Absent}]

ASSUME ModesAssumption == Modes \subseteq [strict : BOOLEAN, trace : BOOLEAN]

VARIABLES
  run,         \* the scenario
  mode,        \* the settings of the ExecutionContext
  pc,          \* where the engine is
  results,     \* executionResult.Steps
  stepFailed,  \* a step failed or timed out; also the negation of Passed
  attempts,    \* the attempts of the step being executed
  code,        \* the status of the response being processed, 0 if none
  store,       \* the variable store
  wfExpired,   \* the workflow deadline has passed
  stExpired,   \* the deadline of the step being executed has passed
  status,      \* "RUNNING", then executionResult.Status
  sent,        \* history: the requests sent for each step
  writer       \* history: the step that last wrote each variable, 0 if none

vars == <<run, mode, pc, results, stepFailed, attempts, code, store,
          wfExpired, stExpired, status, sent, writer>>

-----------------------------------------------------------------------------
(* The step the loop is at, and its context.                               *)

Failures == {"FAILED", "TIMED_OUT"}

cur == Len(results) + 1
Step == run.steps[cur]

\* A slip: the step context is not derived from the workflow's.
Expired_StepOnly == stExpired

\* stepCtx.Err() # nil: the step context is derived from the workflow's.
Expired == wfExpired \/ stExpired

HasDeadline == run.timed \/ Step.timed

-----------------------------------------------------------------------------
(* executeConditionStep                                                    *)

Operand(x) == IF x \in Vars THEN store[x] ELSE x

OrEmpty(v) == IF v = Absent THEN Empty ELSE v

\* A missing left operand, or an ordering of something that is not a number;
\* a missing right operand silently reads as the empty string.
Malformed(s) ==
  /\ s.op \notin UnaryOps
  /\ \/ Operand(s.lhs) = Absent
     \/ /\ s.op \in Orderings
        /\ ~({Operand(s.lhs), OrEmpty(Operand(s.rhs))} \subseteq DOMAIN Number)

Satisfied(s) ==
  LET l == Operand(s.lhs)
      r == OrEmpty(Operand(s.rhs))
  IN CASE s.op = "exists"                -> l # Absent
       [] s.op = "not_exists"            -> l = Absent
       [] s.op = "equals"                -> l = r
       [] s.op = "not_equals"            -> l # r
       [] s.op = "greater_than"          -> Number[l] > Number[r]
       [] s.op = "less_than"             -> Number[l] < Number[r]
       [] s.op = "greater_than_or_equal" -> Number[l] >= Number[r]
       [] s.op = "less_than_or_equal"    -> Number[l] =< Number[r]

ConditionCategory(s) ==
  IF Malformed(s) THEN "config_error"
  ELSE IF Satisfied(s) THEN "none"
  ELSE "assertion_failed"

ConditionResult(s) ==
  [status   |-> IF ConditionCategory(s) = "none" THEN "PASSED" ELSE "FAILED",
   cat      |-> ConditionCategory(s),
   attempts |-> <<>>,
   evidence |-> FALSE]

SkippedResult ==
  [status |-> "SKIPPED", cat |-> "none", attempts |-> <<>>, evidence |-> FALSE]

-----------------------------------------------------------------------------
(* Attempts and the results made from them                                 *)

\* An AttemptResult; "built": a request was built (tracedReq # nil).
Attempts ==
  [passed : {TRUE}, code : Codes \cup {0}, cat : {"none"}, built : BOOLEAN]
  \cup
  [passed : {FALSE}, code : Codes \cup {0}, cat : Categories, built : BOOLEAN]

PassedAttempt(c) == [passed |-> TRUE, code |-> c, cat |-> "none", built |-> TRUE]

\* A slip: only a failure with a response is classified.
FailedAttempt_AnsweredOnly(c, built, transport, badExtract, violated) ==
  [passed |-> FALSE,
   code   |-> c,
   cat    |-> IF c = 0 THEN "none"
              ELSE Classify([status |-> c, violated |-> violated,
                             transport |-> transport, timedOut |-> FALSE,
                             config |-> badExtract]),
   built  |-> built]

\* The deferred classification of executeSingleStep.
FailedAttempt(c, built, transport, badExtract, violated) ==
  [passed |-> FALSE,
   code   |-> c,
   cat    |-> Classify([status    |-> c,
                        violated  |-> violated,
                        transport |-> transport,
                        timedOut  |-> FALSE,
                        config    |-> (c = 0 /\ transport = "nil") \/ badExtract]),
   built  |-> built]

\* A slip: every failed attempt is retried under network_errors.
Retryable_AnyFailure(s, a) ==
  IF a.passed THEN a.code \in s.codes ELSE s.netErr

\* retryable: a failed attempt only if no response arrived, a passed one only
\* if its status is listed.
Retryable(s, a) ==
  IF a.passed THEN a.code \in s.codes ELSE a.code = 0 /\ s.netErr

\* The request an attempt can still show: recorded when the attempt failed, or
\* when tracing is on.
Traced(a) == a.built /\ (~a.passed \/ mode.trace)

TimeoutResult(tries) ==
  [status   |-> "TIMED_OUT",
   cat      |-> "timeout",
   attempts |-> tries,
   evidence |-> tries # <<>> /\ Traced(tries[Len(tries)])]

FinalResult(tries) ==
  LET a == tries[Len(tries)]
  IN [status   |-> IF a.passed THEN "PASSED" ELSE "FAILED",
      cat      |-> a.cat,
      attempts |-> tries,
      evidence |-> a.built /\ ~a.passed]

\* A slip: only FAILED, not TIMED_OUT, stops the scenario.
Stops_FailedOnly(r) == r.status = "FAILED"

Stops(r) == r.status \in Failures

\* A slip: the run's status is taken from its last step alone.
RunStatus_LastStep(rs) ==
  IF ~stepFailed THEN "PASSED"
  ELSE IF rs[Len(rs)].status = "TIMED_OUT" THEN "TIMED_OUT"
  ELSE "FAILED"

\* The status of the finished run: one timed-out step makes it TIMED_OUT.
RunStatus(rs) ==
  IF ~stepFailed THEN "PASSED"
  ELSE IF \E k \in 1 .. Len(rs) : rs[k].status = "TIMED_OUT" THEN "TIMED_OUT"
  ELSE "FAILED"

-----------------------------------------------------------------------------
(* RunScenario                                                             *)

Init ==
  /\ run \in Runs
  /\ mode \in Modes
  /\ store \in Seeds
  /\ pc = "loop"
  /\ results = <<>>
  /\ stepFailed = FALSE
  /\ attempts = <<>>
  /\ code = 0
  /\ wfExpired = FALSE
  /\ stExpired = FALSE
  /\ status = "RUNNING"
  /\ sent = [j \in 1 .. Len(run.steps) |-> 0]
  /\ writer = [v \in Vars |-> 0]

\* Appends the result of the current step and goes on to the next one.
Decide(r) ==
  /\ results' = Append(results, r)
  /\ stepFailed' = (stepFailed \/ Stops(r))
  /\ pc' = "loop"
  /\ attempts' = <<>>
  /\ code' = 0
  /\ stExpired' = FALSE
  /\ UNCHANGED <<run, mode, store, wfExpired, status, sent, writer>>

AtStep == pc = "loop" /\ cur <= Len(run.steps)

Skipped == stepFailed /\ ~Step.always

SkipStep ==
  /\ AtStep
  /\ Skipped
  /\ Decide(SkippedResult)

\* A condition step reads the store only: neither deadline is consulted.
ConditionStep ==
  /\ AtStep
  /\ ~Skipped
  /\ Step.kind = "condition"
  /\ Decide(ConditionResult(Step))

\* executeStep is entered: its context is derived from the workflow's.
StartStep ==
  /\ AtStep
  /\ ~Skipped
  /\ Step.kind = "http"
  /\ pc' = "wait"
  /\ UNCHANGED <<run, mode, results, stepFailed, attempts, code, store,
                 wfExpired, stExpired, status, sent, writer>>

\* The loop is over.
Conclude ==
  /\ pc = "loop"
  /\ Len(results) = Len(run.steps)
  /\ pc' = "done"
  /\ status' = RunStatus(results)
  /\ UNCHANGED <<run, mode, results, stepFailed, attempts, code, store,
                 wfExpired, stExpired, sent, writer>>

-----------------------------------------------------------------------------
(* executeStep                                                             *)

Goto(l) ==
  /\ pc' = l
  /\ UNCHANGED <<run, mode, results, stepFailed, attempts, code, store,
                 wfExpired, stExpired, status, sent, writer>>

\* RateLimiter.Wait returns nil: at once when the operation has no limit.
Admitted ==
  /\ pc = "wait"
  /\ Step.limited => ~Expired
  /\ Goto("ready")

\* RateLimiter.Wait fails: the context is done, or it has a deadline that the
\* next token would miss.
Refused ==
  /\ pc = "wait"
  /\ Step.limited
  /\ HasDeadline
  /\ Decide(TimeoutResult(attempts))

\* After an attempt, and in the wait before the next one.
GiveUp ==
  /\ pc \in {"check", "delay"}
  /\ Expired
  /\ Decide(TimeoutResult(attempts))

\* The attempt was the last one the policy allows.
Exhausted(s, tries) == Len(tries) = s.max

Again == Retryable(Step, attempts[Len(attempts)]) /\ ~Exhausted(Step, attempts)

Return ==
  /\ pc = "check"
  /\ ~Expired
  /\ ~Again
  /\ Decide(FinalResult(attempts))

Retry ==
  /\ pc = "check"
  /\ ~Expired
  /\ Again
  /\ Goto("delay")

\* time.After(retryDelay); select may take it even when the deadline has
\* passed as well.
DelayOver ==
  /\ pc = "delay"
  /\ Goto("wait")

-----------------------------------------------------------------------------
(* executeSingleStep                                                       *)

Recorded(tries, a) == Append(tries, a)

\* The attempt ends; the store is left to the caller.
EndAttempt(a) ==
  /\ attempts' = Recorded(attempts, a)
  /\ code' = 0
  /\ pc' = "check"
  /\ UNCHANGED <<run, mode, results, stepFailed, wfExpired, stExpired,
                 status, sent>>

Resolves(names) == \A v \in names : store[v] # Absent

\* The operation is unknown, a variable is unresolved or the request cannot be
\* built: nothing is sent.
RejectRequest ==
  /\ pc = "ready"
  /\ ~(Step.sound /\ Resolves(Step.needs))
  /\ EndAttempt(FailedAttempt(0, FALSE, "nil", FALSE, FALSE))
  /\ UNCHANGED <<store, writer>>

\* client.Do under a context that is already done: nothing is sent.
SendTooLate ==
  /\ pc = "ready"
  /\ Step.sound /\ Resolves(Step.needs)
  /\ Expired
  /\ EndAttempt(FailedAttempt(0, TRUE, "deadline", FALSE, FALSE))
  /\ UNCHANGED <<store, writer>>

Send ==
  /\ pc = "ready"
  /\ Step.sound /\ Resolves(Step.needs)
  /\ ~Expired
  /\ pc' = "flight"
  /\ sent' = [sent EXCEPT ![cur] = @ + 1]
  /\ UNCHANGED <<run, mode, results, stepFailed, attempts, code, store,
                 wfExpired, stExpired, status, writer>>

\* The target's status line and headers arrive.
Answer ==
  /\ pc = "flight"
  /\ \E c \in Codes : code' = c
  /\ pc' = "body"
  /\ UNCHANGED <<run, mode, results, stepFailed, attempts, store,
                 wfExpired, stExpired, status, sent, writer>>

\* The connection is refused or reset, in client.Do or in the body read.
ConnectionLost ==
  /\ pc \in {"flight", "body"}
  /\ EndAttempt(FailedAttempt(code, TRUE, "other", FALSE, FALSE))
  /\ UNCHANGED <<store, writer>>

\* A slip: the client is built without a timeout.
ClientHasTimeout_Missing == FALSE

\* NewClient gives every request 30 seconds, the body read included.
ClientHasTimeout == TRUE

\* The client or a deadline gives up on a request in flight.
AbandonRequest ==
  /\ pc \in {"flight", "body"}
  /\ ClientHasTimeout \/ Expired
  /\ EndAttempt(FailedAttempt(code, TRUE, "deadline", FALSE, FALSE))
  /\ UNCHANGED <<store, writer>>

\* A slip: an extraction that found something counts as a success.
ExtractionFailed_Partial(s, found) == found = {} /\ s.extracts # {}

\* One extract path without a match fails the step.
ExtractionFailed(s, found) == found # s.extracts

\* The response has been read.  variable.Extract writes the variables one by
\* one in map order and stops at the first path without a match (or before the
\* first one, if the body is not JSON), so those written by then stay written;
\* then the assertions are evaluated.  "violated": strict schema violations;
\* "holds": every body assertion holds.
Evaluate ==
  /\ pc = "body"
  /\ \E found \in SUBSET Step.extracts, violated, holds \in BOOLEAN :
     \E vals \in [found -> Values] :
       /\ violated => mode.strict
       /\ ~holds => Step.checksBody
       /\ store' = [v \in Vars |-> IF v \in found THEN vals[v] ELSE store[v]]
       /\ writer' = [v \in Vars |-> IF v \in found THEN cur ELSE writer[v]]
       /\ LET passed == /\ ~violated
                        /\ \A v \in Step.compares : store'[v] # Absent
                        /\ code \in Step.accepts
                        /\ holds
          IN EndAttempt(
               IF ExtractionFailed(Step, found)
                 THEN FailedAttempt(code, TRUE, "nil", TRUE, violated)
               ELSE IF passed THEN PassedAttempt(code)
               ELSE FailedAttempt(code, TRUE, "nil", FALSE, violated))

-----------------------------------------------------------------------------
(* Time                                                                    *)

WorkflowDeadline ==
  /\ run.timed
  /\ pc # "done"
  /\ ~wfExpired
  /\ wfExpired' = TRUE
  /\ UNCHANGED <<run, mode, pc, results, stepFailed, attempts, code, store,
                 stExpired, status, sent, writer>>

StepDeadline ==
  /\ pc \notin {"loop", "done"}
  /\ Step.timed
  /\ ~stExpired
  /\ stExpired' = TRUE
  /\ UNCHANGED <<run, mode, pc, results, stepFailed, attempts, code, store,
                 wfExpired, status, sent, writer>>

\* The result has been returned.
Returned == pc = "done" /\ UNCHANGED vars

-----------------------------------------------------------------------------

\* What the engine itself does: each of these happens once it can, the timers
\* (rate limit, retry delay, client timeout) included.
EngineStep ==
  \/ SkipStep \/ ConditionStep \/ StartStep \/ Conclude
  \/ Admitted \/ Refused \/ GiveUp \/ Return \/ Retry \/ DelayOver
  \/ RejectRequest \/ SendTooLate \/ Send \/ AbandonRequest

\* What the target and the network may do, or not.
TargetStep == Answer \/ ConnectionLost \/ Evaluate

Next == EngineStep \/ TargetStep \/ WorkflowDeadline \/ StepDeadline \/ Returned

SafeSpec == Init /\ [][Next]_vars

\* No fairness for the target, nor for the deadlines: a workflow and a step
\* need not have one.
Spec == SafeSpec /\ WF_vars(EngineStep)

-----------------------------------------------------------------------------
(* Correctness                                                             *)

\* A failed or timed-out step has exactly one category, any other has none
\* (docs/scenarios.md, "Failure categories").
Results ==
  [status : {"PASSED", "SKIPPED"}, cat : {"none"},
   attempts : Seq(Attempts), evidence : {FALSE}]
  \cup
  [status : Failures, cat : Categories,
   attempts : Seq(Attempts), evidence : BOOLEAN]

Locations == {"loop", "wait", "ready", "flight", "body", "check", "delay", "done"}

\* Every variable has its type.
TypeOK ==
  /\ run \in Runs
  /\ mode \in Modes
  /\ pc \in Locations
  /\ results \in Seq(Results)
  /\ Len(results) <= Len(run.steps)
  /\ stepFailed \in BOOLEAN
  /\ attempts \in Seq(Attempts)
  /\ code \in Codes \cup {0}
  /\ store \in [Vars -> Values \cup {Absent}]
  /\ wfExpired \in BOOLEAN
  /\ stExpired \in BOOLEAN
  /\ status \in {"RUNNING", "PASSED", "FAILED", "TIMED_OUT"}
  /\ sent \in [1 .. Len(run.steps) -> Nat]
  /\ writer \in [Vars -> 0 .. Len(run.steps)]

Decided == 1 .. Len(results)

FailedBefore(j) == \E k \in 1 .. (j - 1) : results[k].status \in Failures

\* A step is skipped exactly when an earlier one failed or timed out and it is
\* not a cleanup step; a skipped step has sent nothing.  So every always_run
\* step is tried, and nothing else touches the target after a failure
\* (RunScenario's rule 6).
SkipDiscipline ==
  \A j \in Decided :
    /\ results[j].status = "SKIPPED" <=> FailedBefore(j) /\ ~run.steps[j].always
    /\ results[j].status = "SKIPPED" => sent[j] = 0

\* What the engine's location and flags say of the rest of its state: between
\* "loop" and "done" it executes an operation step that is not to be skipped;
\* stepFailed remembers exactly whether a recorded step failed or timed out;
\* nothing has been sent for the steps it has not come to.
Bookkeeping ==
  /\ pc \notin {"loop", "done"} =>
       cur <= Len(run.steps) /\ Step.kind = "http" /\ ~Skipped
  /\ pc \in {"check", "delay"} => attempts # <<>>
  /\ pc = "done" => Len(results) = Len(run.steps)
  /\ pc = "done" <=> status # "RUNNING"
  /\ status = "PASSED" => ~stepFailed
  /\ stepFailed <=> \E k \in Decided : results[k].status \in Failures
  /\ \A j \in 1 .. Len(run.steps) :
       j > cur \/ (j = cur /\ pc = "loop") => sent[j] = 0

\* A run is reported PASSED only if every one of its steps was executed and
\* passed: a skipped, failed or timed-out step can neither be forgotten nor be
\* made up for by a cleanup step that passes.
PassedMeansAllPassed ==
  status = "PASSED" =>
    \A j \in 1 .. Len(run.steps) : j \in Decided /\ results[j].status = "PASSED"

\* The requests of a step are the ones its attempts account for: each answered
\* attempt is one request, each request belongs to one attempt that built it,
\* and there are never more than the retry policy allows.  A step that reports
\* a config_error without a response has sent nothing.
RequestAccounting ==
  \A j \in Decided :
    LET tries == results[j].attempts
    IN /\ sent[j] >= Cardinality({k \in 1 .. Len(tries) : tries[k].code # 0})
       /\ sent[j] <= Cardinality({k \in 1 .. Len(tries) : tries[k].built})
       /\ run.steps[j].kind = "http" => Len(tries) <= run.steps[j].max

\* An attempt is repeated only for a reason the policy gives: it got no answer
\* at all and network_errors is on, or it was answered with a listed status.
\* So an answer whose status is not listed is final, whatever an assertion, the
\* schema or an extract path says of it.  Whether an assertion that rejects a
\* listed status ends the step (retryable) or not (docs/scenario-reference.md,
\* "statuses that trigger a retry") is left open here.
RetriesJustified ==
  \A j \in Decided :
    LET tries == results[j].attempts
    IN \A k \in 1 .. (Len(tries) - 1) :
         IF tries[k].code = 0 THEN run.steps[j].netErr
         ELSE tries[k].code \in run.steps[j].codes

\* What a step sends is accounted for, and sent again for a reason only.
AttemptsJustified == RequestAccounting /\ RetriesJustified

\* The current step is being executed, or is about to be.
Executing ==
  \/ AtStep /\ ~Skipped
  \/ pc \notin {"loop", "done"}

\* The variables a step reads while it executes.
ReadBy(s) ==
  IF s.kind = "http" THEN s.needs \cup s.compares ELSE {s.lhs, s.rhs} \cap Vars

\* What a step that did not pass left in the store (an extraction that stopped
\* half way, an attempt overtaken by a deadline) is read by cleanup steps only:
\* an ordinary step finds each variable as it was seeded, as a step that passed
\* wrote it, or as its own earlier attempt did.
ReadsFromPassedSteps ==
  Executing /\ ~Step.always =>
    \A v \in ReadBy(Step) :
      writer[v] \in {0, cur} \/ results[writer[v]].status = "PASSED"

\* A passed step leaves each of its extracted variables in the store, where no
\* step removes it again.
PassedStepsExtract ==
  \A j \in Decided :
    results[j].status = "PASSED" /\ run.steps[j].kind = "http" =>
      \A v \in run.steps[j].extracts : store[v] # Absent /\ writer[v] >= j

\* The variables that are in the store whatever happens once steps 1 .. j - 1
\* have passed.
Provided(j) ==
  {v \in Vars : \A s \in Seeds : s[v] # Absent} \cup
  UNION {run.steps[k].extracts : k \in {i \in 1 .. (j - 1) : run.steps[i].kind = "http"}}

\* A scenario whose ordinary operation steps are sound and read only variables
\* that are seeded or extracted by an earlier step.
WellFed ==
  \A j \in 1 .. Len(run.steps) :
    LET s == run.steps[j]
    IN s.kind = "http" /\ ~s.always =>
         s.sound /\ s.needs \subseteq Provided(j) /\ s.compares \subseteq Provided(j + 1)

\* Such a scenario never runs into an unresolved variable in an ordinary step,
\* whatever the target answers and wherever a deadline falls: a config_error
\* can only be an extract path that found nothing in a response.
WellFedNeverStarves ==
  WellFed =>
    \A j \in Decided :
      LET r == results[j]
      IN run.steps[j].kind = "http" /\ ~run.steps[j].always /\ r.cat = "config_error" =>
           r.attempts[Len(r.attempts)].code # 0

\* The values of variables flow from the steps that passed to the steps that read
\* them: none that is there is lost, none of a failed step is used.
VariablesFlow == ReadsFromPassedSteps /\ PassedStepsExtract /\ WellFedNeverStarves

\* Once the workflow deadline has passed no request is sent, and no operation
\* step is recorded as passed.
WorkflowDeadlineHolds ==
  [][wfExpired =>
       /\ sent' = sent
       /\ results' # results /\ Step.kind = "http" => results'[cur].status # "PASSED"]_vars

\* Every run ends, whatever the target and the network do.
Terminates == <>(pc = "done")

\* The run as ScenarioRun sees it.
Abstract == INSTANCE ScenarioRun
  WITH Plans   <- {[j \in 1 .. Len(r.steps) |-> r.steps[j].always] : r \in Runs},
       plan    <- [j \in 1 .. Len(run.steps) |-> run.steps[j].always],
       outcome <- [j \in 1 .. Len(results) |-> results[j].status],
       verdict <- status

\* A run decides each step once, in order, skips exactly after a failure and
\* ends with the verdict of its outcomes.
ImplementsScenarioRun == Abstract!Spec
=============================================================================
