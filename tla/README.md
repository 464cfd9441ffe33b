# A verification of kaktoos in TLA+

kaktoos runs API scenarios (YAML) against a service described by an OpenAPI
spec, once from CI (`kaktoos run`) or whenever a webhook arrives (`kaktoos
serve`), and works out from a code change which of the existing scenarios
verify what it may affect (`kaktoos impact`). This directory models the parts of
it that decide something, checks them with TLC and proves with TLAPS every safety
property that TLC finds to hold. Line numbers refer to the Go sources under `src/`.

## 1. The system

| Component | State it keeps | Operations | What makes it hard | What makes it correct |
|---|---|---|---|---|
| Engine (`internal/engine/runner.go`) | step results, "a step failed", variable store, attempts | `RunScenario`, `executeStep`, `executeSingleStep`, `executeConditionStep` | two nested deadlines, retries, a target that owes nothing, partial extraction, cleanup after a failure | every step is decided once; skipping is exact; PASSED is earned; retries are justified and accounted for; ordinary steps never read what a failed step left; nothing after the deadline; it ends |
| Failure classification (`internal/verification`) | none | `Classify` | precedence of causes | every failed step has one category |
| Idempotency store (`internal/idempotency`) | a record per key | `Get`, `Set` by overlapping runs | look-up and claim are separate; results are stored late; restarts | a replay is a whole result of a run that ended; keys settle; repeat runs are deduplicated |
| Rate limiter (`internal/ratelimit`) | a token bucket per operation | `Wait` of concurrent runs | queueing, deadlines inside the queue, limits read once | turns are spaced; no turn is wasted |
| Webhook server (`internal/webhook`) | store, limiter, handlers in flight | `serveHTTP`, `Start` | a goroutine per delivery, each with retries and perhaps a replay, files edited meanwhile, slow clients, shutdown | authentication first; an error answer means nothing was sent, 200 a whole run or the replay of one; a signal stops it |
| Run command (`cmd/kaktoos/run.go`) | results | load, filter, run, report, exit | many ways to end early; several reports over the same results | a green exit means that all selected scenarios passed |
| Reports (`internal/reporter`) | counts | text, JSON, JUnit, exit code | each reads other fields; replays have lost some | they agree with each other and with what ran |
| Context model (`internal/contextmodel`) | entities, relations | `Add`, `Relate`, `Reachable` | cycles, diamonds, the hop bound | the walk is exact, shortest and explained |
| Discovery (`internal/discovery`) | the model being built | `Discover` | four layers of look-ups that may find nothing; what cannot be read | nothing a service names, and nothing of a file the walk comes to, is left out silently |
| Impact (`internal/impact`, `cmd/kaktoos/impact.go`, the change tools of `internal/mcp`) | the change, what it reaches, the results of its plan | choose a source, read the change, `AnalyzeAtDepth`, plan, `verifyPlan` | the bound of four hops; two copies of the selector checks; one spec and one exit code for all services | the plan holds what verifies the change, and only that; a green verification has run it |
| Context tools (`internal/mcp`) | none between calls | `get_related_context`, `propose_change`, `get_dependencies`, `get_owners` | what was asked about is kept apart from what is near it | an agent is told all there is within three hops, why, and nothing else |
| Validation (`cmd/kaktoos/validate.go`, `validate_scenario`) | errors, warnings | one check per input and per field | it resolves without variables and hides errors by their wording | what it accepts can be sent, what it rejects cannot |
| Templates, substitution, request building (`internal/template`, `internal/variable`, `internal/httpclient`) | the path being filled in | `Resolve`, `Substitute`, `BuildRequest` | two passes, map order, values that look like tokens | no placeholder reaches the target |
| Response checks (`internal/schema`, `internal/variable/extract.go`, `internal/assertion`) | violations, variables, results | `Validate`, `Extract`, `Evaluate` | three judges of one response, map order, numbers as float64 | the verdict is what scenario and spec demand, the category whose fault it is |
| Scenario, OpenAPI and environment loaders, change providers, tracer, issue keys, command line | none | parsing, I/O, wording | data | whether they load is an input of the models (section 8) |

How they interact: `run` and the webhook handlers call `RunScenario` with an
`ExecutionContext` that carries a fresh variable store and, shared by all runs,
the idempotency store and the rate limiter. The engine calls the limiter before
each attempt, the variable store around each, and `Classify` after each that
failed. The reports read nothing but the results. `impact` calls discovery, which
fills the context model, and the walk over it, and hands the planned files to
`RunScenario` through `verifyPlan`. The tools of the MCP server call discovery and
the same analysis, one repository read per call. `validate` shares the template
functions with the engine and nothing else.

## 2. Modules

| Module | Models | Extends, instantiates |
|---|---|---|
| `Verification` | `Classify` as a function on the evidence | |
| `ScenarioRun` | abstract: what a run of a scenario promises | |
| `Engine` | one run, statement by statement between the points where time or the target can intervene | `Verification`; implements `ScenarioRun` |
| `EngineProofs` | theorems: types, skipping, deadline, the refinement, attempts and requests, variables | `Engine`, `TLAPS` |
| `DedupedRuns` | abstract: what an idempotency key promises | |
| `IdempotentRuns` | overlapping runs and the store | implements `DedupedRuns` when runs do not overlap |
| `IdempotentRunsProofs` | theorems about `IdempotentRuns` | `IdempotentRuns`, `TLAPS` |
| `Webhook` | concurrent deliveries, their keys, attempts and turns at the shared limiter, edits, shutdown | |
| `WebhookProofs` | theorems about `Webhook` | `Webhook`, `TLAPS` |
| `RunCommand` | flags to exit code, and the reports | `Verification` |
| `RunCommandProofs` | theorems about `RunCommand` | `RunCommand`, `TLAPS` |
| `Templates` | `template.Resolve` and `variable.Substitute` as operators on texts | |
| `Validation` | `kaktoos validate`, and the request the engine builds from the same step | `Templates` |
| `ValidationProofs` | theorems about `Validation`, lemmas about texts | `Validation`, `TLAPS` |
| `ResponseChecks` | what becomes of a response: schema, extraction, assertions, category | `INSTANCE Verification` |
| `ResponseProofs` | theorems about `ResponseChecks` | `ResponseChecks`, `TLAPS` |
| `Reachable` | the breadth-first walk, one edge per step | |
| `ReachableProofs` | theorems about `Reachable` | `Reachable`, `TLAPS` |
| `Discovery` | the context model built from a repository | |
| `ContextWalk` | the walk over the model that discovery has built | `Discovery`, `INSTANCE Reachable` |
| `Impact` | the impact command and the change tools, from the request to the exit code | `ContextWalk` |
| `ContextTools` | the context tools of the MCP server | `ContextWalk` |
| `ContextProofs` | theorems about `Discovery`, `ContextTools` and `Impact` | `Impact`, `ContextTools`, `INSTANCE ReachableProofs`, `TLAPS` |
| `SampleRepositories` | the repositories of the two instances over `Discovery` | `Discovery` |
| `MC...` | the instances TLC checks | one of the above |

Correspondence, where it is not evident from the names:

* `Engine`. `pc` is a place in `executeStep` or `executeSingleStep`; `results` is
  `executionResult.Steps`, `stepFailed` the local of that name, `attempts` the
  slice of `executeStep`. `Decide` is the append together with the test that sets
  `stepFailed`; `Conclude` the second pass over the steps that computes the
  status; `EndAttempt` the bookkeeping after each attempt with its four exits
  (deadline, success or not retryable, last attempt, delay). `WorkflowDeadline`
  and `StepDeadline` may fire between any two steps. A request is `sound` when its
  operation is known, its templates evaluate and it can be built. `Evaluate` is
  everything between the response and the attempt: extraction, which writes an
  arbitrary part of its variables and stops at the first path without a match
  (the code iterates over a map), schema and assertions. `sent` and `writer` are
  history variables.
* `IdempotentRuns`. A run is `begun`, has `missed` its key, `claimed` it, `ran`,
  is `done`, or `lost` in a restart; `Miss` is `Get`, `Claim` the first `Set`,
  `Finish` the second one. `before` records who had been answered when a run
  began. What runs there is any outcome at all.
* `Webhook`. One action per check of `serveHTTP`, one per file loaded, one per
  step of a run that the deliveries share something over: the key (`Replay`,
  `Miss`, `BeginRun` and `FinishRun` are `Get` and the two calls of `Set`, with
  `completed` for the records that can be replayed; the other delivery may come
  between any two of them), the turn at the limiter (`Reserve`, before every
  attempt) and what becomes of the attempt (`Retry`, `Decide`, `TimeOut`). Which
  outcome is retried, and which fails the step, is any choice the policy's
  `max_attempts` leaves; `Engine` has the reasons. After a failure the run goes on
  with its cleanup steps. `debt[op]` is the time until the bucket of an operation
  has a token again, `wait[d]` the time until the turn a run has reserved; `Wait`
  refuses at once if the turn lies beyond the deadline. Time is counted in ticks.
  `sent` and `since` are history variables; `sent` counts an attempt whose request
  could not be built as one that was sent, so it is an upper bound.
* `RunCommand`. `Outcomes` is what `ScenarioRun` allows, with every category and
  wording a failed step may have, and whether an assertion of it was broken;
  `Rebuilt` is what survives a replay (name, status, error). `ReportResult` is one
  turn of the reporter's loop.
* `Reachable`. The nested loops are `BeginLevel`, `Follow`/`PassOver` (one
  relation), `NextEntity`, `EndLevel`, `Stop`; `paths` is the map that doubles as
  the visited set.
* `Discovery`. A path is a sequence of names; one action per service, per scenario
  file and per file of the tree. `unreadable` are the directories that cannot be
  listed: without a manifest such a one fails `Discover` unless a service is found
  at it or above (`WalkFails`), and it always ends the walk of
  `addFilesAndOwnership`, after the first `reach` files (`Walked`), without a note.
  `codeowners` is what is at each of the three places, in order; the first that can
  be read is taken, whatever kept an earlier one from being read (`OwnerRules`),
  and a line without owners is dropped (`Applies`).
* `Impact`. `request` is a command line or a call of a tool, `source` what
  `impactSource` or `changeSource` made of it, `change` the name-status lines of
  git; `Reach` is a step of the walk; the actions after `Reported` are the ends of
  the command and the lines of `verifyPlan`. What a planned scenario does is any
  outcome, except that it cannot pass if a step of it names an operation the one
  spec does not declare.
* `ContextTools`. `answer` is the output structure as sets; `Match` picks the seeds
  in some fixed order (the code sorts them). Its specification is `ToolSpec`, and
  what is asked is `call`, since the module and `Impact` are proved about together.
* `Templates`, `Validation`. A text is a sequence of words, references
  `{{name}}`, calls `{{fn(args)}}` and placeholders `{name}`, so that one token
  can become another by substitution, but not come about from pieces of two.
  `errors` is what `validate` collected; the second half of the module is
  `executeSingleStep` up to `BuildRequest`, one field per step in any order.
* `ResponseChecks`. A JSON value is a document: a function from the paths into it to
  what is there, a record of one field, its type. What the code does by recursion
  over a value (decoding, the walks of `VisitJSON` and `undeclaredFields`, a
  JSONPath) is said of all its paths at once, with the schema that governs each
  (`SchemaAt`). `Float` rounds integers beyond `Exact`, which stands for 2^53.
  `Extract` writes one variable per
  step, in any order. A variable is a string: a word, the numeral of a number, or
  the compact text of an array or object.

Some definitions stand next to a second version with a suffix (`Stops_FailedOnly`
beside `Stops`) and a comment that begins "A slip": a mistake one could make in
that very place. PROJECT.json lists which property refutes it, so each property
is known to depend on the code it is about. No specification uses them.

## 3. Runs that pass

| Run | Instance | Shows |
|---|---|---|
| `engine` | `MCEngine.cfg`, 692 000 states | the books, retries, variables, deadlines and end of a run, and the refinement of `ScenarioRun` |
| `idempotent_server` | `MCIdempotentServer.cfg`, 69 000 | what the store guarantees although three runs of one key race and the process restarts |
| `idempotent_command` | `MCIdempotentCommand.cfg`, 15 000 | one after another, runs are deduplicated (refinement of `DedupedRuns`), and none waits for a record that stays in progress |
| `reachable` | `MCReachable.cfg`, 641 000 | the walk over all 4096 lists of four relations from eight and the empty one, three choices of seeds, depths 0 to 3 |
| `impact` | `MCImpact.cfg`, 105 000 | 27 repositories, 27 requests of the command and of the tools, changes from every source |
| `run_command` | `MCRunCommand.cfg`, 209 000 | every command line of the instance, every outcome of each step |
| `webhook` | `MCWebhook.cfg`, 480 000 | two deliveries of eight kinds, with and without one key, retries, cleanup steps and a deadline, an edit, a signal at any time |
| `validate` | `MCValidate.cfg`, 23 000 | commands with several faults; 19 kinds of field in three places; placeholders filled in every order from values that spell placeholders |
| `context` | `MCContextTools.cfg`, 13 000 | 18 calls of the four tools to each of the eleven single sample repositories |
| `responses` | `MCResponseChecks.cfg`, 18 000 | 14 responses to 14 steps and five declarations in three modes, with and without an older value of the variable |

Properties, by hazard:

* **Engine.** `SkipDiscipline`, `PassedMeansAllPassed`; `AttemptsJustified` (the
  requests sent, the attempts kept and the policy's maximum agree, and an attempt is
  repeated only after no answer under `network_errors` or an answer with a listed
  status); `VariablesFlow` (what an ordinary step
  reads was written by steps that passed, a step that passed has extracted all it
  names, and then no ordinary step starves); `WorkflowDeadlineHolds`; `Terminates`;
  `ImplementsScenarioRun`.
* **Idempotency.** `ReplaysAreFaithful`, `QuietKeysAreSettled`,
  `SettledKeysStaySettled`; `RepeatRunsDeduped`, `Returns` and
  `ImplementsDedupedRuns` for runs that do not overlap.
* **Webhook and limiter.** `AuthenticatedFirst`, `OnlyRunsTouchTarget` (whoever is
  answered with something else than 200 has caused no request; 200 stands for a
  whole run, within `max_attempts` of each step, of this delivery or of an earlier
  one with its key, or for a key that could not be resolved), `TurnsAreSpaced`,
  `NoTurnWasted`, `SignalStopsServer`.
* **Run command.** `GreenMeansAllPassed`, `SummaryAgreesWithExit`,
  `JUnitRoutesByCategory` (every failed step, replayed ones too, is counted once,
  and an executed one on the side on which the documents agree).
* **Impact.** `PathsExplain`, `WalkIsExact`, `WalkIsShortest` of the walk;
  `NothingSilentlyOmitted` of discovery, as far as the
  walk over the tree comes; `ChangedServicesVerified` and
  `PlanIsJustified`, the two halves of "the plan is the scenarios up to two
  dependencies away"; `OwnersAreExact`; `NoSelectorIgnored` (the command and the
  tools check the selectors in code of their own); `GreenVerifyCoversNear`, over
  all of it: exit code 0 of `--verify` means that every scenario of the changed
  services and of those near them was run and passed.
* **Context tools.** `ContextIsExact`, `DependenciesAreDeclared`.
* **Validation.** `EveryFaultIsReported`, `AcceptedStepsAreSent`,
  `RejectedStepsAreNeverSent`, `PathsAreFilledIn`.
* **Response checks.** `VerdictIsRight` against a reference that knows neither
  decoding nor order, `CategoryIsJustified`, `NoAssertionIsSkipped`.

Some of these hold only with the exception their statement names, and TLC refutes
each without it: files behind a directory that cannot be listed, which are in the
sample repositories, lack their service and owners without a note
(`NothingSilentlyOmitted`, `ChangedServicesVerified`, `OwnersAreExact`), two scenarios
of one name are one (`GreenVerifyCoversNear`), a
"not found" hides another error, and a path parameter may spell a placeholder
(`AcceptedStepsAreSent`), `addDays` is rejected by `validate` whatever its arguments
are (`RejectedStepsAreNeverSent`), and a value that spells a placeholder makes the order
in which they are filled matter (`PathsAreFilledIn`). Three are silent where two
documents, or a document and the code, disagree (section 4): `AttemptsJustified` on
an assertion that rejects a listed status, `JUnitRoutesByCategory` on a step that
`README.md` and `ReportJUnit` route differently, `CategoryIsJustified` on an
unresolved variable in `assert.equals`.

### Bounds, and why they are enough

* `MCEngine`: scenarios of up to three steps, one per mechanism (write, read and
  clean up; poll and compare; partial extraction; misconfiguration; body
  assertions with retries; the documented retry example; every condition
  operator), two attempts, a handful of values and status codes. No definition of
  the engine looks further back than the flag `stepFailed` and the store, so a
  failing, an ordinary and a cleanup step meet every case; the theorems of
  section 5 remove the bound for the discipline of steps.
* `MCIdempotentRuns`: three runs that share a key are the smallest number with
  which a completed record can be overwritten and looked up again; a fourth has
  the empty key. `MaxRestarts = 1` on the server, 0 for the command, which lives for
  one loop; there a second empty key finds the record the first one left in
  progress.
* `MCReachable`: four entities with cycles, a diamond and a loop; the theorems
  hold for all.
* `MCImpact`: four services in a chain (two dependencies away is the deepest that
  four hops reach, so a fourth service must stay out), the same four with every
  choice of two dependency lists, and one repository for each way in which
  something cannot be read, shares a name or lies at the root, and one in which
  two services share a spec. In three of them a directory cannot be listed: with a
  manifest, where the walk over the files ends at it, and without one, inside a
  service, where services are still found, and outside, where there is no model. All
  sixteen sets of selectors are among the requests
  of the tools or of the command.
* `MCContextTools`: the same repositories, and queries that match a service, a
  workflow, an operation by its name, a file, several of them or nothing.
* `MCValidation`: one step per kind of token is enough for a check that looks at
  each field on its own; two placeholders are enough for their order to matter.
* `MCResponseChecks`: two levels of nesting are as deep as any rule looks; integers
  are exact up to 8, and one lies beyond.
* `MCWebhook`: two routes that limit one operation differently, `MaxInterval = 2`
  ticks, `Grace = 1`, `MaxEdits = 1`, `MaxDeliveries = 2`. One route's files hold a
  step of up to two attempts and an unlimited one, under a key that the body names
  (two deliveries race on it, or the second is answered from the first); the
  other's a limited step and a cleanup step under a deadline of one tick; an edit
  may swap them, so that the key names a field that is not mapped, or break them.
  Up to four turns are taken of one bucket. A third delivery adds longer queues and
  nothing of another kind; the theorems hold for any number.
* `MCRunCommand`: up to three scenarios of up to two steps; the reporter treats
  each result and each step on its own.

`CHECK_DEADLOCK FALSE` is set only for `IdempotentRuns`, whose finitely many
requests are all answered in the end. The other specifications stutter
explicitly where the program has ended.

### Fairness

* `Engine`: weak fairness of `EngineStep` (a goroutine that can run does, and the
  timers it waits for fire). The target and the network are given none, nor are
  the two deadlines, which a scenario need not have: `Terminates` rests on the
  30 s timeout of the HTTP client (`client.go:21`), on finitely many attempts and
  on a `Wait` that ends.
* `IdempotentRuns`: weak fairness of each run's steps. None of `Begin` (clients)
  or `Restart`.
* `Webhook`: weak fairness of the clock and of `Stop` (`Shutdown` returns when the
  last handler has or its context is over). None of handlers or clients:
  the server stops although a handler may wait for a body for ever.

## 4. Where the documentation and the code differ

Each of the two `doc_...` runs checks a sentence of the repository and finds a
behaviour of the code that breaks it.

| Run | Says | Does |
|---|---|---|
| `doc_related_workflows` | `propose_change.go:21`: `recommended_verification` names existing workflows covering the area | a workflow the description matches is a seed of the walk, which leaves seeds out of its result: it is not recommended, and if it is the only one the tool says that no workflow covers the area |
| `doc_extracted_equals` | `README.md:641`: expected values can use extracted variables, with `$.id` equals `{{userId}}` | a variable is a string, and no string equals a number: with a numeric id the step fails on the response the variable was extracted from |

Read off the models, without a run of their own:

* `runner.go:281`: the statuses in `retry_on` are asked for only of an attempt that
  passed, so a step that asserts the status it wants is not retried on a listed
  one (`docs/scenario-reference.md:119`, "statuses that trigger a retry", and the
  example at line 43). `AttemptsJustified` allows either.
* `reporter.go:238`: the comment makes a step a failure "when assertions failed or
  a condition evaluated false" and an error "for any other non-passing status",
  while `README.md:1142` and `isAssertionFailure` go by the category: a broken assertion
  with a 5xx, 401, 403 or 429 is an error, a contract mismatch without one a
  failure. `JUnitRoutesByCategory` allows either where the two differ.
* `discovery.go:242`: the error of a directory that cannot be listed ends the walk
  over the files and is discarded, so the files after it have no service and no
  owner, and a change to them plans nothing, without the note that
  `discovery.go:19` promises ("instead of silently omitting it").
* `codeowners.go:28`: whatever keeps a CODEOWNERS from being read, the next place is
  tried, and nothing is noted if none is left.
* `runner.go:78`: on the server a racing run overwrites a completed record with
  `in_progress`, and a third run, begun after the second one was answered, is
  executed (`docs/scenario-reference.md:24`, "dedupes repeat runs").
  `RepeatRunsDeduped` is therefore claimed of the run command only.
* `discovery.go:132`: the glob of a service at the root, `./**`, matches no path, so
  the service owns no file (`docs/impact.md:41`).
* `run.go:91`, `root.go`: an environment, spec or scenario that does not load exits
  with 1 (`README.md:1074`, "2 = configuration or load error").
* `runner.go:69`: a run rejected for its idempotency key has no step, so its JUnit
  suite is green (`reporter.go:239`).
* `validate.go:153`: every error that contains "not found" is ignored, one that
  quotes a step name included, and `Resolve` reports only its last error, so an
  unknown function before a missing variable passes; `addDays` is rejected although
  its syntax is right, since the empty text is no date (`validate.go:148`,
  "variable presence is a runtime concern").
* `validate.go:148`: a path parameter that spells a placeholder, or holds any brace,
  passes `validate`, and `BuildRequest` refuses the request (`request.go:43`).
* `change.go:71`: `git show` lists no files for most merge commits; the change is
  empty and `--verify` exits with 0.
* `runner.go:282`: a failed attempt without a status counts as a network error,
  so an unknown operation or an unresolved variable is retried with its delays.
  A connection lost while the body is read has a status, and is not
  (`docs/scenario-reference.md:120`, `docs/scenarios.md:99`).
* `runner.go:231`: after the workflow deadline a cleanup step is tried under a
  context that is over, so its request is never sent (`docs/scenarios.md:77`).
* `runner.go:271`: a step that timed out after an attempt that passed has no
  evidence (`types.go:84`).
* `runner.go:541`: an unresolved variable in `assert.equals` is an
  `assertion_failed`, or what its status makes it, not a `config_error`
  (`docs/scenarios.md:101`, `category.go:32`). `CategoryIsJustified` leaves it out.
* `runner.go:75`: the key alone finds the record, so another scenario with an
  equal key is answered with the first one's result.
* `runner.go:321`: a replayed failed step has no category (`docs/scenarios.md:89`),
  so JUnit routes it by the wording of its error.
* `reporter.go:23`: the text report shows the error of a step that FAILED, not
  of one that TIMED_OUT.
* `model.go:78`: two scenarios of one name are one workflow; the file read last
  is planned (`docs/scenarios.md:110`).
* `discovery.go:242`: files are related to services by walking the tree after the
  change, so a deleted file reaches nothing (`docs/impact.md:136`).
* `discovery.go:223`: each condition step is noted as an unknown operation.
* `impact.go:103`: an owner is reported with one of its changed files.
* `server.go:81`: an edit of a rate limit takes effect at the next start, though
  everything else in the same file is read per request.

## 5. What is proved

Each theorem below holds for every value of the constants that satisfies the
assumptions of its module. All proofs go down to obligations of the SMT solver,
Zenon and, for the temporal steps, LS4. A property a run checks is a theorem of
the same formula, so the run shows it on an instance and the theorem for all.

| Module | Theorem | Property |
|---|---|---|
| `EngineProofs` | `TypeCorrect`, `SkippingIsExact`, `PassedIsEarned`, `DeadlineIsFinal` | `TypeOK`, `SkipDiscipline`, `PassedMeansAllPassed`, `WorkflowDeadlineHolds` |
| | `ImplementsScenarioRunSafely` | the refinement of `ScenarioRun`, without its fairness |
| | `RequestsAreAccounted`, `ValuesFlow` | `AttemptsJustified`, `VariablesFlow` |
| `IdempotentRunsProofs` | `TypeCorrect`, `ReplaysFaithful`, `QuietKeysSettled`, `SettledStay` | `TypeOK`, `ReplaysAreFaithful`, `QuietKeysAreSettled`, `SettledKeysStaySettled` |
| | `SequentialRunsDeduped`, `SequentialRefines` (if runs do not overlap) | `RepeatRunsDeduped`, `ImplementsDedupedRuns` |
| `WebhookProofs` | `SendersAreAuthenticated`, `OnlyAnsweredRunsSend` | `AuthenticatedFirst`, `OnlyRunsTouchTarget` |
| | `RateLimitsAreKept`, `QueuesHaveNoGaps` | `TurnsAreSpaced`, `NoTurnWasted` |
| `RunCommandProofs` | `GreenIsEarned`, `SummaryIsHonest`, `SuitesAreRouted` | `GreenMeansAllPassed`, `SummaryAgreesWithExit`, `JUnitRoutesByCategory` |
| `ReachableProofs` | `ExplanationsHold`, `NothingLeftOut`, `WalksAreShortest` | `PathsExplain`, `WalkIsExact`, `WalkIsShortest` |
| `ContextProofs` | `ContextIsTold`, `DependenciesAreTold` | `ContextIsExact`, `DependenciesAreDeclared` |
| | `OmissionsAreNoted`, `OwnersAreTold` | `NothingSilentlyOmitted`, `OwnersAreExact` |
| | `ChangesAreVerified`, `PlansAreJustified`, `GreenCoversNear`, `SelectorsAreHonoured` | `ChangedServicesVerified`, `PlanIsJustified`, `GreenVerifyCoversNear`, `NoSelectorIgnored` |
| `ValidationProofs` | `EveryFault`, `RejectedNeverSent` | `EveryFaultIsReported`, `RejectedStepsAreNeverSent` |
| | `PathsFilledIn`, `AcceptedAreSent` | `PathsAreFilledIn`, `AcceptedStepsAreSent` |
| `ResponseProofs` | `TheVerdictIsRight` | `VerdictIsRight` |
| | `TheCategoryIsJustified`, `NoneIsSkipped` | `CategoryIsJustified`, `NoAssertionIsSkipped` |

Hardly any of these properties is inductive. What is, and why it is needed:

* **`EngineProofs`, `IInv`.** `SkipDiscipline` speaks of the results, while the code
  decides by the flag `stepFailed`. `Bookkeeping` ties them: the flag is set
  exactly when a recorded step failed or timed out, the engine is only ever
  inside a step it must not skip, and nothing has been sent for the steps it has
  not come to. `InvariantInductive` has one step per action; what ends a step goes
  through `DecideInvariant`, everything within a step through
  `WithinStepInvariant`. The deadline and the refinement follow from `StepsOfARun`,
  which says what a step of the engine can do to the results at all.
* **`EngineProofs`, `AInv` and `VInv`.** The property counts the requests of
  the steps that are over; `AttemptsSoFar` counts those of the step in hand, the
  one in flight and the one that is due. `VInv` adds what holds between the
  attempt and the end of its step: that the attempt that passed has just written
  all that its step extracts, and that a variable that was there before the run
  still is (`StoreGrows`).
* **`IdempotentRunsProofs`, `IInv` and `SeqInv`.** A record in the store, and an
  answer taken from it, names a run that ended with that status and had that key
  (`RecordsAreReal`, `AnswersAreReal`); of a key with a run that ended, the result
  is stored or some run holds the key and will store its own (`KeysAreKept`),
  which is all that is left when runs overwrite each other. For runs that do not
  overlap, a run is executed only while no result is stored for its key
  (`StoredOnce`).
* **`WebhookProofs`, `Types`, `HandlersProgress`, `Remembered`, `QueueInv`.** Until a
  scenario is loaded a handler has sent nothing; each step it is past was asked for
  at most `max_attempts` times, the one it is at fewer times than it has made
  attempts of it, and none after it (`Counted`). A key in the store has a delivery
  whose run of it went through all steps, and so has each handler that has been
  given a result (`Accounted`); this survives the overwriting of records, since a
  run that has ended stays one (`RanStays`). The queue of an operation is in order
  (`InOrder`): turns that are still to
  come are apart by the limit, the bucket's debt is the time after the last of
  them, and each but the first is an interval after somebody else's. The proof is
  for any number of deliveries, where the run has two; that there is no gap follows
  from the earliest turn that would have one.
* **`RunCommandProofs`, `RunInv` and `ReportInv`.** The results are those of the
  first selected scenarios, each of its own run or replayed from a run of the same
  key (`RunSoFar`, `KeysRemembered`); the report has counted exactly the results
  before the one it is at. `SuiteOfResult` is the rest of `SuitesAreRouted`: the
  two counts of a suite split its failed steps, whatever the reporter goes by.
* **`ReachableProofs`, `IInv`.** Every path is a chain (`Explained`); the frontier is
  what lies `depth` hops away and `next` what was found one further (`Levels`); a
  relation that has been looked at leads to something at most one hop further
  (`Closed`). Without `Levels`, `Closed` is not preserved when a level ends.
  `WalksAreShortest` adds that what the walk has by a chain of `n` relations is what
  the reference function of `WalkIsShortest` has after `n` rounds.
* **`ContextProofs`, `DInv`.** Everything the manifest, the specs, the scenarios
  and the walked part of the tree say before the point discovery is at has been added or noted
  (`NothingMissing`), and every entity and relation comes from one of them
  (`NothingInvented`). `DiscoverInvariant` says that each step of `Discover` keeps
  both, as the module that has `Discover` in its next-state relation needs it.
* **`ContextProofs`, `ToolInv` and `Inv`.** The two above put together, once for the
  tools and once for an analysis: `DInv` of the model and, through an instance of
  `ReachableProofs` with the relations of this model, the walk's `IInv` once the walk
  has begun (`WalksFromMatches`, `Walks`); before that the model changes and the walk
  is idle. What a tool tells is what matched and what the walk has reached
  (`ToldContext`), and `ContextIsTold` asks `WalkIsExact` and `EndIsShortest` for all
  that is within three hops. `DependenciesAreTold` needs both halves of `DInv`: a
  dependency that was declared must be told, and one that is told must have been
  declared. `Verifying` says that the results are those of the first planned files
  and that none passed that cannot. `ChangesAreVerified` follows chains of up to
  four relations out of `NothingMissing` and asks `WalkIsExact` for their ends;
  `PlansAreJustified` goes the other way, from the path that `Explained` gives
  through `NothingInvented`: with every hop the zone of services that can be
  concerned grows by a dependency or not at all (`ZonesGrow`).
* **`ValidationProofs`, `VInv`.** Two programs, `validate` and the engine, look at the
  same step, and the properties compare them. Before `validate` ends, every error
  is deserved and every fault of what was looked at so far is reported
  (`Reported`); while the request is built, the parts before the current one are
  filled in, each field taken so far resolves under the variables there are, and
  the path is the template with the names taken so far replaced (`Filling`); a
  refusal carries its reason (`Explained`). What `Resolve` makes of a text without
  variables and with them is compared part by part (`PartByPart`), and that
  replacing placeholders commutes unless a value spells one is proved of the
  replacements themselves.
* **`ResponseProofs`, `Inv`.** The variables are extracted in any order, so all that
  can be said while they are is of those no longer to be extracted: each was found
  and is in the store (`Extracted`). Violations are those of this response and are
  what the verdict will be made of (`SchemaChecked`); a step ends in one of three
  ways, each with its results and category (`FailedExtraction`,
  `FailedSubstitution`, `Judged`). `PassesIfDemanded` compares an assertion with the
  reference: a document of exact integers is decoded to itself (`SmallIsDecoded`),
  so is every part of it (`ValueIsSmall`), and a path without a wildcard leads to
  itself alone (`DefiniteLeads`).

What the theorems assume is stated in the modules and evaluated by TLC in every
run: that constants have their types; that a marker for "none" is no value it
could be confused with (`NoneAssumption`, `ExitAssumption`, `NamesAssumption`); that
statuses and codes are those the code has; that a webhook route has passed
`LoadConfig` (`RoutesAssumption`); that an OpenAPI document has no two
operations of one id, and a scenario file the same content in every listing it
turns up in (`ReposAssumption`); that scenarios, specs and stores hold texts, names
and codes of the instance (`CommandsAssumption`, `SpecsAssumption`,
`StoresAssumption`, `NamesAssumption`, `WordsAssumption`), and that an outcome and an
error are none of the markers (`OutcomeAssumption`, `NoneAssumption`); that a call of
a tool has its arguments (`CallsAssumption`); and that a response that is JSON, and
a value an assertion expects, is a document (`ResponsesAssumption`,
`StepsAssumption`). `PlanIsJustified` is restricted, in the property,
to repositories whose services share no names, routes or scenario names;
`GreenVerifyCoversNear` counts two scenarios of one name as one. Both
restrictions are those of section 3, and TLC refutes the properties without them.

Recursive functions (the tag filter `Selection`, `Inferred`, `FlattenSeq`, `Ball`)
are proved about by their defining equation and a smallest counterexample
(`LeastElement`, `LeastNumber`), since the library's induction rules take an
operator as a parameter and no installed prover can instantiate that.

## 6. Only model-checked

* Liveness and whatever rests on fairness: `Terminates`, `Returns`,
  `SignalStopsServer` and the fairness in `ImplementsScenarioRun`. The prover has
  no `ENABLED`.
* What `Visit` finds in a document, and the list a JSONPath with a wildcard yields.
  They stand for libraries, and the theorems of `ResponseProofs` hold whatever they
  are: `VerdictIsRight` takes the violations as given, and is about paths without
  wildcards and integers that float64 can represent. The run has wildcards, and an
  integer beyond.

## 7. Plan

The models of sections 2 and 3 are complete as planned: engine and abstract run,
idempotency, walk, discovery and impact with `verifyPlan`, run command, webhook
server, validation and templates, response checks, context tools.

Every safety property of a run is proved. What is left is more to model: `Webhook`
with restarts of its store (they are in `IdempotentRuns`), and the reasons for its
retries (they are in `Engine`) in one instance with its queue.

## 8. Not modelled, and why

* YAML, JSON, JSONPath, JSON-schema, OpenAPI and `.git` parsing: libraries, and
  data below what the properties tell apart.
* Redaction, truncation, tracing, wording and durations: formatting.
* The strings that template functions compute: that they succeed, fail or are
  unknown is modelled (`Templates`), a result is a word.
* Of the MCP server: `run_workflow` and `run_verification` load a file and call
  the engine once for it, as `verifyPlan` does; `list_operations`, the resources
  and the registration of tools list or format; no tool keeps state.
* `config.Load`, issue-key providers, the registration of commands, the GitHub
  action: single-pass checks a unit test reaches completely.
* CODEOWNERS wildcards within a name.
* A webhook server that cannot listen (a port in use) ends before any delivery.
* Why an attempt in `Webhook` is retried or fails its step, the timeout of a single
  step and conditions, which send nothing: its runs may do whatever `Engine` may,
  as far as turns and requests go.
