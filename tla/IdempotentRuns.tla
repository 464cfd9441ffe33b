--------------------------- MODULE IdempotentRuns ---------------------------
(***************************************************************************)
(* Runs that share one idempotency store: the prelude and the epilogue of  *)
(* engine.RunScenario around the run itself, the in-memory store of        *)
(* internal/idempotency, and the two ways the program overlaps runs: the   *)
(* run command executes its scenarios one after another, the webhook       *)
(* server each request in a goroutine of its own.  Get and the two Sets    *)
(* are atomic each, and nothing holds the lock between them.               *)
(*                                                                         *)
(* The run itself (Engine.tla) is one step here: it ends with a status.    *)
(***************************************************************************)
EXTENDS Naturals

CONSTANTS
  Requests,    \* the runs asked for; the name of one is its ExecutionID too
  Scenarios,   \* scenario names
  ScenarioOf,  \* the scenario of each request
  Keys,        \* what an idempotency_key may substitute to
  EmptyKey,    \* the empty string, one of Keys
  NoKey,       \* marks a run without a key, or without a store
  BadKey,      \* marks a key template with an unresolved variable
  KeyOf,       \* the key of each request
  Statuses,    \* the statuses a run may end with
  None,
  Concurrent,  \* TRUE for the webhook server, FALSE for the run command
  MaxRestarts  \* bound: how often the process restarts

ASSUME RequestsAssumption ==
  /\ ScenarioOf \in [Requests -> Scenarios]
  /\ KeyOf \in [Requests -> Keys \cup {NoKey, BadKey}]
  /\ None \notin Requests

ASSUME KeysAssumption ==
  /\ EmptyKey \in Keys
  /\ NoKey \notin Keys
  /\ BadKey \notin Keys
  /\ NoKey # BadKey

ASSUME StatusesAssumption == "FAILED" \in Statuses /\ Statuses \subseteq {"PASSED", "FAILED", "TIMED_OUT"}

ASSUME ModeAssumption == Concurrent \in BOOLEAN /\ MaxRestarts \in Nat

VARIABLES
  pc,        \* where each run is
  memory,    \* the store: a record per key, None if there is none
  outcome,   \* the status and category each executed run ended with
  answer,    \* the result returned for each request
  restarts,  \* how often the process has restarted
  executed,  \* history: the runs this process executed, not replayed
  before     \* history: the requests with its key answered when each began

vars == <<pc, memory, outcome, answer, restarts, executed, before>>

\* idempotency.Record, as far as a replay can tell two of them apart.
Record(state, exec, scenario, status) ==
  [state |-> state, exec |-> exec, scenario |-> scenario, status |-> status]

InProgress == Record("in_progress", None, None, None)

Completed(r) == Record("completed", r, ScenarioOf[r], outcome[r].status)

Records ==
  {InProgress} \cup
  [state : {"completed"}, exec : Requests, scenario : Scenarios, status : Statuses]

\* The failure category of the step that decided a run.
Categories == {"none", "assertion_failed", "timeout"}

CategoryOf(s) ==
  CASE s = "PASSED"    -> "none"
    [] s = "FAILED"    -> "assertion_failed"
    [] s = "TIMED_OUT" -> "timeout"

Result(exec, scenario, status, cat) ==
  [exec |-> exec, scenario |-> scenario, status |-> status, cat |-> cat]

Answers == [exec : Requests, scenario : Scenarios,
            status : Statuses \cup {"FAILED"}, cat : Categories]

Outcomes == [status : Statuses, cat : Categories]

ASSUME NoneAssumption == None \notin Records /\ None \notin Answers /\ None \notin Outcomes

\* rebuildExecutionResult: a record keeps no category.
Rebuilt(rec) == Result(rec.exec, rec.scenario, rec.status, "none")

\* A slip: a record is taken for a result before its run is over.
Replayable_Any(rec) == rec # None

\* Only a completed record is replayed; one in progress blocks nobody.
Replayable(rec) == rec # None /\ rec.state = "completed"

\* A slip: a run waits for the one whose record is in progress.
Missed_WaitsForOther(rec) == rec = None

\* Any other record, and no record, is a miss.
Missed(rec) == ~Replayable(rec)

\* A slip: a failed run leaves its key in progress, to be tried again.
Remembers_PassedOnly(r) == KeyOf[r] \in Keys \ {EmptyKey} /\ outcome[r].status = "PASSED"

\* The epilogue's "if key is not empty": any other key is completed, whatever
\* the status.
Remembers(r) == KeyOf[r] \in Keys \ {EmptyKey}

InFlight == {r \in Requests : pc[r] \in {"begun", "missed", "claimed", "ran"}}

Answered == {r \in Requests : answer[r] # None}

-----------------------------------------------------------------------------

Init ==
  /\ pc = [r \in Requests |-> "new"]
  /\ memory = [k \in Keys |-> None]
  /\ outcome = [r \in Requests |-> None]
  /\ answer = [r \in Requests |-> None]
  /\ restarts = 0
  /\ executed = {}
  /\ before = [r \in Requests |-> {}]

\* A slip: the run command starts every scenario in a goroutine.
MayBegin_Always == TRUE

\* The run command's loop starts a run when the last one has returned.
MayBegin == Concurrent \/ InFlight = {}

\* RunScenario is called.
Begin(r) ==
  /\ pc[r] = "new"
  /\ MayBegin
  /\ pc' = [pc EXCEPT ![r] = "begun"]
  /\ before' = [before EXCEPT ![r] = {q \in Answered : KeyOf[q] = KeyOf[r]}]
  /\ UNCHANGED <<memory, outcome, answer, restarts, executed>>

\* The key names a variable that is not in the store: a FAILED result without
\* steps, hence without a category.
RejectKey(r) ==
  /\ pc[r] = "begun"
  /\ KeyOf[r] = BadKey
  /\ pc' = [pc EXCEPT ![r] = "done"]
  /\ answer' = [answer EXCEPT ![r] = Result(r, ScenarioOf[r], "FAILED", "none")]
  /\ UNCHANGED <<memory, outcome, restarts, executed, before>>

\* No key: the store is not consulted.
SkipStore(r) ==
  /\ pc[r] = "begun"
  /\ KeyOf[r] = NoKey
  /\ pc' = [pc EXCEPT ![r] = "claimed"]
  /\ UNCHANGED <<memory, outcome, answer, restarts, executed, before>>

\* A slip: the key is marked in progress before Get's answer is looked at.
Replay_MarksFirst(r) ==
  /\ pc[r] = "begun"
  /\ KeyOf[r] \in Keys
  /\ Replayable(memory[KeyOf[r]])
  /\ pc' = [pc EXCEPT ![r] = "done"]
  /\ answer' = [answer EXCEPT ![r] = Rebuilt(memory[KeyOf[r]])]
  /\ memory' = [memory EXCEPT ![KeyOf[r]] = InProgress]
  /\ UNCHANGED <<outcome, restarts, executed, before>>

\* Get finds the result of an earlier run.
Replay(r) ==
  /\ pc[r] = "begun"
  /\ KeyOf[r] \in Keys
  /\ Replayable(memory[KeyOf[r]])
  /\ pc' = [pc EXCEPT ![r] = "done"]
  /\ answer' = [answer EXCEPT ![r] = Rebuilt(memory[KeyOf[r]])]
  /\ UNCHANGED <<memory, outcome, restarts, executed, before>>

\* Get finds nothing to replay.
Miss(r) ==
  /\ pc[r] = "begun"
  /\ KeyOf[r] \in Keys
  /\ Missed(memory[KeyOf[r]])
  /\ pc' = [pc EXCEPT ![r] = "missed"]
  /\ UNCHANGED <<memory, outcome, answer, restarts, executed, before>>

\* Set(in_progress), over whatever the key holds by now.
Claim(r) ==
  /\ pc[r] = "missed"
  /\ memory' = [memory EXCEPT ![KeyOf[r]] = InProgress]
  /\ pc' = [pc EXCEPT ![r] = "claimed"]
  /\ UNCHANGED <<outcome, answer, restarts, executed, before>>

\* The scenario runs.
Run(r) ==
  /\ pc[r] = "claimed"
  /\ \E s \in Statuses :
       outcome' = [outcome EXCEPT ![r] = [status |-> s, cat |-> CategoryOf(s)]]
  /\ executed' = executed \cup {r}
  /\ pc' = [pc EXCEPT ![r] = "ran"]
  /\ UNCHANGED <<memory, answer, restarts, before>>

\* Set(completed) and return.
Finish(r) ==
  /\ pc[r] = "ran"
  /\ memory' = IF Remembers(r)
                 THEN [memory EXCEPT ![KeyOf[r]] = Completed(r)] ELSE memory
  /\ answer' = [answer EXCEPT ![r] =
                  Result(r, ScenarioOf[r], outcome[r].status, outcome[r].cat)]
  /\ pc' = [pc EXCEPT ![r] = "done"]
  /\ UNCHANGED <<outcome, restarts, executed, before>>

\* The process dies, or its shutdown timeout cuts off the runs in flight: the
\* store is in memory, so it starts again empty.
Restart ==
  /\ restarts < MaxRestarts
  /\ restarts' = restarts + 1
  /\ memory' = [k \in Keys |-> None]
  /\ pc' = [r \in Requests |-> IF r \in InFlight THEN "lost" ELSE pc[r]]
  /\ executed' = {}
  /\ before' = [r \in Requests |-> {}]
  /\ UNCHANGED <<outcome, answer>>

RunStep(r) ==
  \/ RejectKey(r) \/ SkipStore(r) \/ Replay(r) \/ Miss(r)
  \/ Claim(r) \/ Run(r) \/ Finish(r)

Next == Restart \/ \E r \in Requests : Begin(r) \/ RunStep(r)

SafeSpec == Init /\ [][Next]_vars

\* A run that has begun goes on (it ends by Engine!Terminates); nobody has to
\* ask for another one.
Spec == SafeSpec /\ \A r \in Requests : WF_vars(RunStep(r))

-----------------------------------------------------------------------------
(* Correctness                                                             *)

\* Every variable has its type.
TypeOK ==
  /\ pc \in [Requests -> {"new", "begun", "missed", "claimed", "ran", "done", "lost"}]
  /\ memory \in [Keys -> Records \cup {None}]
  /\ outcome \in [Requests -> Outcomes \cup {None}]
  /\ answer \in [Requests -> Answers \cup {None}]
  /\ restarts \in 0 .. MaxRestarts
  /\ executed \subseteq Requests
  /\ before \in [Requests -> SUBSET Requests]

\* A replayed answer is the answer of a run with the same key that was really
\* executed and returned the same status, never half of one or that of a run
\* still in progress.
ReplaysAreFaithful ==
  \A r \in Answered :
    LET q == answer[r].exec
    IN q # r => /\ q \in Answered
                /\ KeyOf[q] = KeyOf[r]
                /\ outcome[q] # None
                /\ answer[q].exec = q
                /\ answer[q].status = answer[r].status

\* The runs of a key that have looked it up in vain and not returned yet.
Busy(k) == {r \in Requests : KeyOf[r] = k /\ pc[r] \in {"missed", "claimed", "ran"}}

\* A key is settled when its result is stored and no run is about to change
\* that.
Settled(k) == Replayable(memory[k]) /\ Busy(k) = {}

\* However runs overlapped and overwrote each other's records: once one of them
\* has returned and none is busy, the key is settled.
QuietKeysAreSettled ==
  \A k \in Keys \ {EmptyKey} :
    /\ \E r \in executed : KeyOf[r] = k /\ pc[r] = "done"
    /\ Busy(k) = {}
    => Settled(k)

\* A settled key stays settled until the process restarts, so every run that
\* looks it up from then on is a replay.
SettledKeysStaySettled ==
  [][\A k \in Keys : Settled(k) => Settled(k)' \/ restarts' # restarts]_vars

\* docs/scenario-reference.md: an idempotency_key "dedupes repeat runs": a run
\* that began when another one with its key had been executed and answered is
\* not executed.  True of the run command; not of the webhook server, where the
\* record of the answered run may be overwritten by a run that looked the key
\* up before.
RepeatRunsDeduped ==
  \A r \in executed, q \in executed :
    KeyOf[r] = KeyOf[q] /\ KeyOf[r] \in Keys \ {EmptyKey} => q \notin before[r]

\* A run that has begun returns, unless its process dies: no run waits for
\* another one that holds the same key.
Returns == \A r \in Requests : pc[r] = "begun" ~> pc[r] \in {"done", "lost"}

\* The store as DedupedRuns sees it; the empty key is none.
Deduped == INSTANCE DedupedRuns
  WITH Keys     <- Keys \ {EmptyKey},
       chosen   <- [k \in Keys \ {EmptyKey} |->
                      IF Replayable(memory[k]) THEN memory[k].exec ELSE None],
       answered <- [r \in Requests |->
                      IF answer[r] = None THEN None
                      ELSE [exec |-> answer[r].exec, status |-> answer[r].status]]

\* Runs that do not overlap are deduplicated by their keys.
ImplementsDedupedRuns == Deduped!Spec
=============================================================================
