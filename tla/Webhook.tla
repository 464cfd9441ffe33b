-------------------------------- MODULE Webhook --------------------------------
(***************************************************************************)
(* The webhook server of internal/webhook: every delivery is handled in a  *)
(* goroutine of its own, which checks it, loads the route's files and runs *)
(* the scenario.  The deliveries share the files, which may be edited      *)
(* while the server runs, and one rate limiter, whose limits were read     *)
(* when it started.  A client may never send the body it has announced,    *)
(* and SIGTERM may come at any time.                                       *)
(*                                                                         *)
(* Time is counted in ticks.  A run is followed as far as its requests go: *)
(* its idempotency key, its attempts and their turns, the steps skipped    *)
(* after a failure.  Why an attempt fails or is repeated, the timeouts of  *)
(* single steps and conditions, which send nothing, are in Engine.tla; the *)
(* races on one key, with their restarts, in IdempotentRuns.tla.           *)
(***************************************************************************)
EXTENDS Naturals, FiniteSets, Sequences

CONSTANTS
  Routes,       \* the routes, in order: paths, method, auth, mapping
  MaxDeliveries, \* bound: how many requests arrive
  Requests,     \* what a client may deliver
  Ops,          \* operations
  Keys,         \* what a field may hold, hence what a key substitutes to: not the empty string
  Unresolved,   \* marks a key template with an unresolved variable
  Versions,     \* what a route's files may hold
  FirstFiles,   \* what the files of the routes may hold when the server starts
  None,         \* no authentication, no deadline, no response, no scenario, no key
  MaxInterval,  \* bound: the longest interval of a rate limit, in ticks
  Grace,        \* shutdownTimeout
  MaxEdits      \* bound: how often a file is edited

RouteIds == DOMAIN Routes

\* In the order in which they arrive.
Deliveries == 1 .. MaxDeliveries

\* paths: the request paths the route's path matches; auth: the credential that
\* Verify accepts; mapping: the parameters and fields variable_mapping names.
ASSUME RoutesAssumption ==
  /\ Len(Routes) \in Nat /\ RouteIds = 1 .. Len(Routes)
  /\ \A i \in RouteIds :
       /\ Routes[i].paths \subseteq STRING /\ Routes[i].mapping \subseteq STRING
       /\ Routes[i].method \in STRING

\* body: a JSON object with the given fields and their values, or what else it
\* may be.
ASSUME RequestsAssumption ==
  \A r \in Requests :
    /\ r.path \in STRING /\ r.method \in STRING
    /\ r.body \in {"object", "invalid", "oversize", "broken"}
    /\ DOMAIN r.fields \subseteq STRING
    /\ \A f \in DOMAIN r.fields : r.fields[f] \in Keys

\* What a step calls, how often at most (max_attempts, 1 without a retry), and
\* whether it is a cleanup step.
Calls == [op : Ops, attempts : Nat \ {0}, always_run : BOOLEAN]

\* limits: the interval between two requests of an operation, in an environment
\* that can be read; spec: it loads; scenario: its steps, the field its
\* idempotency_key names, and its workflow_timeout.
ASSUME VersionsAssumption ==
  /\ \A v \in Versions :
       /\ v.env \in BOOLEAN /\ v.spec \in BOOLEAN
       /\ DOMAIN v.limits \subseteq Ops
       /\ \A op \in DOMAIN v.limits : v.limits[op] \in 1 .. MaxInterval
       /\ v.scenario # None => /\ v.scenario.calls \in Seq(Calls)
                               /\ v.scenario.key \in STRING \cup {None}
                               /\ v.scenario.timeout \in (Nat \ {0}) \cup {None}
  /\ FirstFiles \subseteq [RouteIds -> Versions]

ASSUME BoundsAssumption == {MaxInterval, Grace, MaxEdits, MaxDeliveries} \subseteq Nat

ASSUME NoneAssumption == None \notin Nat /\ None \notin Keys \cup {Unresolved} /\ Unresolved \notin Keys

VARIABLES
  files,     \* the files of each route
  edits,     \* how often they have been edited
  limit,     \* the limiters of the server: their interval, 0 if there is none
  debt,      \* ticks until the next token of each operation
  completed, \* the keys whose record in the idempotency store is completed
  mode,      \* "serving", "draining" after a signal, "stopped"
  grace,     \* ticks left to drain
  pc,        \* where each handler is
  request,   \* what it has been sent
  scenario,  \* what it has loaded
  left,      \* ticks until the deadline of its run
  wait,      \* ticks until its turn
  call,      \* the step its run is at, 0 before it begins
  attempt,   \* the attempt of that step
  failed,    \* whether a step has failed or timed out
  response,  \* the status it has answered with
  sent,      \* history: the requests its run has sent, at most, for each step
  since      \* history: ticks since the last turn of each operation

progress == <<call, attempt, failed>>
handlers == <<pc, request, scenario, left, wait, progress, response, sent>>
vars == <<files, edits, limit, debt, completed, mode, grace, handlers, since>>

-----------------------------------------------------------------------------
(* The checks a delivery has to pass                                       *)

Matching(d) == {i \in RouteIds : request[d].path \in Routes[i].paths}

\* The first route that matches path and method; 0 if there is none.
RouteOf(d) ==
  LET fit == {i \in Matching(d) : Routes[i].method = request[d].method}
  IN IF fit = {} THEN 0 ELSE CHOOSE i \in fit : \A j \in fit : i <= j

R(d) == Routes[RouteOf(d)]

\* A route without auth accepts everybody.
Authentic(d) == R(d).auth = None \/ R(d).auth = request[d].credential

\* A slip: the body is parsed and mapped before the sender is known.
Refusal_ParsesFirst(d) ==
  IF RouteOf(d) = 0 THEN (IF Matching(d) = {} THEN 404 ELSE 405)
  ELSE IF request[d].body = "broken" THEN 400
  ELSE IF request[d].body = "oversize" THEN 413
  ELSE IF request[d].body = "invalid" \/ ~(R(d).mapping \subseteq DOMAIN request[d].fields) THEN 400
  ELSE IF ~Authentic(d) THEN 401
  ELSE None

\* The first check that fails, in serveHTTP's order.
Refusal(d) ==
  IF RouteOf(d) = 0 THEN (IF Matching(d) = {} THEN 404 ELSE 405)
  ELSE IF request[d].body = "broken" THEN 400
  ELSE IF request[d].body = "oversize" THEN 413
  ELSE IF ~Authentic(d) THEN 401
  ELSE IF request[d].body = "invalid" \/ ~(R(d).mapping \subseteq DOMAIN request[d].fields) THEN 400
  ELSE None

InFlight == {d \in Deliveries : pc[d] \notin {"new", "answered", "lost"}}

-----------------------------------------------------------------------------

\* aggregateRateLimits: of the routes that limit an operation the last one
\* counts; an environment that cannot be read is skipped.
Aggregated(fs) ==
  [op \in Ops |->
     LET limiting == {i \in RouteIds : fs[i].env /\ op \in DOMAIN fs[i].limits}
     IN IF limiting = {} THEN 0
        ELSE LET last == CHOOSE i \in limiting : \A j \in limiting : j <= i
             IN fs[last].limits[op]]

Init ==
  /\ files \in FirstFiles
  /\ edits = 0
  /\ limit = Aggregated(files)
  /\ debt = [op \in Ops |-> 0]
  /\ completed = {}
  /\ mode = "serving"
  /\ grace = Grace
  /\ pc = [d \in Deliveries |-> "new"]
  /\ request = [d \in Deliveries |-> None]
  /\ scenario = [d \in Deliveries |-> None]
  /\ left = [d \in Deliveries |-> None]
  /\ wait = [d \in Deliveries |-> 0]
  /\ call = [d \in Deliveries |-> 0]
  /\ attempt = [d \in Deliveries |-> 1]
  /\ failed = [d \in Deliveries |-> FALSE]
  /\ response = [d \in Deliveries |-> None]
  /\ sent = [d \in Deliveries |-> <<>>]
  /\ since = [op \in Ops |-> MaxInterval]

\* Someone edits the files of a route.
Edit ==
  /\ edits < MaxEdits
  /\ mode # "stopped"
  /\ \E i \in RouteIds, v \in Versions : files' = [files EXCEPT ![i] = v]
  /\ edits' = edits + 1
  /\ UNCHANGED <<limit, debt, completed, mode, grace, handlers, since>>

Clocks == <<files, edits, limit, debt, mode, grace, since>>
Shared == <<Clocks, completed>>

Goto(d, l) ==
  /\ pc' = [pc EXCEPT ![d] = l]
  /\ UNCHANGED <<Shared, request, scenario, left, wait, progress, response, sent>>

Answer(d, code) ==
  /\ pc' = [pc EXCEPT ![d] = "answered"]
  /\ response' = [response EXCEPT ![d] = code]
  /\ UNCHANGED <<Shared, request, scenario, left, wait, progress, sent>>

\* A request line and headers arrive: its handler starts.
Receive(d) ==
  /\ mode = "serving"
  /\ pc[d] = "new"
  /\ \A e \in 1 .. d - 1 : pc[e] # "new"
  /\ pc' = [pc EXCEPT ![d] = "reading"]
  /\ \E r \in Requests : request' = [request EXCEPT ![d] = r]
  /\ UNCHANGED <<Shared, scenario, left, wait, progress, response, sent>>

\* The body has arrived, or never will in full.
BodyEnds(d) ==
  /\ pc[d] = "reading"
  /\ Goto(d, "read")

\* Without a route the body is not read.
Unrouted(d) ==
  /\ pc[d] = "reading"
  /\ RouteOf(d) = 0
  /\ Answer(d, Refusal(d))

Refuse(d) ==
  /\ pc[d] = "read"
  /\ Refusal(d) # None
  /\ Answer(d, Refusal(d))

Accept(d) ==
  /\ pc[d] = "read"
  /\ Refusal(d) = None
  /\ Goto(d, "env")

LoadEnvironment(d) ==
  /\ pc[d] = "env"
  /\ IF files[RouteOf(d)].env THEN Goto(d, "spec") ELSE Answer(d, 500)

LoadSpec(d) ==
  /\ pc[d] = "spec"
  /\ IF files[RouteOf(d)].spec THEN Goto(d, "scenario") ELSE Answer(d, 500)

\* The files are read one by one: what was edited in between is read as it is.
LoadScenario(d) ==
  /\ pc[d] = "scenario"
  /\ LET s == files[RouteOf(d)].scenario
     IN IF s = None THEN Answer(d, 500)
        ELSE /\ pc' = [pc EXCEPT ![d] = "begun"]
             /\ scenario' = [scenario EXCEPT ![d] = s]
             /\ UNCHANGED <<Shared, request, left, wait, progress, response, sent>>

-----------------------------------------------------------------------------
(* The key, and the store the deliveries share                             *)

\* The fields that variable_mapping names are the variables a key may name.
Key(d) ==
  LET field == scenario[d].key
  IN IF field = None THEN None
     ELSE IF field \in R(d).mapping THEN request[d].fields[field] ELSE Unresolved

Steps(d) == Len(scenario[d].calls)

\* The key names a variable that is not in the store: a FAILED result, no run.
RejectKey(d) ==
  /\ pc[d] = "begun"
  /\ Key(d) = Unresolved
  /\ Goto(d, "ran")

\* Get finds the result of an earlier run, which is answered instead of a run.
Replay(d) ==
  /\ pc[d] = "begun"
  /\ Key(d) \in completed
  /\ Goto(d, "ran")

\* Get finds nothing to replay.
Miss(d) ==
  /\ pc[d] = "begun"
  /\ Key(d) \notin {None, Unresolved} \cup completed
  /\ Goto(d, "missed")

\* Without a key the run begins at once, with one when it is set to in_progress.
\* Its deadline counts from here.
BeginRun(d) ==
  /\ \/ pc[d] = "begun" /\ Key(d) = None
     \/ pc[d] = "missed"
  /\ pc' = [pc EXCEPT ![d] = "step"]
  /\ completed' = completed \ {Key(d)}
  /\ left' = [left EXCEPT ![d] = scenario[d].timeout]
  /\ call' = [call EXCEPT ![d] = 1]
  /\ sent' = [sent EXCEPT ![d] = [i \in 1 .. Steps(d) |-> 0]]
  /\ UNCHANGED <<Clocks, request, scenario, wait, attempt, failed, response>>

\* The run has been through all its steps: Set(completed), whatever its result.
FinishRun(d) ==
  /\ pc[d] = "step"
  /\ call[d] > Steps(d)
  /\ pc' = [pc EXCEPT ![d] = "ran"]
  /\ completed' = completed \cup ({Key(d)} \ {None})
  /\ UNCHANGED <<Clocks, request, scenario, left, wait, progress, response, sent>>

-----------------------------------------------------------------------------
(* The run, and the limiter it shares with the others                      *)

Call(d) == scenario[d].calls[call[d]]

Op(d) == Call(d).op

\* Past the step it is at: the next one, or after a failure the next cleanup step.
GoOn(d, fails) ==
  LET rest == {i \in call[d] + 1 .. Steps(d) : fails => scenario[d].calls[i].always_run}
  IN /\ pc' = [pc EXCEPT ![d] = "step"]
     /\ call' = [call EXCEPT ![d] =
                   IF rest = {} THEN Steps(d) + 1 ELSE CHOOSE i \in rest : \A j \in rest : i <= j]
     /\ attempt' = [attempt EXCEPT ![d] = 1]
     /\ failed' = [failed EXCEPT ![d] = fails]
     /\ UNCHANGED <<Shared, request, scenario, left, wait, response>>

\* A slip: the turn is taken first, and given up when the deadline comes.
TooLate_Reserved(d) == left[d] = 0

\* The run would have to wait past its deadline, or is past it.
TooLate(d) == left[d] # None /\ (left[d] = 0 \/ debt[Op(d)] > left[d])

\* A slip: each request has a limiter of its own.
Charged_PerRequest(op) == debt

\* The token after this one is due one interval later.
Charged(op) == [debt EXCEPT ![op] = @ + limit[op]]

\* Limiter.Wait takes a turn for the attempt, now or later.  Before a retry the
\* delay passes here.
Reserve(d) ==
  /\ pc[d] = "step"
  /\ call[d] <= Steps(d)
  /\ limit[Op(d)] = 0 \/ ~TooLate(d)
  /\ pc' = [pc EXCEPT ![d] = "waiting"]
  /\ IF limit[Op(d)] = 0 THEN UNCHANGED <<debt, wait, since>>
     ELSE /\ wait' = [wait EXCEPT ![d] = debt[Op(d)]]
          /\ debt' = Charged(Op(d))
          /\ since' = IF debt[Op(d)] = 0 THEN [since EXCEPT ![Op(d)] = 0] ELSE since
  /\ UNCHANGED <<files, edits, limit, completed, mode, grace, request, scenario, left, progress, response, sent>>

\* When its turn has come the request is sent; one that cannot be built counts too.
Send(d) == wait[d] = 0 /\ sent' = [sent EXCEPT ![d][call[d]] = @ + 1]

\* The step times out before its turn, or in its request.
TimeOut(d) ==
  /\ \/ pc[d] = "step" /\ call[d] <= Steps(d) /\ limit[Op(d)] # 0 /\ TooLate(d) /\ UNCHANGED sent
     \/ pc[d] = "waiting" /\ left[d] = 0 /\ (Send(d) \/ UNCHANGED sent)
  /\ GoOn(d, TRUE)

\* A slip: an attempt more than the policy allows.
MayRetry_OneMore(d) == attempt[d] <= Call(d).attempts

MayRetry(d) == attempt[d] < Call(d).attempts

\* What has become of the attempt is one the policy retries, and it was not the
\* last one.
Retry(d) ==
  /\ pc[d] = "waiting" /\ left[d] # 0
  /\ Send(d)
  /\ MayRetry(d)
  /\ pc' = [pc EXCEPT ![d] = "step"]
  /\ attempt' = [attempt EXCEPT ![d] = @ + 1]
  /\ UNCHANGED <<Shared, request, scenario, left, wait, call, failed, response>>

\* It passes or fails the step.
Decide(d) ==
  /\ pc[d] = "waiting" /\ left[d] # 0
  /\ Send(d)
  /\ \E fails \in {failed[d], TRUE} : GoOn(d, fails)

\* Whatever the result of the workflow is, and whosever it was.
Respond(d) ==
  /\ pc[d] = "ran"
  /\ Answer(d, 200)

-----------------------------------------------------------------------------
(* Time and shutdown                                                       *)

Less(n) == IF n = None \/ n = 0 THEN n ELSE n - 1

Refilled == [op \in Ops |-> Less(debt[op])]

\* The turns that come with this tick.
TurnNext(op) ==
  \E d \in InFlight : pc[d] = "waiting" /\ Op(d) = op /\ limit[op] # 0 /\ wait[d] = 1

Tick ==
  /\ mode # "stopped"
  /\ debt' = Refilled
  /\ wait' = [d \in Deliveries |-> Less(wait[d])]
  /\ left' = [d \in Deliveries |-> Less(left[d])]
  /\ grace' = IF mode = "draining" THEN Less(grace) ELSE grace
  /\ since' = [op \in Ops |->
       IF TurnNext(op) THEN 0 ELSE IF since[op] = MaxInterval THEN MaxInterval ELSE since[op] + 1]
  /\ UNCHANGED <<files, edits, limit, completed, mode, pc, request, scenario, progress, response, sent>>

\* SIGINT or SIGTERM: nothing more is accepted.
Signal ==
  /\ mode = "serving"
  /\ mode' = "draining"
  /\ UNCHANGED <<files, edits, limit, debt, completed, grace, handlers, since>>

\* A slip: Shutdown is called without a deadline.
GraceOver_Never == FALSE

GraceOver == grace = 0

\* Shutdown returns when no handler is left, or when the grace is over; what is
\* still in flight dies with the process.
Stop ==
  /\ mode = "draining"
  /\ InFlight = {} \/ GraceOver
  /\ mode' = "stopped"
  /\ pc' = [d \in Deliveries |-> IF d \in InFlight THEN "lost" ELSE pc[d]]
  /\ UNCHANGED <<files, edits, limit, debt, completed, grace, request, scenario, left, wait,
                 progress, response, sent, since>>

Handle(d) ==
  \/ Unrouted(d) \/ Refuse(d) \/ Accept(d)
  \/ LoadEnvironment(d) \/ LoadSpec(d) \/ LoadScenario(d)
  \/ RejectKey(d) \/ Replay(d) \/ Miss(d) \/ BeginRun(d) \/ FinishRun(d)
  \/ Reserve(d) \/ TimeOut(d) \/ Retry(d) \/ Decide(d) \/ Respond(d)

Stopped == mode = "stopped" /\ UNCHANGED vars

Next ==
  \/ Edit \/ Tick \/ Signal \/ Stop \/ Stopped
  \/ \E d \in Deliveries : Receive(d) \/ BodyEnds(d) \/ Handle(d)

SafeSpec == Init /\ [][Next]_vars

\* The clock runs and Shutdown returns when it can; handlers and clients owe
\* nothing.
Spec == SafeSpec /\ WF_vars(Tick) /\ WF_vars(Stop)

-----------------------------------------------------------------------------
(* Correctness                                                             *)

\* README.md: "Requests are authenticated before the workflow runs": whoever is
\* not is answered without any of the files being read, without a request to
\* the target, and without a word on what the body holds.
AuthenticatedFirst ==
  \A d \in Deliveries :
    pc[d] # "new" /\ RouteOf(d) # 0 /\ ~Authentic(d) =>
      /\ response[d] \in {None, 401, 413} \/ (response[d] = 400 /\ request[d].body = "broken")
      /\ pc[d] \in {"reading", "read", "answered", "lost"} /\ sent[d] = <<>>

\* A run that has been through all its steps, each one skipped, or asked of the
\* target at most max_attempts times.
Ran(d) ==
  /\ scenario[d] # None /\ call[d] > Steps(d)
  /\ \A i \in 1 .. Steps(d) : sent[d][i] <= scenario[d].calls[i].attempts

\* README.md: the response is 200 "whether the workflow passes or fails", and
\* 500 "is reserved for infrastructure failures": whoever gets another answer
\* than 200 has caused no request to the target, so may safely be sent again.
\* 200 says that the workflow has been run to its end, though perhaps for an
\* earlier delivery with its key; or that it was not run, for want of a key.
OnlyRunsTouchTarget ==
  \A d \in Deliveries :
    /\ response[d] \notin {None, 200} => scenario[d] = None /\ sent[d] = <<>>
    /\ response[d] = 200 =>
         /\ scenario[d] # None
         /\ \/ Ran(d)
            \/ sent[d] = <<>> /\ Key(d) = Unresolved
            \/ sent[d] = <<>> /\ \E e \in Deliveries \ {d} : Ran(e) /\ Key(e) = Key(d)

\* The runs of all deliveries together keep to the rate limits the server has
\* read: two turns of an operation are never closer than its interval.
TurnComes(d) ==
  /\ pc'[d] = "waiting" /\ wait'[d] = 0 /\ limit[Op(d)] # 0
  /\ pc[d] = "step" \/ wait[d] > 0

TurnsAreSpaced ==
  [][\A d \in InFlight : pc[d] \in {"step", "waiting"} /\ call[d] <= Steps(d) /\ TurnComes(d) =>
       /\ since[Op(d)] + (IF pc[d] = "waiting" THEN 1 ELSE 0) >= limit[Op(d)]
       /\ \A e \in InFlight \ {d} :
            ~(pc[e] \in {"step", "waiting"} /\ call[e] <= Steps(e) /\ Op(e) = Op(d) /\ TurnComes(e))]_vars

\* A deadline never leaves a gap in the queue: a run waits for its turn no longer
\* than those before it that are still there, and the last turn taken, account for.
NoTurnWasted ==
  \A d \in Deliveries :
    pc[d] = "waiting" =>
      LET before == {e \in Deliveries \ {d} :
                       pc[e] = "waiting" /\ Op(e) = Op(d) /\ wait[e] < wait[d]}
      IN wait[d] <= limit[Op(d)] * (Cardinality(before) + 1)

\* A signal stops the server, although a client may keep its handler waiting
\* for a body for ever.
SignalStopsServer == mode = "draining" ~> mode = "stopped"

=============================================================================
