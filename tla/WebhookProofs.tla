----------------------------- MODULE WebhookProofs -----------------------------
(***************************************************************************)
(* What holds of the webhook server for any number of deliveries, any      *)
(* routes, requests, files and rate limits, however the handlers overlap   *)
(* and whenever the files are edited, a deadline passes or the signal      *)
(* comes.                                                                  *)
(***************************************************************************)
EXTENDS Webhook, Integers, FiniteSetTheorems, WellFoundedInduction, SequenceTheorems, TLAPS

-----------------------------------------------------------------------------
(* Least and greatest elements                                             *)

\* A nonempty set of natural numbers has a least element.
LEMMA LeastElement ==
  ASSUME NEW T \in SUBSET Nat, T # {}
  PROVE  \E n \in T : \A m \in T : n <= m
  <1> DEFINE below == {ss \in Nat \X Nat : ss[1] < ss[2]}
  <1>1. IsWellFoundedOn(below, Nat)
    BY NatLessThanWellFounded DEF OpToRel
  <1> HIDE DEF below
  <1>2. PICK x \in T : \A y \in T : ~ (<<y, x>> \in below)
    BY <1>1, WFMin
  <1>3. ASSUME NEW y \in T PROVE x <= y
    <2>1. ~ (<<y, x>> \in below)
      BY <1>2
    <2> QED
      BY <2>1 DEF below
  <1> QED
    BY <1>3

\* A nonempty set of natural numbers up to n has a greatest element.
LEMMA GreatestElement ==
  ASSUME NEW n \in Nat, NEW T \in SUBSET (1 .. n), T # {}
  PROVE  \E k \in T : \A m \in T : m <= k
  <1> DEFINE D == {n - k : k \in T}
  <1>1. D \in SUBSET Nat /\ D # {}
    <2>1. \A k \in T : n - k \in Nat
      OBVIOUS
    <2>2. PICK k : k \in T
      OBVIOUS
    <2>3. n - k \in D
      BY <2>2
    <2> QED
      BY <2>1, <2>3
  <1>2. PICK x \in D : \A y \in D : x <= y
    BY <1>1, LeastElement
  <1>3. PICK k \in T : x = n - k
    BY <1>2
  <1>4. ASSUME NEW m \in T PROVE m <= k
    <2>1. n - m \in D
      OBVIOUS
    <2> QED
      BY <1>2, <1>3, <2>1
  <1> QED
    BY <1>4

-----------------------------------------------------------------------------
(* The checks and the limits                                               *)

\* A delivery that has a route has one of the routes.
LEMMA RouteOfType ==
  ASSUME NEW d, RouteOf(d) # 0
  PROVE  RouteOf(d) \in RouteIds
  <1> DEFINE fit == {i \in Matching(d) : Routes[i].method = request[d].method}
  <1>1. fit \in SUBSET RouteIds /\ RouteIds \in SUBSET Nat
    BY RoutesAssumption DEF Matching
  <1>2. fit # {}
    BY DEF RouteOf
  <1>3. \E i \in fit : \A j \in fit : i <= j
    BY <1>1, <1>2, LeastElement
  <1>4. RouteOf(d) = CHOOSE i \in fit : \A j \in fit : i <= j
    BY <1>2 DEF RouteOf
  <1> QED
    BY <1>1, <1>3, <1>4

\* Nobody passes the checks without a route and the credential of the route;
\* who has a route but not the credential is told so, or only that the body
\* cannot be read.
LEMMA RefusalIsSound ==
  ASSUME NEW d
  PROVE  /\ Refusal(d) = None => RouteOf(d) # 0 /\ Authentic(d)
         /\ Refusal(d) # 200
         /\ RouteOf(d) # 0 /\ ~Authentic(d) =>
              Refusal(d) \in {401, 413} \/ (Refusal(d) = 400 /\ request[d].body = "broken")
  <1>1. Refusal(d) = None => RouteOf(d) # 0 /\ Authentic(d)
    BY NoneAssumption DEF Refusal
  <1>2. Refusal(d) # 200
    BY NoneAssumption DEF Refusal
  <1>3. RouteOf(d) # 0 /\ ~Authentic(d) =>
          Refusal(d) \in {401, 413} \/ (Refusal(d) = 400 /\ request[d].body = "broken")
    BY DEF Refusal
  <1> QED
    BY <1>1, <1>2, <1>3

\* The limits the server starts with are those of its files.
LEMMA AggregatedType ==
  ASSUME NEW fs \in [RouteIds -> Versions]
  PROVE  Aggregated(fs) \in [Ops -> 0 .. MaxInterval]
  <1> SUFFICES ASSUME NEW op \in Ops PROVE Aggregated(fs)[op] \in 0 .. MaxInterval
    BY DEF Aggregated
  <1> DEFINE limiting == {i \in RouteIds : fs[i].env /\ op \in DOMAIN fs[i].limits}
             last == CHOOSE i \in limiting : \A j \in limiting : j <= i
  <1>1. MaxInterval \in Nat
    BY BoundsAssumption
  <1>2. Aggregated(fs)[op] = IF limiting = {} THEN 0 ELSE fs[last].limits[op]
    BY DEF Aggregated
  <1>3. ASSUME limiting # {} PROVE fs[last].limits[op] \in 1 .. MaxInterval
    <2>1. Len(Routes) \in Nat /\ RouteIds = 1 .. Len(Routes)
      BY RoutesAssumption
    <2>2. limiting \in SUBSET (1 .. Len(Routes))
      BY <2>1
    <2> HIDE DEF limiting
    <2>3. \E i \in limiting : \A j \in limiting : j <= i
      BY <1>3, <2>1, <2>2, GreatestElement
    <2>4. last \in limiting
      BY <2>3
    <2>5. last \in RouteIds /\ op \in DOMAIN fs[last].limits
      BY <2>4 DEF limiting
    <2> HIDE DEF last
    <2> QED
      BY <2>5, VersionsAssumption
  <1> HIDE DEF limiting, last
  <1> QED
    BY <1>1, <1>2, <1>3

-----------------------------------------------------------------------------
(* Types                                                                   *)

Places == {"new", "reading", "read", "env", "spec", "scenario", "begun", "missed",
           "step", "waiting", "ran", "answered", "lost"}

Loadable == {v.scenario : v \in Versions}

Types ==
  /\ files \in [RouteIds -> Versions]
  /\ edits \in Nat /\ grace \in Nat
  /\ limit \in [Ops -> 0 .. MaxInterval]
  /\ debt \in [Ops -> Nat]
  /\ since \in [Ops -> 0 .. MaxInterval]
  /\ mode \in {"serving", "draining", "stopped"}
  /\ pc \in [Deliveries -> Places]
  /\ request \in [Deliveries -> Requests \cup {None}]
  /\ scenario \in [Deliveries -> Loadable \cup {None}]
  /\ left \in [Deliveries -> Nat \cup {None}]
  /\ wait \in [Deliveries -> Nat]
  /\ call \in [Deliveries -> Nat]
  /\ attempt \in [Deliveries -> Nat]
  /\ failed \in [Deliveries -> BOOLEAN]
  /\ response \in [Deliveries -> Nat \cup {None}]
  /\ sent \in [Deliveries -> Seq(Nat)]

\* The steps of a loaded scenario call operations, once at least.
LEMMA ScenarioType ==
  ASSUME Types, NEW d \in Deliveries, scenario[d] # None
  PROVE  /\ scenario[d].calls \in Seq(Calls) /\ Steps(d) \in Nat
         /\ \A i \in 1 .. Steps(d) : scenario[d].calls[i] \in Calls
         /\ call[d] \in 1 .. Steps(d) => Op(d) \in Ops
  <1>1. scenario[d] \in Loadable
    BY DEF Types
  <1>2. scenario[d].calls \in Seq(Calls)
    BY <1>1, VersionsAssumption DEF Loadable
  <1>3. Steps(d) \in Nat /\ \A i \in 1 .. Steps(d) : scenario[d].calls[i] \in Calls
    BY <1>2, ElementOfSeq, LenProperties DEF Steps
  <1>4. call[d] \in 1 .. Steps(d) => Op(d) \in Ops
    BY <1>3 DEF Op, Call, Calls
  <1> QED
    BY <1>2, <1>3, <1>4

\* A server that starts has every variable in its type.
LEMMA TypesInitial == Init => Types
  <1> SUFFICES ASSUME Init PROVE Types
    OBVIOUS
  <1>1. files \in [RouteIds -> Versions]
    BY VersionsAssumption DEF Init
  <1>2. limit \in [Ops -> 0 .. MaxInterval]
    BY <1>1, AggregatedType DEF Init
  <1> QED
    BY <1>1, <1>2, BoundsAssumption DEF Init, Types, Places

\* What a tick leaves of a number of ticks is a number of ticks.
LEMMA LessType ==
  /\ \A n \in Nat : Less(n) \in Nat /\ Less(n) = IF n = 0 THEN 0 ELSE n - 1
  /\ Less(None) = None
  BY NoneAssumption DEF Less

-----------------------------------------------------------------------------
(* Where a handler is and what it has done                                 *)

Early == {"new", "reading", "read", "env", "spec", "scenario"}

\* A step is asked of the target once in each attempt at most, and the steps
\* ahead not at all.
Counted(d) ==
  /\ Len(sent[d]) = Steps(d)
  /\ \A i \in 1 .. Steps(d) :
       sent[d][i] <= scenario[d].calls[i].attempts /\ (i > call[d] => sent[d][i] = 0)

\* Until a scenario is loaded there is no run, until the run begins nothing is
\* sent, and until a handler answers there is no answer.
Progress(d) ==
  /\ pc[d] \in Early => scenario[d] = None
  /\ pc[d] \in Early \cup {"begun", "missed"} => call[d] = 0
  /\ pc[d] \in {"env", "spec", "scenario"} => RouteOf(d) # 0
  /\ pc[d] \in {"begun", "missed", "step", "waiting", "ran"} => scenario[d] # None
  /\ pc[d] # "answered" => response[d] = None
  /\ call[d] = 0 => sent[d] = <<>> /\ attempt[d] = 1
  /\ call[d] # 0 => scenario[d] # None /\ Counted(d)
  /\ pc[d] = "step" => call[d] \in 1 .. Steps(d) + 1
  /\ pc[d] = "waiting" => call[d] \in 1 .. Steps(d)
  /\ pc[d] \in {"step", "waiting"} /\ call[d] <= Steps(d) =>
       sent[d][call[d]] < attempt[d] /\ attempt[d] <= Call(d).attempts
  /\ pc[d] = "ran" => call[d] = 0 \/ call[d] > Steps(d)

HandlersProgress == \A d \in Deliveries : Progress(d)

\* An attempt is made, or given up, of a step of the run, and none too many.
LEMMA AtAStep ==
  ASSUME Types, NEW d \in Deliveries, Progress(d), TimeOut(d) \/ Retry(d) \/ Decide(d)
  PROVE  /\ scenario[d] # None /\ call[d] \in 1 .. Steps(d) /\ response[d] = None /\ Counted(d)
         /\ sent[d][call[d]] < attempt[d] /\ attempt[d] <= Call(d).attempts
  <1>1. call[d] \in Nat /\ (scenario[d] # None => Steps(d) \in Nat)
    BY ScenarioType DEF Types
  <1>2. pc[d] \in {"step", "waiting"} /\ (pc[d] = "step" => call[d] <= Steps(d))
    BY DEF TimeOut, Retry, Decide
  <1>3. scenario[d] # None /\ response[d] = None
    BY <1>2 DEF Progress
  <1>4. call[d] \in 1 .. Steps(d)
    <2>1. CASE pc[d] = "step"
      <3>1. call[d] \in 1 .. Steps(d) + 1
        BY <2>1 DEF Progress
      <3> QED
        BY <1>1, <1>2, <1>3, <2>1, <3>1
    <2>2. CASE pc[d] = "waiting"
      BY <2>2 DEF Progress
    <2> QED
      BY <1>2, <2>1, <2>2
  <1>5. call[d] # 0 /\ call[d] <= Steps(d)
    BY <1>1, <1>3, <1>4
  <1>6. Counted(d)
    BY <1>5 DEF Progress
  <1>7. sent[d][call[d]] < attempt[d] /\ attempt[d] <= Call(d).attempts
    BY <1>2, <1>5 DEF Progress
  <1> QED
    BY <1>3, <1>4, <1>6, <1>7

\* A run goes on to a step ahead, or to its end.
LEMMA GoOnMoves ==
  ASSUME Types, NEW d \in Deliveries, Progress(d), call[d] \in 1 .. Steps(d),
         NEW fails \in BOOLEAN, GoOn(d, fails)
  PROVE  /\ call'[d] \in call[d] + 1 .. Steps(d) + 1
         /\ call' \in [Deliveries -> Nat] /\ failed' \in [Deliveries -> BOOLEAN]
         /\ attempt' \in [Deliveries -> Nat] /\ attempt'[d] = 1
         /\ pc' \in [Deliveries -> Places] /\ pc'[d] = "step"
  <1> DEFINE rest == {i \in call[d] + 1 .. Steps(d) : fails => scenario[d].calls[i].always_run}
             next == IF rest = {} THEN Steps(d) + 1
                     ELSE CHOOSE i \in rest : \A j \in rest : i <= j
  <1>1. scenario[d] # None /\ call[d] \in Nat
    BY DEF Progress, Types
  <1>2. Steps(d) \in Nat
    BY <1>1, ScenarioType
  <1>3. next \in call[d] + 1 .. Steps(d) + 1
    <2>1. rest \in SUBSET Nat /\ rest \in SUBSET (call[d] + 1 .. Steps(d))
      BY <1>1, <1>2
    <2>2. CASE rest # {}
      <3>1. \E i \in rest : \A j \in rest : i <= j
        BY <2>1, <2>2, LeastElement
      <3> HIDE DEF rest
      <3>2. next \in rest
        BY <2>2, <3>1
      <3> HIDE DEF next
      <3>3. next \in call[d] + 1 .. Steps(d)
        BY <2>1, <3>2
      <3> QED
        BY <1>1, <1>2, <3>3
    <2>3. CASE rest = {}
      <3>1. next = Steps(d) + 1
        BY <2>3
      <3>2. call[d] + 1 <= Steps(d) + 1
        BY <1>1, <1>2
      <3> QED
        BY <1>1, <1>2, <3>1, <3>2
    <2> QED
      BY <2>2, <2>3
  <1>4. /\ call' = [call EXCEPT ![d] = next]
        /\ attempt' = [attempt EXCEPT ![d] = 1] /\ failed' = [failed EXCEPT ![d] = fails]
        /\ pc' = [pc EXCEPT ![d] = "step"]
    BY DEF GoOn
  <1> HIDE DEF next
  <1>5. next \in Nat
    BY <1>1, <1>2, <1>3
  <1> QED
    BY <1>3, <1>4, <1>5 DEF Types, Places

\* A request counts for the step its run is at.
LEMMA SendCounts ==
  ASSUME Types, NEW d \in Deliveries, Progress(d), call[d] \in 1 .. Steps(d), Send(d)
  PROVE  /\ sent' \in [Deliveries -> Seq(Nat)] /\ Len(sent'[d]) = Len(sent[d])
         /\ sent'[d][call[d]] = sent[d][call[d]] + 1
         /\ \A i \in 1 .. Steps(d) : i # call[d] => sent'[d][i] = sent[d][i]
         /\ \A e \in Deliveries \ {d} : sent'[e] = sent[e]
  <1> DEFINE more == [sent[d] EXCEPT ![call[d]] = sent[d][call[d]] + 1]
  <1>1. sent[d] \in Seq(Nat) /\ call[d] \in 1 .. Len(sent[d]) /\ Len(sent[d]) = Steps(d)
    BY DEF Types, Progress, Counted
  <1>2. sent[d][call[d]] + 1 \in Nat
    BY <1>1, ElementOfSeq
  <1>3. /\ more \in Seq(Nat) /\ Len(more) = Len(sent[d])
        /\ \A j \in 1 .. Len(sent[d]) :
             more[j] = IF j = call[d] THEN sent[d][call[d]] + 1 ELSE sent[d][j]
    BY <1>1, <1>2, ExceptSeq
  <1>4. sent' = [sent EXCEPT ![d] = more]
    BY DEF Send
  <1> HIDE DEF more
  <1> QED
    BY <1>1, <1>3, <1>4 DEF Types

\* A run begins without a request.
LEMMA NothingCounted ==
  ASSUME NEW n \in Nat
  PROVE  [i \in 1 .. n |-> 0] \in Seq(Nat) /\ Len([i \in 1 .. n |-> 0]) = n
  OBVIOUS

\* Every step keeps the types: a handler that loads files has a route, and one
\* that runs has a scenario.
LEMMA TypesInductive ==
  ASSUME Types, HandlersProgress, [Next]_vars
  PROVE  Types'
  <1>1. CASE Edit
    BY <1>1 DEF Edit, Types, handlers, progress
  <1>2. CASE Tick
    <2>1. debt' \in [Ops -> Nat] /\ wait' \in [Deliveries -> Nat]
          /\ left' \in [Deliveries -> Nat \cup {None}]
      BY <1>2, LessType DEF Tick, Types, Refilled
    <2>2. since' \in [Ops -> 0 .. MaxInterval]
      <3>1. MaxInterval \in Nat
        BY BoundsAssumption
      <3>2. \A op \in Ops : since[op] \in 0 .. MaxInterval
        BY DEF Types
      <3> QED
        BY <1>2, <3>1, <3>2 DEF Tick
    <2>3. grace' \in Nat
      BY <1>2, LessType DEF Tick, Types
    <2> QED
      BY <1>2, <2>1, <2>2, <2>3 DEF Tick, progress, Types
  <1>3. CASE Signal
    BY <1>3 DEF Signal, Types, handlers, progress
  <1>4. CASE Stop
    BY <1>4 DEF Stop, progress, Types, Places
  <1>5. CASE UNCHANGED vars
    BY <1>5 DEF vars, handlers, progress, Types
  <1>6. ASSUME NEW d \in Deliveries, NEW l \in Places, Goto(d, l) PROVE Types'
    BY <1>6 DEF Goto, Shared, Clocks, progress, Types
  <1>7. ASSUME NEW d \in Deliveries, NEW code \in Nat \cup {None}, Answer(d, code) PROVE Types'
    BY <1>7 DEF Answer, Shared, Clocks, progress, Types, Places
  <1>8. ASSUME NEW d \in Deliveries PROVE Refusal(d) \in Nat \cup {None}
    BY DEF Refusal
  <1>9. ASSUME NEW d \in Deliveries, Receive(d) PROVE Types'
    BY <1>9 DEF Receive, Shared, Clocks, progress, Types, Places
  <1>10. ASSUME NEW d \in Deliveries,
                BodyEnds(d) \/ Accept(d) \/ RejectKey(d) \/ Replay(d) \/ Miss(d)
         PROVE  Types'
    BY <1>6, <1>10 DEF BodyEnds, Accept, RejectKey, Replay, Miss, Places
  <1>11. ASSUME NEW d \in Deliveries, Unrouted(d) \/ Refuse(d) \/ Respond(d) PROVE Types'
    BY <1>7, <1>8, <1>11 DEF Unrouted, Refuse, Respond
  <1>12. ASSUME NEW d \in Deliveries, LoadEnvironment(d) \/ LoadSpec(d) PROVE Types'
    BY <1>6, <1>7, <1>12 DEF LoadEnvironment, LoadSpec, Places
  <1>13. ASSUME NEW d \in Deliveries, LoadScenario(d) PROVE Types'
    <2> DEFINE s == files[RouteOf(d)].scenario
    <2>1. files[RouteOf(d)] \in Versions
      BY <1>13, RouteOfType DEF Types, LoadScenario, HandlersProgress, Progress
    <2>2. s \in Loadable
      BY <2>1 DEF Loadable
    <2>3. CASE Answer(d, 500)
      BY <1>7, <2>3
    <2>4. CASE /\ pc' = [pc EXCEPT ![d] = "begun"] /\ scenario' = [scenario EXCEPT ![d] = s]
               /\ UNCHANGED <<Shared, request, left, wait, progress, response, sent>>
      <3> HIDE DEF s
      <3> QED
        BY <2>2, <2>4 DEF Shared, Clocks, progress, Types, Places
    <2> QED
      BY <1>13, <2>3, <2>4 DEF LoadScenario
  <1>14. ASSUME NEW d \in Deliveries, TimeOut(d) \/ Retry(d) \/ Decide(d) PROVE Types'
    <2>1. Progress(d) /\ call[d] \in 1 .. Steps(d)
      BY <1>14, AtAStep DEF HandlersProgress
    <2>2. sent' \in [Deliveries -> Seq(Nat)]
      BY <1>14, <2>1, SendCounts DEF TimeOut, Retry, Decide, Types
    <2>3. CASE Retry(d)
      BY <2>2, <2>3 DEF Retry, Shared, Clocks, Types, Places
    <2>4. ASSUME NEW fails \in BOOLEAN, GoOn(d, fails) PROVE Types'
      BY <2>1, <2>2, <2>4, GoOnMoves DEF GoOn, Shared, Clocks, Types
    <2>5. TRUE \in BOOLEAN /\ failed[d] \in BOOLEAN
      BY DEF Types
    <2> QED
      BY <1>14, <2>3, <2>4, <2>5 DEF TimeOut, Decide
  <1>15. ASSUME NEW d \in Deliveries, Reserve(d) PROVE Types'
    <2>1. Op(d) \in Ops
      <3>1. scenario[d] # None /\ call[d] # 0 /\ call[d] \in Nat
        BY <1>15 DEF Reserve, Types, HandlersProgress, Progress
      <3>2. call[d] \in 1 .. Steps(d)
        BY <1>15, <3>1, ScenarioType DEF Reserve
      <3> QED
        BY <3>1, <3>2, ScenarioType
    <2>2. limit[Op(d)] \in Nat /\ debt[Op(d)] \in Nat
      BY <2>1, BoundsAssumption DEF Types
    <2>3. debt' \in [Ops -> Nat] /\ wait' \in [Deliveries -> Nat]
      BY <1>15, <2>1, <2>2 DEF Reserve, Charged, Types
    <2>4. since' \in [Ops -> 0 .. MaxInterval]
      <3>1. 0 \in 0 .. MaxInterval
        BY BoundsAssumption
      <3> QED
        BY <1>15, <2>1, <3>1 DEF Reserve, Types
    <2> QED
      BY <1>15, <2>3, <2>4 DEF Reserve, progress, Types, Places
  <1>16. ASSUME NEW d \in Deliveries, BeginRun(d) PROVE Types'
    <2>1. scenario[d] # None
      BY <1>16, NoneAssumption DEF BeginRun, HandlersProgress, Progress
    <2>2. Steps(d) \in Nat /\ scenario[d].timeout \in Nat \cup {None}
      BY <2>1, ScenarioType, VersionsAssumption DEF Types, Loadable
    <2>3. sent' \in [Deliveries -> Seq(Nat)]
      BY <1>16, <2>2, NothingCounted DEF BeginRun, Types
    <2> QED
      BY <1>16, <2>2, <2>3 DEF BeginRun, Clocks, Types, Places
  <1>17. ASSUME NEW d \in Deliveries, FinishRun(d) PROVE Types'
    BY <1>17 DEF FinishRun, Clocks, progress, Types, Places
  <1> QED
    BY <1>1, <1>2, <1>3, <1>4, <1>5, <1>9, <1>10, <1>11, <1>12, <1>13, <1>14, <1>15,
       <1>16, <1>17 DEF Next, Handle, Stopped

-----------------------------------------------------------------------------
(* What a step does to one handler                                         *)

\* The clock and the deadline aside.
Untouched(e) ==
  /\ pc'[e] = pc[e] /\ request'[e] = request[e] /\ scenario'[e] = scenario[e]
  /\ call'[e] = call[e] /\ response'[e] = response[e] /\ sent'[e] = sent[e]
  /\ attempt'[e] = attempt[e]

LostAtStop(e) ==
  /\ pc[e] \notin {"new", "answered", "lost"} /\ pc'[e] = "lost" /\ request'[e] = request[e]
  /\ scenario'[e] = scenario[e] /\ response'[e] = response[e] /\ sent'[e] = sent[e]
  /\ call'[e] = call[e] /\ attempt'[e] = attempt[e]

\* Whatever happens, a handler is left alone, dies with the process, or takes a
\* step of its own.
LEMMA OneHandler ==
  ASSUME Types, [Next]_vars, NEW e \in Deliveries
  PROVE  Untouched(e) \/ LostAtStop(e) \/ Receive(e) \/ BodyEnds(e) \/ Handle(e)
  <1>1. CASE Edit \/ Tick \/ Signal \/ Stopped \/ UNCHANGED vars
    BY <1>1 DEF Edit, Tick, Signal, Stopped, vars, handlers, progress, Untouched
  <1>2. CASE Stop
    <2>1. pc'[e] = IF e \in InFlight THEN "lost" ELSE pc[e]
      BY <1>2 DEF Stop
    <2> QED
      BY <1>2, <2>1 DEF Stop, progress, InFlight, Untouched, LostAtStop
  <1>3. ASSUME NEW d \in Deliveries, d # e, NEW l, Goto(d, l) PROVE Untouched(e)
    BY <1>3 DEF Goto, progress, Untouched, Types
  <1>4. ASSUME NEW d \in Deliveries, d # e, NEW code, Answer(d, code) PROVE Untouched(e)
    BY <1>4 DEF Answer, progress, Untouched, Types
  <1>5. ASSUME NEW d \in Deliveries, d # e, Receive(d) \/ BodyEnds(d) \/ Handle(d)
        PROVE  Untouched(e)
    <2>1. CASE Receive(d)
      BY <1>5, <2>1 DEF Receive, progress, Untouched, Types
    <2>2. CASE BodyEnds(d) \/ Accept(d) \/ RejectKey(d) \/ Replay(d) \/ Miss(d)
      BY <1>3, <1>5, <2>2 DEF BodyEnds, Accept, RejectKey, Replay, Miss
    <2>3. CASE Unrouted(d) \/ Refuse(d) \/ Respond(d)
      BY <1>4, <1>5, <2>3 DEF Unrouted, Refuse, Respond
    <2>4. CASE LoadEnvironment(d) \/ LoadSpec(d)
      BY <1>3, <1>4, <1>5, <2>4 DEF LoadEnvironment, LoadSpec
    <2>5. CASE LoadScenario(d)
      BY <1>4, <1>5, <2>5 DEF LoadScenario, progress, Untouched, Types
    <2>6. CASE Reserve(d) \/ BeginRun(d) \/ FinishRun(d)
      BY <1>5, <2>6 DEF Reserve, BeginRun, FinishRun, progress, Untouched, Types
    <2>7. CASE TimeOut(d) \/ Retry(d) \/ Decide(d)
      BY <1>5, <2>7 DEF TimeOut, Retry, Decide, GoOn, Send, Untouched, Types
    <2> QED
      BY <1>5, <2>1, <2>2, <2>3, <2>4, <2>5, <2>6, <2>7 DEF Handle
  <1> QED
    BY <1>1, <1>2, <1>5 DEF Next

\* The route and the credential of a delivery are those of its request.
LEMMA RouteStays ==
  ASSUME NEW e, request'[e] = request[e]
  PROVE  RouteOf(e)' = RouteOf(e) /\ Authentic(e)' = Authentic(e)
  <1>1. RouteOf(e)' = RouteOf(e)
    BY DEF RouteOf, Matching
  <1> QED
    BY <1>1 DEF Authentic, R

\* What a run has got to, and its key, depend on what it has loaded and sent.
LEMMA RunStays ==
  ASSUME NEW e, scenario'[e] = scenario[e]
  PROVE  /\ Steps(e)' = Steps(e)
         /\ request'[e] = request[e] => Key(e)' = Key(e)
         /\ call'[e] = call[e] => Call(e)' = Call(e)
         /\ call'[e] = call[e] /\ sent'[e] = sent[e] => Counted(e)' = Counted(e)
  <1>1. Steps(e)' = Steps(e)
    BY DEF Steps
  <1>2. ASSUME request'[e] = request[e] PROVE Key(e)' = Key(e)
    BY <1>2, RouteStays DEF Key, R
  <1>3. call'[e] = call[e] => Call(e)' = Call(e)
    BY DEF Call
  <1>4. call'[e] = call[e] /\ sent'[e] = sent[e] => Counted(e)' = Counted(e)
    BY <1>1 DEF Counted
  <1> QED
    BY <1>1, <1>2, <1>3, <1>4

\* Every step keeps every handler's progress.
LEMMA ProgressInductive ==
  ASSUME Types, HandlersProgress, [Next]_vars
  PROVE  HandlersProgress'
  <1> SUFFICES ASSUME NEW e \in Deliveries PROVE Progress(e)'
    BY DEF HandlersProgress
  <1>1. /\ Progress(e) /\ call[e] \in Nat /\ attempt[e] \in Nat /\ sent[e] \in Seq(Nat)
        /\ pc[e] \in Places
    BY DEF HandlersProgress, Types
  <1>2. pc \in [Deliveries -> Places] /\ request \in [Deliveries -> Requests \cup {None}]
        /\ scenario \in [Deliveries -> Loadable \cup {None}] /\ call \in [Deliveries -> Nat]
        /\ attempt \in [Deliveries -> Nat] /\ response \in [Deliveries -> Nat \cup {None}]
        /\ sent \in [Deliveries -> Seq(Nat)]
    BY DEF Types
  <1>3. scenario[e] # None =>
          Steps(e) \in Nat /\ \A i \in 1 .. Steps(e) : scenario[e].calls[i] \in Calls
    BY ScenarioType
  <1>4. scenario'[e] = scenario[e] =>
          /\ Steps(e)' = Steps(e)
          /\ call'[e] = call[e] => Call(e)' = Call(e)
          /\ call'[e] = call[e] /\ sent'[e] = sent[e] => Counted(e)' = Counted(e)
    BY RunStays
  <1>5. request'[e] = request[e] => RouteOf(e)' = RouteOf(e)
    BY RouteStays
  <1>6. CASE Untouched(e)
    BY <1>1, <1>4, <1>5, <1>6 DEF Untouched, Progress
  <1>7. CASE LostAtStop(e)
    BY <1>1, <1>4, <1>5, <1>7 DEF LostAtStop, Progress, Early
  <1>8. CASE Receive(e)
    BY <1>1, <1>2, <1>4, <1>8 DEF Receive, Shared, Clocks, progress, Progress, Early
  <1>9. ASSUME NEW code, Answer(e, code) PROVE Progress(e)'
    BY <1>1, <1>2, <1>4, <1>5, <1>9 DEF Answer, Shared, Clocks, progress, Progress, Early
  <1>10. CASE BodyEnds(e) \/ Accept(e)
    BY <1>1, <1>2, <1>4, <1>5, <1>10, RefusalIsSound
       DEF BodyEnds, Accept, Goto, Shared, Clocks, progress, Progress, Early
  <1>11. CASE LoadEnvironment(e) \/ LoadSpec(e)
    BY <1>1, <1>2, <1>4, <1>5, <1>9, <1>11
       DEF LoadEnvironment, LoadSpec, Goto, Shared, Clocks, progress, Progress, Early
  <1>12. CASE LoadScenario(e)
    BY <1>1, <1>2, <1>9, <1>12 DEF LoadScenario, Shared, Clocks, progress, Progress, Early
  <1>13. CASE RejectKey(e) \/ Replay(e) \/ Miss(e)
    BY <1>1, <1>2, <1>4, <1>5, <1>13
       DEF RejectKey, Replay, Miss, Goto, Shared, Clocks, progress, Progress, Early
  <1>14. CASE FinishRun(e)
    BY <1>1, <1>2, <1>3, <1>4, <1>5, <1>14 DEF FinishRun, Clocks, progress, Progress, Early
  <1>15. CASE Reserve(e)
    BY <1>1, <1>2, <1>3, <1>4, <1>5, <1>15 DEF Reserve, progress, Progress, Early
  <1>16. CASE BeginRun(e)
    <2>1. scenario[e] # None /\ call[e] = 0 /\ attempt[e] = 1 /\ response[e] = None
      BY <1>1, <1>16 DEF BeginRun, Progress
    <2>2. /\ scenario'[e] = scenario[e] /\ call'[e] = 1 /\ attempt'[e] = 1
          /\ response'[e] = None /\ pc'[e] = "step" /\ sent'[e] = [i \in 1 .. Steps(e) |-> 0]
      BY <1>2, <1>16, <2>1 DEF BeginRun
    <2>3. Steps(e)' = Steps(e) /\ Steps(e) \in Nat
          /\ \A i \in 1 .. Steps(e) : scenario[e].calls[i].attempts \in Nat \ {0}
      BY <1>3, <1>4, <2>1, <2>2 DEF Calls
    <2>4. Len(sent'[e]) = Steps(e) /\ \A i \in 1 .. Steps(e) : sent'[e][i] = 0
      BY <2>2, <2>3, NothingCounted
    <2>5. Counted(e)'
      BY <2>2, <2>3, <2>4 DEF Counted
    <2> QED
      BY <2>1, <2>2, <2>3, <2>4, <2>5 DEF Progress, Early, Call
  <1>17. CASE TimeOut(e) \/ Retry(e) \/ Decide(e)
    <2>1. /\ scenario[e] # None /\ call[e] \in 1 .. Steps(e) /\ response[e] = None /\ Counted(e)
          /\ sent[e][call[e]] < attempt[e] /\ attempt[e] <= Call(e).attempts
      BY <1>1, <1>17, AtAStep
    <2>2. /\ Steps(e) \in Nat
          /\ \A i \in 1 .. Steps(e) : scenario[e].calls[i].attempts \in Nat \ {0}
          /\ \A i \in 1 .. Steps(e) : sent[e][i] \in Nat
      BY <1>1, <1>3, <2>1, ElementOfSeq DEF Calls, Counted
    <2>3. scenario'[e] = scenario[e] /\ response'[e] = response[e] /\ Steps(e)' = Steps(e)
      BY <1>4, <1>17 DEF TimeOut, Retry, Decide, GoOn
    <2>4. /\ Len(sent'[e]) = Steps(e)
          /\ sent'[e][call[e]] \in {sent[e][call[e]], sent[e][call[e]] + 1}
          /\ \A i \in 1 .. Steps(e) : i # call[e] => sent'[e][i] = sent[e][i]
      <3>1. CASE Send(e)
        BY <1>1, <2>1, <3>1, SendCounts DEF Counted
      <3>2. CASE UNCHANGED sent
        BY <2>1, <3>2 DEF Counted
      <3> QED
        BY <1>17, <3>1, <3>2 DEF TimeOut, Retry, Decide
    <2> PICK n : n = sent[e][call[e]]
      OBVIOUS
    <2>8. ASSUME NEW i \in 1 .. Steps(e)
          PROVE  sent'[e][i] <= scenario[e].calls[i].attempts /\ (i > call[e] => sent'[e][i] = 0)
      <3>1. CASE i = call[e]
        <4>1. n \in Nat /\ n < attempt[e] /\ attempt[e] <= scenario[e].calls[i].attempts
              /\ scenario[e].calls[i].attempts \in Nat
          BY <2>1, <2>2, <3>1 DEF Call
        <4>2. sent'[e][i] \in {n, n + 1} /\ attempt[e] \in Nat /\ ~ (i > call[e])
          BY <1>1, <2>4, <3>1
        <4> QED
          BY <4>1, <4>2
      <3>2. CASE i # call[e]
        BY <2>1, <2>4, <3>2 DEF Counted
      <3> QED
        BY <3>1, <3>2
    <2>5. CASE Retry(e)
      <3>1. /\ call'[e] = call[e] /\ attempt'[e] = attempt[e] + 1 /\ pc'[e] = "step"
            /\ attempt[e] < Call(e).attempts
        BY <1>2, <2>5 DEF Retry, MayRetry
      <3>2. Call(e)' = Call(e) /\ Call(e).attempts \in Nat
        BY <1>4, <2>1, <2>2, <2>3, <3>1 DEF Call
      <3>4. Counted(e)'
        BY <2>3, <2>4, <2>8, <3>1 DEF Counted
      <3>5. sent'[e][call'[e]] < attempt'[e] /\ attempt'[e] <= Call(e)'.attempts
        <4>1. sent'[e][call'[e]] \in {n, n + 1} /\ n \in Nat /\ n < attempt[e] /\ attempt[e] \in Nat
          BY <1>1, <2>1, <2>2, <2>4, <3>1
        <4>2. sent'[e][call'[e]] < attempt[e] + 1
          BY <4>1
        <4>3. attempt[e] + 1 <= Call(e).attempts
          BY <1>1, <3>1, <3>2
        <4> QED
          BY <3>1, <3>2, <4>2, <4>3
      <3>6. call'[e] # 0 /\ call'[e] \in 1 .. Steps(e)' + 1
        BY <2>1, <2>2, <2>3, <3>1
      <3> QED
        BY <2>1, <2>3, <3>1, <3>4, <3>5, <3>6 DEF Progress, Early
    <2>6. ASSUME NEW fails \in BOOLEAN, GoOn(e, fails) PROVE Progress(e)'
      <3>1. call'[e] \in call[e] + 1 .. Steps(e) + 1 /\ attempt'[e] = 1 /\ pc'[e] = "step"
        BY <1>1, <2>1, <2>6, GoOnMoves
      <3> PICK next : next = call'[e]
        OBVIOUS
      <3>5. next \in call[e] + 1 .. Steps(e) + 1 /\ next \in Nat
        BY <1>1, <2>2, <3>1
      <3>2. Counted(e)'
        BY <1>1, <2>2, <2>3, <2>4, <2>8, <3>5 DEF Counted
      <3>3. next <= Steps(e) => sent'[e][next] = 0 /\ scenario[e].calls[next].attempts \in Nat \ {0}
        BY <1>1, <2>1, <2>2, <2>8, <3>5
      <3>4. call'[e] <= Steps(e) => 1 <= Call(e)'.attempts
        BY <2>3, <3>3 DEF Call
      <3> QED
        BY <2>1, <2>2, <2>3, <3>1, <3>2, <3>3, <3>4 DEF Progress, Early
    <2>7. TRUE \in BOOLEAN /\ failed[e] \in BOOLEAN
      BY DEF Types
    <2> QED
      BY <1>17, <2>5, <2>6, <2>7 DEF TimeOut, Decide
  <1>18. CASE Unrouted(e) \/ Refuse(e) \/ Respond(e)
    BY <1>9, <1>18 DEF Unrouted, Refuse, Respond
  <1> QED
    BY <1>6, <1>7, <1>8, <1>10, <1>11, <1>12, <1>13, <1>14, <1>15, <1>16, <1>17, <1>18,
       OneHandler DEF Handle

-----------------------------------------------------------------------------
(* What an answer says                                                     *)

TypedProgress == Types /\ HandlersProgress

\* The types and the progress of the handlers hold at every moment.
LEMMA AlwaysTyped == SafeSpec => []TypedProgress
  <1>1. Init => TypedProgress
    BY TypesInitial DEF Init, TypedProgress, HandlersProgress, Progress, Early
  <1>2. TypedProgress /\ [Next]_vars => TypedProgress'
    BY TypesInductive, ProgressInductive DEF TypedProgress
  <1> QED
    BY <1>1, <1>2, PTL DEF SafeSpec

\* Nobody without the credential of the route has a file read, a request sent
\* or the body looked into, whatever the deliveries beside it do.
THEOREM SendersAreAuthenticated == Spec => []AuthenticatedFirst
  <1>1. Init => AuthenticatedFirst
    BY DEF Init, AuthenticatedFirst
  <1>2. TypedProgress /\ AuthenticatedFirst /\ [Next]_vars => AuthenticatedFirst'
    <2> SUFFICES ASSUME Types, HandlersProgress, AuthenticatedFirst, [Next]_vars,
                        NEW e \in Deliveries,
                        pc'[e] # "new", RouteOf(e)' # 0, ~Authentic(e)'
                 PROVE  /\ \/ response'[e] \in {None, 401, 413}
                           \/ (response'[e] = 400 /\ request'[e].body = "broken")
                        /\ pc'[e] \in {"reading", "read", "answered", "lost"} /\ sent'[e] = <<>>
      BY DEF TypedProgress, AuthenticatedFirst
    <2>1. Progress(e) /\ pc[e] \in Places
      BY DEF HandlersProgress, Types
    <2>2. pc \in [Deliveries -> Places] /\ request \in [Deliveries -> Requests \cup {None}]
          /\ response \in [Deliveries -> Nat \cup {None}] /\ sent \in [Deliveries -> Seq(Nat)]
      BY DEF Types
    <2>3. request'[e] = request[e] => RouteOf(e) # 0 /\ ~Authentic(e)
      BY RouteStays
    <2>4. pc[e] # "new" /\ request'[e] = request[e] =>
            /\ \/ response[e] \in {None, 401, 413}
               \/ (response[e] = 400 /\ request[e].body = "broken")
            /\ pc[e] \in {"reading", "read", "answered", "lost"} /\ sent[e] = <<>>
      BY <2>3 DEF AuthenticatedFirst
    <2>5. CASE Untouched(e)
      BY <2>4, <2>5 DEF Untouched
    <2>6. CASE LostAtStop(e)
      BY <2>4, <2>6 DEF LostAtStop
    <2>7. CASE Receive(e)
      BY <2>1, <2>2, <2>7 DEF Receive, Shared, Clocks, progress, Progress, Early
    <2>8. CASE BodyEnds(e) \/ Accept(e)
      BY <2>2, <2>3, <2>4, <2>8, RefusalIsSound DEF BodyEnds, Accept, Goto, Shared, Clocks, progress
    <2>9. CASE Unrouted(e) \/ Refuse(e)
      <3>1. Refusal(e) \in {401, 413} \/ (Refusal(e) = 400 /\ request[e].body = "broken")
        BY <2>3, <2>9, RefusalIsSound DEF Unrouted, Refuse, Answer
      <3>2. pc[e] # "new" /\ request'[e] = request[e] /\ sent'[e] = sent[e]
            /\ response'[e] = Refusal(e) /\ pc'[e] = "answered"
        BY <2>2, <2>9 DEF Unrouted, Refuse, Answer
      <3> QED
        BY <2>4, <3>1, <3>2
    <2>10. CASE LoadEnvironment(e) \/ LoadSpec(e)
      BY <2>4, <2>10 DEF LoadEnvironment, LoadSpec, Goto, Answer
    <2>11. CASE LoadScenario(e)
      BY <2>4, <2>11 DEF LoadScenario, Answer
    <2>12. CASE \/ RejectKey(e) \/ Replay(e) \/ Miss(e) \/ BeginRun(e) \/ FinishRun(e)
                \/ Reserve(e) \/ TimeOut(e) \/ Retry(e) \/ Decide(e) \/ Respond(e)
      BY <2>4, <2>12 DEF RejectKey, Replay, Miss, BeginRun, FinishRun, Reserve, TimeOut, Retry,
                         Decide, Respond, Goto, GoOn, Answer
    <2> QED
      BY <2>5, <2>6, <2>7, <2>8, <2>9, <2>10, <2>11, <2>12, OneHandler DEF Handle
  <1> QED
    BY <1>1, <1>2, AlwaysTyped, PTL DEF Spec, SafeSpec

\* What 200 tells a delivery.
Accounted(d) ==
  /\ scenario[d] # None
  /\ \/ Ran(d)
     \/ sent[d] = <<>> /\ Key(d) = Unresolved
     \/ sent[d] = <<>> /\ \E e \in Deliveries \ {d} : Ran(e) /\ Key(e) = Key(d)

\* The store completes the keys of runs that are over, and a handler is about to
\* answer 200 only when that is accounted for.
Remembered ==
  /\ \A k \in completed : \E e \in Deliveries : Ran(e) /\ Key(e) = k
  /\ \A d \in Deliveries : pc[d] = "ran" => Accounted(d)

\* A run that is over stays so.
LEMMA RanStays ==
  ASSUME Types, HandlersProgress, [Next]_vars, NEW e \in Deliveries, Ran(e)
  PROVE  Ran(e)' /\ Key(e)' = Key(e)
  <1>1. /\ scenario[e] # None /\ call[e] > Steps(e) /\ Steps(e) \in Nat /\ call[e] \in Nat
        /\ pc[e] \notin Early \cup {"begun", "missed", "waiting"}
    BY ScenarioType DEF Ran, HandlersProgress, Progress, Types
  <1>2. scenario'[e] = scenario[e] /\ request'[e] = request[e] /\ call'[e] = call[e]
        /\ sent'[e] = sent[e]
    <2>1. CASE Untouched(e) \/ LostAtStop(e)
      BY <2>1 DEF Untouched, LostAtStop
    <2>2. CASE FinishRun(e) \/ Respond(e)
      BY <2>2 DEF FinishRun, Respond, Answer, progress
    <2>3. ~(TimeOut(e) \/ Retry(e) \/ Decide(e) \/ Reserve(e))
      <3>1. ~(call[e] <= Steps(e)) /\ pc[e] # "waiting"
        BY <1>1
      <3> QED
        BY <3>1 DEF TimeOut, Retry, Decide, Reserve
    <2>4. ~(Receive(e) \/ BodyEnds(e) \/ Unrouted(e) \/ Refuse(e) \/ Accept(e)
            \/ LoadEnvironment(e) \/ LoadSpec(e) \/ LoadScenario(e))
      BY <1>1 DEF Early, Receive, BodyEnds, Unrouted, Refuse, Accept, LoadEnvironment, LoadSpec,
                  LoadScenario
    <2>5. ~(RejectKey(e) \/ Replay(e) \/ Miss(e) \/ BeginRun(e))
      BY <1>1 DEF RejectKey, Replay, Miss, BeginRun
    <2> QED
      BY <2>1, <2>2, <2>3, <2>4, <2>5, OneHandler DEF Handle
  <1>3. Steps(e)' = Steps(e) /\ Key(e)' = Key(e)
    BY <1>2, RunStays
  <1> QED
    BY <1>2, <1>3 DEF Ran

\* What is accounted for stays so as long as its delivery is left alone.
LEMMA AccountStays ==
  ASSUME Types, HandlersProgress, [Next]_vars, NEW d \in Deliveries, Accounted(d),
         scenario'[d] = scenario[d], request'[d] = request[d], sent'[d] = sent[d]
  PROVE  Accounted(d)'
  <1>1. Key(d)' = Key(d)
    BY RunStays
  <1> QED
    BY <1>1, RanStays DEF Accounted

\* The store and the handlers keep their accounts.
LEMMA RememberedInductive ==
  ASSUME Types, HandlersProgress, Remembered, [Next]_vars
  PROVE  Remembered'
  <1>1. ASSUME NEW d \in Deliveries, FinishRun(d) PROVE Ran(d)
    <2>1. Progress(d) /\ call[d] \in Nat /\ scenario[d] # None /\ call[d] > Steps(d)
      BY <1>1 DEF HandlersProgress, Progress, Types, FinishRun
    <2>2. Steps(d) \in Nat
      BY <2>1, ScenarioType
    <2>3. Counted(d)
      BY <2>1, <2>2 DEF Progress
    <2> QED
      BY <2>1, <2>3 DEF Ran, Counted
  <1>2. ASSUME NEW k \in completed' PROVE \E e \in Deliveries : Ran(e)' /\ Key(e)' = k
    <2>1. k \in completed \/ \E d \in Deliveries : FinishRun(d) /\ k = Key(d)
      <3>1. CASE Edit \/ Tick \/ Signal \/ Stop \/ Stopped \/ UNCHANGED vars
        BY <3>1 DEF Edit, Tick, Signal, Stop, Stopped, vars
      <3>2. ASSUME NEW d \in Deliveries, Receive(d) \/ BodyEnds(d) \/ Handle(d)
            PROVE  completed' \subseteq completed \/ (FinishRun(d) /\ completed' \subseteq completed \cup {Key(d)})
        <4>1. CASE \/ Receive(d) \/ BodyEnds(d) \/ Unrouted(d) \/ Refuse(d) \/ Accept(d)
                   \/ LoadEnvironment(d) \/ LoadSpec(d) \/ LoadScenario(d) \/ RejectKey(d)
                   \/ Replay(d) \/ Miss(d) \/ Respond(d)
          BY <4>1 DEF Receive, BodyEnds, Unrouted, Refuse, Accept, LoadEnvironment, LoadSpec,
                      LoadScenario, RejectKey, Replay, Miss, Respond, Goto, Answer, Shared
        <4>2. CASE Reserve(d) \/ TimeOut(d) \/ Retry(d) \/ Decide(d)
          BY <4>2 DEF Reserve, TimeOut, Retry, Decide, GoOn, Shared
        <4>3. CASE BeginRun(d) \/ FinishRun(d)
          BY <4>3 DEF BeginRun, FinishRun
        <4> QED
          BY <3>2, <4>1, <4>2, <4>3 DEF Handle
      <3> QED
        BY <1>2, <3>1, <3>2 DEF Next
    <2>2. PICK e \in Deliveries : Ran(e) /\ Key(e) = k
      BY <1>1, <2>1 DEF Remembered
    <2> QED
      BY <2>2, RanStays
  <1>3. ASSUME NEW d \in Deliveries, pc'[d] = "ran" PROVE Accounted(d)'
    <2>1. CASE pc[d] = "ran" /\ Untouched(d)
      BY <2>1, AccountStays DEF Remembered, Untouched
    <2>2. CASE FinishRun(d)
      <3>1. Accounted(d)
        BY <1>1, <2>2 DEF Accounted, Ran
      <3> QED
        BY <2>2, <3>1, AccountStays DEF FinishRun
    <2>3. CASE RejectKey(d) \/ Replay(d)
      <3>1. scenario[d] # None /\ call[d] = 0 /\ sent[d] = <<>>
        BY <2>3 DEF HandlersProgress, Progress, RejectKey, Replay
      <3>2. ~Ran(d)
        BY <3>1, ScenarioType DEF Ran
      <3>3. Accounted(d)
        BY <2>3, <3>1, <3>2 DEF Accounted, RejectKey, Replay, Remembered
      <3> QED
        BY <2>3, <3>3, AccountStays DEF RejectKey, Replay, Goto
    <2>4. pc \in [Deliveries -> Places]
      BY DEF Types
    <2>5. ~(LostAtStop(d) \/ Receive(d) \/ BodyEnds(d) \/ Unrouted(d) \/ Refuse(d) \/ Accept(d)
            \/ LoadEnvironment(d) \/ LoadSpec(d) \/ LoadScenario(d) \/ Respond(d))
      BY <1>3, <2>4 DEF LostAtStop, Receive, BodyEnds, Unrouted, Refuse, Accept, LoadEnvironment,
                        LoadSpec, LoadScenario, Respond, Goto, Answer
    <2>6. ~(Miss(d) \/ BeginRun(d) \/ Reserve(d) \/ TimeOut(d) \/ Retry(d) \/ Decide(d))
      BY <1>3, <2>4 DEF Miss, BeginRun, Reserve, TimeOut, Retry, Decide, Goto, GoOn
    <2>7. Untouched(d) => pc[d] = "ran"
      BY <1>3 DEF Untouched
    <2> QED
      BY <2>1, <2>2, <2>3, <2>5, <2>6, <2>7, OneHandler DEF Handle
  <1> QED
    BY <1>2, <1>3 DEF Remembered

\* An answer other than 200 promises that no request reached the target; 200
\* that the workflow was run to its end, within the attempts of its steps, by
\* this delivery or an earlier one with its key, or that its key has no value.
THEOREM OnlyAnsweredRunsSend == Spec => []OnlyRunsTouchTarget
  <1> DEFINE Sound(d) == /\ response[d] \notin {None, 200} => scenario[d] = None /\ sent[d] = <<>>
                         /\ response[d] = 200 => Accounted(d)
             Inv == Remembered /\ \A d \in Deliveries : Sound(d)
  <1>1. Init => Inv
    BY NoneAssumption DEF Init, Remembered
  <1>2. TypedProgress /\ Inv /\ [Next]_vars => Inv'
    <2> SUFFICES ASSUME Types, HandlersProgress, Inv, [Next]_vars, NEW e \in Deliveries
                 PROVE  Sound(e)'
      BY RememberedInductive DEF TypedProgress
    <2>1. Progress(e) /\ Sound(e)
      BY DEF HandlersProgress
    <2>2. response \in [Deliveries -> Nat \cup {None}] /\ None # 200
      BY NoneAssumption DEF Types
    <2>3. ASSUME response'[e] = response[e], scenario'[e] = scenario[e],
                 request'[e] = request[e], sent'[e] = sent[e]
          PROVE  Sound(e)'
      BY <2>1, <2>3, AccountStays
    <2>4. CASE Untouched(e) \/ LostAtStop(e)
      BY <2>3, <2>4 DEF Untouched, LostAtStop
    <2>5. ASSUME response'[e] = response[e], pc[e] # "answered" PROVE Sound(e)'
      BY <2>1, <2>2, <2>5 DEF Progress
    <2>6. ASSUME NEW code, code # 200, pc[e] \in Early, Answer(e, code) PROVE Sound(e)'
      BY <2>1, <2>2, <2>6 DEF Answer, progress, Progress
    <2>7. CASE Respond(e)
      <3>1. Accounted(e)
        BY <2>7 DEF Respond, Remembered
      <3>2. Accounted(e)' /\ response'[e] = 200
        BY <2>2, <2>7, <3>1, AccountStays DEF Respond, Answer
      <3> QED
        BY <3>2
    <2>8. CASE Unrouted(e) \/ Refuse(e)
      BY <2>6, <2>8, RefusalIsSound DEF Unrouted, Refuse, Early
    <2>9. CASE LoadEnvironment(e) \/ LoadSpec(e) \/ LoadScenario(e)
      BY <2>5, <2>6, <2>9 DEF LoadEnvironment, LoadSpec, LoadScenario, Goto, Early
    <2>10. CASE \/ Receive(e) \/ BodyEnds(e) \/ Accept(e) \/ RejectKey(e) \/ Replay(e) \/ Miss(e)
                \/ BeginRun(e) \/ FinishRun(e) \/ Reserve(e) \/ TimeOut(e) \/ Retry(e) \/ Decide(e)
      BY <2>5, <2>10 DEF Receive, BodyEnds, Accept, RejectKey, Replay, Miss, BeginRun, FinishRun,
                         Reserve, TimeOut, Retry, Decide, Goto, GoOn
    <2> QED
      BY <2>4, <2>7, <2>8, <2>9, <2>10, OneHandler DEF Handle
  <1>3. Inv => OnlyRunsTouchTarget
    BY DEF OnlyRunsTouchTarget, Accounted
  <1> QED
    BY <1>1, <1>2, <1>3, AlwaysTyped, PTL DEF Spec, SafeSpec

-----------------------------------------------------------------------------
(* The queue of an operation                                               *)

\* A run that waits for a turn of op.
Waits(d, op) == pc[d] = "waiting" /\ Op(d) = op

\* The turn a run waits for: none if the operation is not limited, not past its
\* deadline, an interval before the next token and after the last turn, and
\* an interval after somebody else's unless it is among the first.
Turn(d, op) ==
  /\ limit[op] = 0 => wait[d] = 0
  /\ left[d] # None => wait[d] <= left[d]
  /\ wait[d] > 0 => wait[d] + limit[op] <= debt[op] /\ limit[op] <= since[op] + wait[d]
  /\ wait[d] > limit[op] => \E e \in Deliveries : Waits(e, op) /\ wait[e] + limit[op] = wait[d]

\* The token of op that is due next: an interval after the last turn, and after
\* the last one that somebody waits for.
Tokens(op) ==
  /\ limit[op] <= since[op] + debt[op]
  /\ limit[op] = 0 => debt[op] = 0
  /\ mode # "stopped" /\ debt[op] > limit[op] =>
       \E e \in Deliveries : Waits(e, op) /\ wait[e] + limit[op] = debt[op]

TurnsApart(op) ==
  \A d, e \in Deliveries :
    d # e /\ Waits(d, op) /\ Waits(e, op) /\ wait[d] > 0 /\ wait[d] <= wait[e] =>
      wait[d] + limit[op] <= wait[e]

InOrder(op) ==
  /\ Tokens(op) /\ TurnsApart(op)
  /\ \A d \in Deliveries : Waits(d, op) => Turn(d, op)

\* Who does not wait for a turn has none, and a server that has stopped nobody.
Settled ==
  \A d \in Deliveries : /\ pc[d] \notin {"waiting", "lost"} => wait[d] = 0
                        /\ mode = "stopped" => pc[d] \in {"new", "answered", "lost"}

Queues == Settled /\ \A op \in Ops : InOrder(op)

\* A run that waits, or is about to, calls an operation.
LEMMA CallerType ==
  ASSUME Types, HandlersProgress, NEW d \in Deliveries,
         pc[d] = "waiting" \/ (pc[d] = "step" /\ call[d] <= Steps(d))
  PROVE  Op(d) \in Ops
  <1>1. scenario[d] # None /\ call[d] \in Nat
    BY DEF HandlersProgress, Progress, Types
  <1>2. call[d] \in 1 .. Steps(d)
    BY <1>1, ScenarioType DEF HandlersProgress, Progress
  <1> QED
    BY <1>1, <1>2, ScenarioType

\* The operation a run calls depends on its scenario and its step.
LEMMA OpStays ==
  ASSUME NEW d, scenario'[d] = scenario[d], call'[d] = call[d]
  PROVE  Op(d)' = Op(d)
  BY DEF Op, Call

\* Most steps leave the queues as they are: no clock, no turn taken, and nobody
\* leaves before its turn has come.
Quiet ==
  /\ limit' = limit /\ debt' = debt /\ since' = since
  /\ mode' = "stopped" <=> mode = "stopped"
  /\ \A d \in Deliveries :
       /\ wait'[d] = wait[d]
       /\ pc'[d] = "waiting" => pc[d] = "waiting" /\ left'[d] = left[d] /\ Op(d)' = Op(d)
       /\ pc[d] = "waiting" /\ pc'[d] # "waiting" => wait[d] = 0
       /\ pc'[d] = "lost" <=> pc[d] = "lost"
       /\ mode = "stopped" => pc'[d] = pc[d]

\* A handler that goes on without taking a turn is quiet.
LEMMA QuietMove ==
  ASSUME Types, Settled, NEW d \in Deliveries, NEW l \in Places \ {"waiting", "lost"},
         limit' = limit, debt' = debt, since' = since, mode' = mode, wait' = wait,
         pc' = [pc EXCEPT ![d] = l], pc[d] \notin {"answered", "lost"},
         pc[d] = "new" => mode # "stopped",
         pc[d] = "waiting" => wait[d] = 0,
         \A e \in Deliveries \ {d} :
           left'[e] = left[e] /\ scenario'[e] = scenario[e] /\ call'[e] = call[e]
  PROVE  Quiet
  <1>1. mode # "stopped"
    BY DEF Settled
  <1>2. pc \in [Deliveries -> Places]
    BY DEF Types
  <1>3. \A e \in Deliveries \ {d} : Op(e)' = Op(e)
    BY OpStays
  <1> QED
    BY <1>1, <1>2, <1>3 DEF Quiet

\* Only the clock, the end and a turn taken are not quiet.
LEMMA MostStepsAreQuiet ==
  ASSUME Types, HandlersProgress, Queues, [Next]_vars
  PROVE  Tick \/ Stop \/ Quiet \/ \E d \in Deliveries : Reserve(d)
  <1>1. Settled
    BY DEF Queues
  <1>2. ASSUME UNCHANGED <<limit, debt, since, handlers>>, mode' = "stopped" <=> mode = "stopped"
        PROVE  Quiet
    <2>1. \A e \in Deliveries : Op(e)' = Op(e)
      BY <1>2, OpStays DEF handlers, progress
    <2> QED
      BY <1>2, <2>1 DEF Quiet, handlers, progress
  <1>3. CASE Edit \/ Signal \/ Stopped \/ UNCHANGED vars
    BY <1>2, <1>3 DEF Edit, Signal, Stopped, vars
  <1>4. ASSUME NEW d \in Deliveries, Receive(d) PROVE Quiet
    BY <1>1, <1>4, QuietMove DEF Receive, Shared, Clocks, progress, Places
  <1>5. ASSUME NEW d \in Deliveries, NEW l \in Places \ {"waiting", "lost"}, Goto(d, l),
               pc[d] \notin {"new", "answered", "lost"}, pc[d] = "waiting" => wait[d] = 0
        PROVE  Quiet
    BY <1>1, <1>5, QuietMove DEF Goto, Shared, Clocks, progress
  <1>6. ASSUME NEW d \in Deliveries, NEW code, Answer(d, code),
               pc[d] \notin {"new", "answered", "lost", "waiting"}
        PROVE  Quiet
    BY <1>1, <1>6, QuietMove DEF Answer, Shared, Clocks, progress, Places
  <1>7. ASSUME NEW d \in Deliveries,
               BodyEnds(d) \/ Accept(d) \/ RejectKey(d) \/ Replay(d) \/ Miss(d)
        PROVE  Quiet
    BY <1>5, <1>7 DEF BodyEnds, Accept, RejectKey, Replay, Miss, Places
  <1>8. ASSUME NEW d \in Deliveries, TimeOut(d) \/ Retry(d) \/ Decide(d) PROVE Quiet
    <2>1. ASSUME pc[d] = "waiting", left[d] = 0 PROVE wait[d] = 0
      <3>1. Turn(d, Op(d))
        BY <2>1, CallerType DEF Queues, InOrder, Waits
      <3>2. wait[d] \in Nat /\ left[d] # None
        BY <2>1, NoneAssumption DEF Types
      <3> QED
        BY <2>1, <3>1, <3>2 DEF Turn
    <2>2. pc[d] \in {"step", "waiting"} /\ (pc[d] = "waiting" => wait[d] = 0)
      BY <1>8, <2>1 DEF TimeOut, Retry, Decide, Send
    <2>3. CASE Retry(d)
      BY <1>1, <2>2, <2>3, QuietMove DEF Retry, Shared, Clocks, Places, Types
    <2>4. ASSUME NEW fails, GoOn(d, fails) PROVE Quiet
      BY <1>1, <2>2, <2>4, QuietMove DEF GoOn, Shared, Clocks, Places, Types
    <2> QED
      BY <1>8, <2>3, <2>4 DEF TimeOut, Decide
  <1>9. ASSUME NEW d \in Deliveries, Unrouted(d) \/ Refuse(d) \/ Respond(d) PROVE Quiet
    BY <1>6, <1>9 DEF Unrouted, Refuse, Respond
  <1>10. ASSUME NEW d \in Deliveries, LoadEnvironment(d) \/ LoadSpec(d) PROVE Quiet
    BY <1>5, <1>6, <1>10 DEF LoadEnvironment, LoadSpec, Places
  <1>11. ASSUME NEW d \in Deliveries, LoadScenario(d) PROVE Quiet
    <2>1. CASE Answer(d, 500)
      BY <1>6, <1>11, <2>1 DEF LoadScenario
    <2>2. CASE ~Answer(d, 500)
      BY <1>1, <1>11, <2>2, QuietMove DEF LoadScenario, Shared, Clocks, progress, Places, Types
    <2> QED
      BY <2>1, <2>2
  <1>12. ASSUME NEW d \in Deliveries, BeginRun(d) PROVE Quiet
    BY <1>1, <1>12, QuietMove DEF BeginRun, Clocks, Places, Types
  <1>13. ASSUME NEW d \in Deliveries, FinishRun(d) PROVE Quiet
    BY <1>1, <1>13, QuietMove DEF FinishRun, Clocks, progress, Places
  <1> QED
    BY <1>3, <1>4, <1>7, <1>8, <1>9, <1>10, <1>11, <1>12, <1>13
       DEF Next, Handle

\* The numbers of an operation are numbers.
LEMMA NumbersOf ==
  ASSUME Types, NEW op \in Ops
  PROVE  /\ limit[op] \in Nat /\ debt[op] \in Nat /\ since[op] \in Nat /\ MaxInterval \in Nat
         /\ limit[op] <= MaxInterval /\ since[op] <= MaxInterval
         /\ \A d \in Deliveries : wait[d] \in Nat /\ left[d] \in Nat \cup {None}
  BY BoundsAssumption DEF Types

\* A server that starts has no queues.
LEMMA QueuesInitial == Init => Queues
  <1> SUFFICES ASSUME Init PROVE Queues
    OBVIOUS
  <1>1. Types
    BY TypesInitial
  <1>2. ASSUME NEW op \in Ops PROVE InOrder(op)
    <2>1. limit[op] \in Nat /\ limit[op] <= MaxInterval /\ debt[op] = 0 /\ since[op] = MaxInterval
      BY <1>1, NumbersOf DEF Init
    <2>2. \A d \in Deliveries : ~Waits(d, op)
      BY DEF Init, Waits
    <2> QED
      BY <2>1, <2>2, BoundsAssumption DEF InOrder, Tokens, TurnsApart
  <1>3. Settled
    BY DEF Init, Settled
  <1> QED
    BY <1>2, <1>3 DEF Queues

\* A quiet step keeps the queues.
LEMMA QuietKeepsQueues ==
  ASSUME Types, Queues, Quiet
  PROVE  Queues'
  <1>1. Settled'
    BY DEF Quiet, Queues, Settled
  <1>2. ASSUME NEW op \in Ops PROVE InOrder(op)'
    <2>1. Tokens(op) /\ TurnsApart(op) /\ \A d \in Deliveries : Waits(d, op) => Turn(d, op)
      BY DEF Queues, InOrder
    <2>2. /\ limit[op] \in Nat /\ debt[op] \in Nat /\ since[op] \in Nat
          /\ \A d \in Deliveries : wait[d] \in Nat
      BY NumbersOf
    <2>3. /\ limit'[op] = limit[op] /\ debt'[op] = debt[op] /\ since'[op] = since[op]
          /\ \A d \in Deliveries : wait'[d] = wait[d]
          /\ mode' = "stopped" <=> mode = "stopped"
      BY DEF Quiet
    <2>4. \A d \in Deliveries : Waits(d, op)' => Waits(d, op) /\ left'[d] = left[d]
      BY DEF Quiet, Waits
    <2>5. ASSUME NEW e \in Deliveries, Waits(e, op), wait[e] # 0 PROVE Waits(e, op)'
      BY <2>5 DEF Quiet, Waits
    <2>6. Tokens(op)'
      BY <2>1, <2>2, <2>3, <2>5 DEF Tokens
    <2>7. TurnsApart(op)'
      BY <2>1, <2>3, <2>4 DEF TurnsApart
    <2>8. ASSUME NEW d \in Deliveries, Waits(d, op)' PROVE Turn(d, op)'
      BY <2>1, <2>2, <2>3, <2>4, <2>5, <2>8 DEF Turn
    <2> QED
      BY <2>6, <2>7, <2>8 DEF InOrder
  <1> QED
    BY <1>1, <1>2 DEF Queues

\* A turn taken is the one after the last of the queue.
LEMMA ReserveKeepsQueues ==
  ASSUME Types, HandlersProgress, Queues, NEW r \in Deliveries, Reserve(r)
  PROVE  Queues'
  <1>1. pc \in [Deliveries -> Places] /\ wait \in [Deliveries -> Nat] /\ debt \in [Ops -> Nat]
        /\ since \in [Ops -> 0 .. MaxInterval]
    BY DEF Types
  <1>2. pc[r] = "step" /\ Op(r) \in Ops /\ wait[r] = 0 /\ mode # "stopped"
    BY CallerType DEF Reserve, Queues, Settled
  <1>3. /\ pc' = [pc EXCEPT ![r] = "waiting"] /\ mode' = mode /\ limit' = limit /\ left' = left
        /\ \A d \in Deliveries : Op(d)' = Op(d)
    BY OpStays DEF Reserve, progress
  <1>4. \A d \in Deliveries \ {r} : wait'[d] = wait[d]
    BY <1>1 DEF Reserve
  <1>5. Settled'
    BY <1>1, <1>2, <1>3, <1>4 DEF Queues, Settled
  <1>6. ASSUME NEW op \in Ops PROVE InOrder(op)'
    <2>1. Tokens(op) /\ TurnsApart(op) /\ \A d \in Deliveries : Waits(d, op) => Turn(d, op)
      BY DEF Queues, InOrder
    <2>2. /\ limit[op] \in Nat /\ debt[op] \in Nat /\ since[op] \in Nat
          /\ \A d \in Deliveries : wait[d] \in Nat /\ left[d] \in Nat \cup {None}
      BY NumbersOf
    <2>3. \A d \in Deliveries \ {r} : Waits(d, op)' <=> Waits(d, op)
      BY <1>1, <1>3 DEF Waits
    <2>4. ~Waits(r, op) /\ (Waits(r, op)' <=> Op(r) = op)
      BY <1>1, <1>2, <1>3 DEF Waits
    <2>5. CASE Op(r) # op \/ limit[Op(r)] = 0
      <3>1. debt'[op] = debt[op] /\ since'[op] = since[op]
        BY <1>1, <1>2, <2>5 DEF Reserve, Charged
      <3>2. Op(r) = op => wait'[r] = 0 /\ limit[op] = 0
        BY <1>2, <2>5 DEF Reserve
      <3>3. Tokens(op)'
        BY <1>3, <1>4, <2>1, <2>3, <2>4, <3>1 DEF Tokens
      <3>4. TurnsApart(op)'
        BY <1>3, <1>4, <2>1, <2>2, <2>3, <2>4, <3>2 DEF TurnsApart
      <3>5. ASSUME NEW d \in Deliveries, Waits(d, op)' PROVE Turn(d, op)'
        <4>1. CASE d = r
          BY <1>3, <2>2, <2>4, <3>2, <3>5, <4>1 DEF Turn
        <4>2. CASE d # r
          <5>1. Turn(d, op) /\ wait'[d] = wait[d]
            BY <1>4, <2>1, <2>3, <3>5, <4>2
          <5>2. ASSUME NEW e \in Deliveries, Waits(e, op) PROVE Waits(e, op)' /\ wait'[e] = wait[e]
            BY <1>4, <2>3, <2>4, <5>2
          <5> QED
            BY <1>3, <3>1, <5>1, <5>2 DEF Turn
        <4> QED
          BY <4>1, <4>2
      <3> QED
        BY <3>3, <3>4, <3>5 DEF InOrder
    <2>6. CASE Op(r) = op /\ limit[op] # 0
      <3>1. /\ wait'[r] = debt[op] /\ debt'[op] = debt[op] + limit[op]
            /\ since'[op] = IF debt[op] = 0 THEN 0 ELSE since[op]
        BY <1>1, <1>2, <2>6 DEF Reserve, Charged
      <3>2. left[r] # None => debt[op] <= left[r]
        BY <2>2, <2>6 DEF Reserve, TooLate
      <3>3. \A d \in Deliveries : Waits(d, op) /\ wait[d] > 0 => wait[d] + limit[op] <= debt[op]
        BY <2>1 DEF Turn
      <3>4. Waits(r, op)'
        BY <2>4, <2>6
      <3>5. Tokens(op)'
        BY <1>2, <1>3, <2>1, <2>2, <2>6, <3>1, <3>4 DEF Tokens
      <3>6. TurnsApart(op)'
        <4> SUFFICES ASSUME NEW d \in Deliveries, NEW e \in Deliveries, d # e,
                            Waits(d, op)', Waits(e, op)', wait'[d] > 0, wait'[d] <= wait'[e]
                     PROVE  wait'[d] + limit[op] <= wait'[e]
          BY <1>3 DEF TurnsApart
        <4>1. CASE d = r
          <5>1. Waits(e, op) /\ wait'[e] = wait[e] /\ wait'[d] = debt[op]
            BY <1>4, <2>3, <3>1, <4>1
          <5> QED
            BY <2>2, <2>6, <3>3, <5>1
        <4>2. CASE e = r
          <5>1. Waits(d, op) /\ wait'[d] = wait[d] /\ wait'[e] = debt[op]
            BY <1>4, <2>3, <3>1, <4>2
          <5> QED
            BY <3>3, <5>1
        <4>3. CASE d # r /\ e # r
          BY <1>4, <2>1, <2>3, <4>3 DEF TurnsApart
        <4> QED
          BY <4>1, <4>2, <4>3
      <3>7. ASSUME NEW d \in Deliveries, Waits(d, op)' PROVE Turn(d, op)'
        <4>1. ASSUME NEW e \in Deliveries, Waits(e, op) PROVE Waits(e, op)' /\ wait'[e] = wait[e]
          BY <1>4, <2>3, <2>4, <4>1
        <4>2. CASE d = r
          <5>1. wait'[d] > limit[op] =>
                  \E e \in Deliveries : Waits(e, op)' /\ wait'[e] + limit[op] = wait'[d]
            BY <1>2, <2>1, <3>1, <4>1, <4>2 DEF Tokens
          <5>2. wait'[d] > 0 =>
                  wait'[d] + limit[op] <= debt'[op] /\ limit[op] <= since'[op] + wait'[d]
            BY <2>1, <2>2, <3>1, <4>2 DEF Tokens
          <5> QED
            BY <1>3, <2>6, <3>1, <3>2, <4>2, <5>1, <5>2 DEF Turn
        <4>3. CASE d # r
          <5>1. Waits(d, op) /\ Turn(d, op) /\ wait'[d] = wait[d]
            BY <1>4, <2>1, <2>3, <3>7, <4>3
          <5>2. wait[d] > 0 =>
                  wait[d] + limit[op] <= debt'[op] /\ limit[op] <= since'[op] + wait[d]
            BY <2>2, <2>6, <3>1, <5>1 DEF Turn
          <5>3. wait[d] > limit[op] =>
                  \E e \in Deliveries : Waits(e, op)' /\ wait'[e] + limit[op] = wait[d]
            BY <4>1, <5>1 DEF Turn
          <5> QED
            BY <1>3, <5>1, <5>2, <5>3 DEF Turn
        <4> QED
          BY <4>2, <4>3
      <3> QED
        BY <3>5, <3>6, <3>7 DEF InOrder
    <2> QED
      BY <2>5, <2>6
  <1> QED
    BY <1>5, <1>6 DEF Queues

\* A tick brings every turn, every token and every deadline one tick nearer.
LEMMA TickKeepsQueues ==
  ASSUME Types, HandlersProgress, Queues, Tick
  PROVE  Queues'
  <1>1. /\ pc' = pc /\ mode' = mode /\ limit' = limit
        /\ \A d \in Deliveries : Op(d)' = Op(d)
    BY OpStays DEF Tick, progress
  <1>2. \A d \in Deliveries : /\ wait'[d] = IF wait[d] = 0 THEN 0 ELSE wait[d] - 1
                              /\ left'[d] = Less(left[d])
    BY LessType DEF Tick, Types
  <1>3. Settled'
    BY <1>1, <1>2 DEF Queues, Settled
  <1>4. ASSUME NEW op \in Ops PROVE InOrder(op)'
    <2>1. Tokens(op) /\ TurnsApart(op) /\ \A d \in Deliveries : Waits(d, op) => Turn(d, op)
      BY DEF Queues, InOrder
    <2>2. /\ limit[op] \in Nat /\ debt[op] \in Nat /\ since[op] \in Nat /\ MaxInterval \in Nat
          /\ limit[op] <= MaxInterval
          /\ \A d \in Deliveries : wait[d] \in Nat /\ left[d] \in Nat \cup {None}
      BY NumbersOf
    <2>3. \A d \in Deliveries : Waits(d, op)' <=> Waits(d, op)
      BY <1>1 DEF Waits
    <2>4. debt'[op] = IF debt[op] = 0 THEN 0 ELSE debt[op] - 1
      BY <2>2, LessType DEF Tick, Refilled
    <2>5. since'[op] = IF TurnNext(op) THEN 0
                       ELSE IF since[op] = MaxInterval THEN MaxInterval ELSE since[op] + 1
      BY DEF Tick
    <2>6. TurnNext(op) <=> \E d \in Deliveries : Waits(d, op) /\ limit[op] # 0 /\ wait[d] = 1
      BY DEF TurnNext, InFlight, Waits
    <2>7. Tokens(op)'
      <3>1. limit[op] <= since'[op] + debt'[op]
        <4>1. CASE TurnNext(op)
          <5>1. 1 + limit[op] <= debt[op]
            BY <2>1, <2>2, <2>6, <4>1 DEF Turn
          <5> QED
            BY <2>2, <2>4, <2>5, <4>1, <5>1
        <4>2. CASE ~TurnNext(op)
          BY <2>1, <2>2, <2>4, <2>5, <4>2 DEF Tokens
        <4> QED
          BY <4>1, <4>2
      <3>2. ASSUME mode # "stopped", debt'[op] > limit[op]
            PROVE  \E e \in Deliveries : Waits(e, op)' /\ wait'[e] + limit[op] = debt'[op]
        <4>1. debt[op] = debt'[op] + 1 /\ debt[op] > limit[op] /\ debt'[op] \in Nat
          BY <2>2, <2>4, <3>2
        <4>2. PICK e \in Deliveries : Waits(e, op) /\ wait[e] + limit[op] = debt[op]
          BY <2>1, <3>2, <4>1 DEF Tokens
        <4>3. wait'[e] + limit[op] = debt'[op]
          BY <1>2, <2>2, <3>2, <4>1, <4>2
        <4> QED
          BY <2>3, <4>2, <4>3
      <3>3. limit[op] = 0 => debt'[op] = 0
        BY <2>1, <2>4 DEF Tokens
      <3> QED
        BY <1>1, <3>1, <3>2, <3>3 DEF Tokens
    <2>8. TurnsApart(op)'
      BY <1>1, <1>2, <2>1, <2>2, <2>3 DEF TurnsApart
    <2>9. ASSUME NEW d \in Deliveries, Waits(d, op)' PROVE Turn(d, op)'
      <3>1. Waits(d, op) /\ Turn(d, op)
        BY <2>1, <2>3, <2>9
      <3>2. limit[op] = 0 => wait'[d] = 0
        BY <1>2, <3>1 DEF Turn
      <3>3. left'[d] # None => wait'[d] <= left'[d]
        <4>1. CASE left[d] = None
          BY <1>2, <4>1, LessType
        <4>2. CASE left[d] # None
          <5>1. left[d] \in Nat /\ wait[d] <= left[d]
            BY <2>2, <3>1, <4>2 DEF Turn
          <5>2. left'[d] = IF left[d] = 0 THEN 0 ELSE left[d] - 1
            BY <1>2, <5>1, LessType
          <5> QED
            BY <1>2, <2>2, <5>1, <5>2
        <4> QED
          BY <4>1, <4>2
      <3>4. ASSUME wait'[d] > 0
            PROVE  wait'[d] + limit[op] <= debt'[op] /\ limit[op] <= since'[op] + wait'[d]
        <4>1. wait[d] = wait'[d] + 1 /\ wait'[d] \in Nat
          BY <1>2, <2>2, <3>4
        <4>2. wait[d] + limit[op] <= debt[op] /\ limit[op] <= since[op] + wait[d]
          BY <2>2, <3>1, <4>1 DEF Turn
        <4>3. wait'[d] + limit[op] <= debt'[op]
          BY <2>2, <2>4, <4>1, <4>2
        <4>4. CASE TurnNext(op)
          <5>1. PICK e \in Deliveries : Waits(e, op) /\ wait[e] = 1
            BY <2>6, <4>4
          <5>2. wait[e] + limit[op] <= wait[d]
            BY <2>1, <2>2, <3>1, <3>4, <4>1, <5>1 DEF TurnsApart
          <5>3. limit[op] <= wait'[d] /\ since'[op] = 0
            BY <2>2, <2>5, <4>1, <4>4, <5>1, <5>2
          <5> QED
            BY <2>2, <4>1, <4>3, <5>3
        <4>5. CASE ~TurnNext(op)
          BY <2>2, <2>5, <4>1, <4>2, <4>3, <4>5
        <4> QED
          BY <4>4, <4>5
      <3>5. ASSUME wait'[d] > limit[op]
            PROVE  \E e \in Deliveries : Waits(e, op)' /\ wait'[e] + limit[op] = wait'[d]
        <4>1. wait[d] = wait'[d] + 1 /\ wait[d] > limit[op]
          BY <1>2, <2>2, <3>5
        <4>2. PICK e \in Deliveries : Waits(e, op) /\ wait[e] + limit[op] = wait[d]
          BY <3>1, <4>1 DEF Turn
        <4> QED
          BY <1>2, <2>2, <2>3, <3>5, <4>1, <4>2
      <3> QED
        BY <1>1, <3>2, <3>3, <3>4, <3>5 DEF Turn
    <2> QED
      BY <2>7, <2>8, <2>9 DEF InOrder
  <1> QED
    BY <1>3, <1>4 DEF Queues

\* When the process ends nobody waits any more.
LEMMA StopEndsQueues ==
  ASSUME Types, Queues, Stop
  PROVE  Queues'
  <1>1. \A d \in Deliveries : pc'[d] = IF pc[d] \in {"new", "answered", "lost"} THEN pc[d] ELSE "lost"
    BY DEF Stop, InFlight
  <1>2. /\ mode' = "stopped" /\ limit' = limit /\ debt' = debt /\ since' = since /\ wait' = wait
    BY DEF Stop
  <1>3. Settled'
    BY <1>1, <1>2 DEF Queues, Settled
  <1>4. ASSUME NEW op \in Ops PROVE InOrder(op)'
    <2>1. \A d \in Deliveries : ~Waits(d, op)'
      BY <1>1 DEF Waits
    <2>2. Tokens(op)
      BY DEF Queues, InOrder
    <2> QED
      BY <1>2, <2>1, <2>2 DEF InOrder, Tokens, TurnsApart
  <1> QED
    BY <1>3, <1>4 DEF Queues

\* Every step keeps the queues.
LEMMA QueuesInductive ==
  ASSUME Types, HandlersProgress, Queues, [Next]_vars
  PROVE  Queues'
  BY MostStepsAreQuiet, QuietKeepsQueues, ReserveKeepsQueues, TickKeepsQueues, StopEndsQueues

QueueInv == Types /\ HandlersProgress /\ Queues

\* The queues are in order at every moment.
LEMMA AlwaysInOrder == SafeSpec => []QueueInv
  <1>1. TypedProgress /\ Init => QueueInv
    BY QueuesInitial DEF TypedProgress, QueueInv
  <1>2. QueueInv /\ [Next]_vars => QueueInv'
    BY TypesInductive, ProgressInductive, QueuesInductive DEF QueueInv
  <1> QED
    BY <1>1, <1>2, AlwaysTyped, PTL DEF SafeSpec

-----------------------------------------------------------------------------
(* What the queues give the deliveries                                     *)

\* Two turns of an operation are never closer than its interval, however many
\* deliveries share it.
THEOREM RateLimitsAreKept == Spec => TurnsAreSpaced
  <1> DEFINE Called(d) == pc[d] \in {"step", "waiting"} /\ call[d] <= Steps(d)
             Spaced(d) ==
               /\ since[Op(d)] + (IF pc[d] = "waiting" THEN 1 ELSE 0) >= limit[Op(d)]
               /\ \A e \in InFlight \ {d} : ~(Called(e) /\ Op(e) = Op(d) /\ TurnComes(e))
  <1>1. QueueInv /\ [Next]_vars =>
          [\A d \in InFlight : Called(d) /\ TurnComes(d) => Spaced(d)]_vars
    <2> SUFFICES ASSUME Types, HandlersProgress, Queues, [Next]_vars,
                        NEW d \in Deliveries, d \in InFlight, Called(d), TurnComes(d)
                 PROVE  Spaced(d)
      BY DEF QueueInv, InFlight
    <2>1. Op(d) \in Ops
      BY CallerType
    <2>2. InOrder(Op(d)) /\ Settled
      BY <2>1 DEF Queues
    <2>3. /\ limit[Op(d)] \in Nat /\ debt[Op(d)] \in Nat /\ since[Op(d)] \in Nat
          /\ \A e \in Deliveries : wait[e] \in Nat
      BY <2>1, NumbersOf
    <2>4. CASE Tick
      <3>1. \A e \in Deliveries : pc'[e] = pc[e] /\ wait'[e] = Less(wait[e])
        BY <2>4 DEF Tick
      <3>2. ASSUME NEW e \in Deliveries, TurnComes(e) PROVE pc[e] = "waiting" /\ wait[e] = 1
        BY <2>3, <3>1, <3>2, LessType DEF TurnComes
      <3>3. Waits(d, Op(d)) /\ wait[d] = 1 /\ Turn(d, Op(d))
        BY <2>2, <3>2 DEF Waits, InOrder
      <3>4. since[Op(d)] + 1 >= limit[Op(d)]
        BY <2>3, <3>3 DEF Turn
      <3>5. ASSUME NEW e \in InFlight \ {d}, Op(e) = Op(d), TurnComes(e) PROVE FALSE
        <4>1. e \in Deliveries /\ Waits(e, Op(d)) /\ wait[e] = 1
          BY <3>2, <3>5 DEF InFlight, Waits
        <4>2. wait[d] + limit[Op(d)] <= wait[e]
          BY <2>2, <3>3, <3>5, <4>1 DEF InOrder, TurnsApart
        <4> QED
          BY <2>3, <3>3, <4>1, <4>2 DEF TurnComes
      <3> QED
        BY <3>3, <3>4, <3>5 DEF Waits
    <2>5. CASE Quiet
      BY <2>2, <2>3, <2>5 DEF Quiet, TurnComes, Settled
    <2>6. CASE Stop
      BY <2>6 DEF Stop, TurnComes
    <2>7. ASSUME NEW r \in Deliveries, Reserve(r) PROVE Spaced(d)
      <3>1. \A e \in Deliveries \ {r} : pc'[e] = pc[e] /\ wait'[e] = wait[e]
        BY <2>7 DEF Reserve, Types
      <3>2. \A e \in Deliveries \ {r} : ~TurnComes(e)
        BY <2>3, <3>1 DEF TurnComes
      <3>3. d = r
        BY <3>2
      <3>4. pc[d] = "step" /\ wait'[d] = debt[Op(d)] /\ wait'[d] = 0
        BY <2>7, <3>3 DEF Reserve, TurnComes, Types
      <3>5. since[Op(d)] >= limit[Op(d)]
        BY <2>2, <2>3, <3>4 DEF InOrder, Tokens
      <3> QED
        BY <2>3, <3>2, <3>3, <3>4, <3>5 DEF InFlight
    <2> QED
      BY <2>4, <2>5, <2>6, <2>7, MostStepsAreQuiet
  <1>2. [][\A d \in InFlight : Called(d) /\ TurnComes(d) => Spaced(d)]_vars => TurnsAreSpaced
    BY DEF TurnsAreSpaced
  <1> QED
    BY <1>1, <1>2, AlwaysInOrder, PTL DEF Spec, SafeSpec

\* The runs before d in the queue of its operation.
Before(d) == {e \in Deliveries \ {d} : pc[e] = "waiting" /\ Op(e) = Op(d) /\ wait[e] < wait[d]}

\* They are finitely many.
LEMMA BeforeFinite ==
  ASSUME NEW d
  PROVE  IsFiniteSet(Before(d)) /\ Cardinality(Before(d)) \in Nat
  <1>1. IsFiniteSet(Deliveries)
    <2>1. 1 \in Int /\ MaxDeliveries \in Int
      BY BoundsAssumption
    <2> QED
      BY <2>1, FS_Interval DEF Deliveries
  <1>2. Before(d) \subseteq Deliveries
    BY DEF Before
  <1>3. IsFiniteSet(Before(d))
    BY <1>1, <1>2, FS_Subset
  <1> QED
    BY <1>3, FS_CardinalityType

\* Whoever is before one that is before d is before d, and is not that one.
LEMMA BeforeGrows ==
  ASSUME Types, NEW d \in Deliveries, NEW e \in Before(d)
  PROVE  Cardinality(Before(e)) + 1 <= Cardinality(Before(d))
  <1>1. Before(e) \cup {e} \subseteq Before(d)
    <2>1. e \in Deliveries /\ wait[e] < wait[d] /\ Op(e) = Op(d)
      BY DEF Before
    <2>2. \A g \in Deliveries : wait[g] \in Nat
      BY DEF Types
    <2>3. ASSUME NEW g \in Before(e) PROVE g \in Before(d)
      <3>1. g \in Deliveries /\ pc[g] = "waiting" /\ Op(g) = Op(e) /\ wait[g] < wait[e]
        BY DEF Before
      <3>2. wait[g] < wait[d]
        BY <2>1, <2>2, <3>1
      <3> QED
        BY <2>1, <2>2, <3>1, <3>2 DEF Before
    <2> QED
      BY <2>3
  <1>2. e \notin Before(e)
    BY DEF Before
  <1>3. /\ IsFiniteSet(Before(e)) /\ Cardinality(Before(e)) \in Nat
        /\ IsFiniteSet(Before(d)) /\ Cardinality(Before(d)) \in Nat
    BY BeforeFinite
  <1>4. /\ IsFiniteSet(Before(e) \cup {e})
        /\ Cardinality(Before(e) \cup {e}) = Cardinality(Before(e)) + 1
    BY <1>2, <1>3, FS_AddElement
  <1>5. Cardinality(Before(e) \cup {e}) <= Cardinality(Before(d))
    BY <1>1, <1>3, FS_Subset
  <1> QED
    BY <1>4, <1>5

\* Somebody at the k-th place has at most k intervals to wait, the next one at
\* most one more.
LEMMA OneMoreInterval ==
  ASSUME NEW L \in Nat, NEW b \in Nat, NEW c \in Nat, b + 1 <= c, NEW w \in Nat, w <= L * (b + 1)
  PROVE  w + L <= L * (c + 1)
  <1>1. PICK k \in Nat : c + 1 = (b + 1) + (1 + k)
    <2>1. c - (b + 1) \in Nat /\ c + 1 = (b + 1) + (1 + (c - (b + 1)))
      OBVIOUS
    <2> QED
      BY <2>1
  <1>2. L * (c + 1) = L * (b + 1) + L * (1 + k)
    BY <1>1
  <1>3. L * (1 + k) = L + L * k /\ L * k \in Nat /\ L * (b + 1) \in Nat
    OBVIOUS
  <1> QED
    BY <1>2, <1>3

\* A deadline that passes leaves no gap: whoever is first in the queue waits one
\* interval at most, and everybody else one more than the run before.
THEOREM QueuesHaveNoGaps == Spec => []NoTurnWasted
  <1> DEFINE InTime(d) == wait[d] <= limit[Op(d)] * (Cardinality(Before(d)) + 1)
             late == {d \in Deliveries : pc[d] = "waiting" /\ ~InTime(d)}
  <1>1. QueueInv => NoTurnWasted
    <2> SUFFICES ASSUME Types, HandlersProgress, Queues, late # {} PROVE FALSE
      BY DEF QueueInv, NoTurnWasted, Before
    <2>1. \A d \in Deliveries : wait[d] \in Nat
      BY DEF Types
    <2> DEFINE waits == {wait[d] : d \in late}
    <2>2. waits \in SUBSET Nat /\ waits # {}
      BY <2>1
    <2>3. PICK w \in waits : \A x \in waits : w <= x
      BY <2>2, LeastElement
    <2>4. PICK d \in late : w = wait[d]
      BY <2>3
    <2>5. pc[d] = "waiting" /\ ~InTime(d) /\ d \in Deliveries
      BY <2>4
    <2>6. Op(d) \in Ops /\ limit[Op(d)] \in Nat
      BY <2>5, CallerType, NumbersOf
    <2>7. Turn(d, Op(d))
      BY <2>5, <2>6 DEF Queues, InOrder, Waits
    <2>8. Cardinality(Before(d)) \in Nat
      BY BeforeFinite
    <2>9. wait[d] > limit[Op(d)]
      <3>1. limit[Op(d)] + 0 <= limit[Op(d)] * (Cardinality(Before(d)) + 1)
        <4>1. limit[Op(d)] * (Cardinality(Before(d)) + 1)
                = limit[Op(d)] * Cardinality(Before(d)) + limit[Op(d)]
          BY <2>6, <2>8
        <4>2. limit[Op(d)] * Cardinality(Before(d)) \in Nat
          BY <2>6, <2>8
        <4> QED
          BY <2>6, <4>1, <4>2
      <3>2. limit[Op(d)] * (Cardinality(Before(d)) + 1) \in Nat
        BY <2>6, <2>8
      <3> QED
        BY <2>1, <2>5, <2>6, <3>1, <3>2
    <2>10. PICK e \in Deliveries : Waits(e, Op(d)) /\ wait[e] + limit[Op(d)] = wait[d]
      BY <2>7, <2>9 DEF Turn
    <2>11. wait[e] < wait[d]
      <3>1. limit[Op(d)] # 0
        BY <2>1, <2>5, <2>7, <2>9 DEF Turn
      <3> QED
        BY <2>1, <2>5, <2>6, <2>10, <3>1
    <2>12. e \in Before(d) /\ Op(e) = Op(d) /\ pc[e] = "waiting"
      BY <2>1, <2>5, <2>10, <2>11 DEF Waits, Before
    <2>13. InTime(e)
      <3>1. e \in late => wait[d] <= wait[e]
        BY <2>3, <2>4
      <3> QED
        BY <2>1, <2>5, <2>11, <2>12, <3>1
    <2>14. Cardinality(Before(e)) \in Nat /\ Cardinality(Before(e)) + 1 <= Cardinality(Before(d))
      BY <2>5, <2>12, BeforeFinite, BeforeGrows
    <2>15. InTime(d)
      BY <2>1, <2>6, <2>8, <2>10, <2>12, <2>13, <2>14, OneMoreInterval
    <2> QED
      BY <2>5, <2>15
  <1> QED
    BY <1>1, AlwaysInOrder, PTL DEF Spec, SafeSpec
================================================================================
