---------------------------- MODULE ContextTools ----------------------------
(***************************************************************************)
(* The tools of the MCP server that answer questions about a repository:   *)
(* get_related_context, propose_change (an envelope over it),              *)
(* get_dependencies and get_owners.  Each call discovers the repository    *)
(* afresh and answers from the model; an agent acts on the answer, so it   *)
(* must neither leave out what is there nor claim what is not.             *)
(***************************************************************************)
EXTENDS ContextWalk

CONSTANTS
  Calls,    \* the calls
  Ignored,  \* stop words, and words of less than three letters
  Occurs    \* the names each word of a query occurs in

ASSUME CallsAssumption ==
  \A r \in Calls :
    CASE r.tool \in {"get_related_context", "propose_change"} -> Range(r.query) \subseteq Ignored \cup DOMAIN Occurs
      [] r.tool = "get_dependencies" -> r.id \in Ids \cup {None}
      [] r.tool = "get_owners" -> Range(r.paths) \subseteq Paths

VARIABLES
  call,     \* the call
  answer    \* the answer, once there is one

toolVars == <<discoveryVars, call, answer, walkVars>>

\* A slip: the service, but nothing behind it.
MaxDepth_Short == 2

MaxDepth == 3

Error == [is |-> "error"]

AboutContext == call.tool \in {"get_related_context", "propose_change"}

InitTool ==
  /\ InitDiscovery
  /\ call \in Calls
  /\ answer = None
  /\ InitWalk(MaxDepth)

\* An empty query, no id or no paths.
IsBlank ==
  CASE AboutContext -> call.query = <<>>
    [] call.tool = "get_dependencies" -> call.id = None
    [] call.tool = "get_owners" -> call.paths = <<>>

RefuseBlank ==
  /\ stage = "resolve" /\ answer = None
  /\ IsBlank
  /\ answer' = Error
  /\ UNCHANGED <<discoveryVars, call, walkVars>>

\* get_owners needs no model: every path is looked up, there or not.
AnswerOwners ==
  /\ stage = "resolve" /\ answer = None
  /\ ~IsBlank
  /\ call.tool = "get_owners"
  /\ answer' = [is |-> "owners", result |-> [k \in DOMAIN call.paths |-> Owners(call.paths[k])]]
  /\ UNCHANGED <<discoveryVars, call, walkVars>>

\* loadModel
LoadModel ==
  /\ answer = None
  /\ ~IsBlank
  /\ call.tool # "get_owners"
  /\ Discover
  /\ UNCHANGED <<call, answer, walkVars>>

AnswerNoModel ==
  /\ stage = "failed" /\ answer = None
  /\ answer' = Error
  /\ UNCHANGED <<discoveryVars, call, walkVars>>

-----------------------------------------------------------------------------
(* get_related_context and propose_change                                  *)

\* The names that make up an entity's name and attributes.
TextOf(id) ==
  CASE id[1] = "file" -> Range(id[2])
    [] id[1] = "workflow" -> {id[2]} \cup Range(entities[id])
    [] id[1] = "operation" ->
         {id[2]} \cup Range(entities[id])
         \cup {o.name : o \in {p \in repo.specs[entities[id]] : OperationId(p) = id}}
    [] id[1] \in {"service", "owner"} -> {id[2]}

Terms == Range(call.query) \ Ignored

EntityMatches(id) == \E t \in Terms : TextOf(id) \cap Occurs[t] # {}

Matched == {id \in DOMAIN entities : EntityMatches(id)}

\* What matches, in some fixed order, is where the walk starts.  With nothing to
\* start from there is no walk.
Match ==
  /\ stage = "discovered"
  /\ AboutContext
  /\ seeds' = SetToSeq(Matched)
  /\ frontier' = seeds'
  /\ at' = IF Matched = {} THEN "done" ELSE "level"
  /\ stage' = "match"
  /\ UNCHANGED <<repo, services, svc, entry, file, entities, relations, notes, call, answer,
                 maxDepth, depth, pos, edge, next, paths>>

ReachContext ==
  /\ stage = "match"
  /\ Walk!Walk
  /\ UNCHANGED <<discoveryVars, call, answer>>

OfKind(ids, kind) == {id \in ids : id[1] = kind}

Explanations == UNION {Range(paths[id]) : id \in Known}

Considerations ==
  (IF Matched = {} THEN {<<"greenfield">>} ELSE {})
  \cup (IF Matched # {} /\ OfKind(Known, "workflow") = {} THEN {<<"unverified">>} ELSE {})
  \cup OfKind(Known, "service")

\* What was reached, apart from what matched.
AnswerContext ==
  /\ stage = "match" /\ at = "done" /\ answer = None
  /\ answer' =
       [is             |-> "context",
        matched        |-> Matched,
        related        |-> Known \ OfKind(Known, "owner"),
        owners         |-> OfKind(Known, "owner"),
        workflows      |-> OfKind(Known, "workflow"),
        explanations   |-> Explanations,
        notes          |-> notes,
        considerations |-> IF call.tool = "propose_change" THEN Considerations ELSE {}]
  /\ UNCHANGED <<discoveryVars, call, walkVars>>

-----------------------------------------------------------------------------
(* get_dependencies                                                        *)

\* model.Related
RelatedBy(id, kind) ==
  {r.to : r \in {q \in Range(relations) : q.from = id /\ q.kind = kind}} \cap DOMAIN entities

\* A slip: every relation that ends there counts.
ConsumersOf_AnyKind(id) ==
  {r.from : r \in {q \in Range(relations) : q.to = id}} \cap DOMAIN entities

\* The relations that end there, found by scanning all of them.
ConsumersOf(id) ==
  {r.from : r \in {q \in Range(relations) : q.to = id /\ q.kind = "depends_on"}} \cap DOMAIN entities

AnswerDependencies ==
  /\ stage = "discovered" /\ answer = None
  /\ call.tool = "get_dependencies"
  /\ answer' =
       IF call.id \notin DOMAIN entities THEN Error
       ELSE [is         |-> "dependencies",
             dependsOn  |-> RelatedBy(call.id, "depends_on"),
             consumedBy |-> ConsumersOf(call.id),
             exposes    |-> RelatedBy(call.id, "exposes"),
             notes      |-> notes]
  /\ UNCHANGED <<discoveryVars, call, walkVars>>

Returned == answer # None /\ UNCHANGED toolVars

NextTool ==
  \/ RefuseBlank \/ AnswerOwners \/ LoadModel \/ AnswerNoModel
  \/ Match \/ ReachContext \/ AnswerContext \/ AnswerDependencies \/ Returned

ToolSpec == InitTool /\ [][NextTool]_toolVars

-----------------------------------------------------------------------------
(* Correctness                                                             *)

Answered(kind) == answer # None /\ answer.is = kind

\* The ids at most three of these relations away.
Within3(rels, ids) ==
  LET near[n \in 0 .. 3] ==
        IF n = 0 THEN ids ELSE near[n - 1] \cup {r.to : r \in {q \in rels : q.from \in near[n - 1]}}
  IN near[3]

\* What an agent is told exists is what the query touches: the entities that
\* match and those at most three relations away from one, none left out, none
\* twice; and the explanations alone lead from the matches to all of them
\* (context_tools.go:87: "Nothing is returned that is not backed by a file in the
\* repo").
ContextIsExact ==
  Answered("context") =>
    LET told == answer.matched \cup answer.related \cup answer.owners
    IN /\ told = Within3(Range(relations), answer.matched) \cap DOMAIN entities
       /\ answer.matched \cap (answer.related \cup answer.owners) = {}
       /\ answer.explanations \subseteq Range(relations)
       /\ told \subseteq Within3(answer.explanations, answer.matched)

DeclaredServices == Range(services)

\* Dependencies are told the way the manifest declares them, from both ends: of
\* a service those of its declared dependencies that exist, and as its consumers
\* exactly the services that declare it; what it exposes is what its spec holds.
DependenciesAreDeclared ==
  Answered("dependencies") =>
    LET id   == call.id
        mine == {s \in DeclaredServices : ServiceId(s.name) = id}
    IN /\ answer.dependsOn =
            {ServiceId(t.name) : t \in {u \in DeclaredServices : \E s \in mine : u.name \in Range(s.deps)}}
       /\ answer.consumedBy =
            {ServiceId(t.name) : t \in {u \in DeclaredServices : \E s \in mine : s.name \in Range(u.deps)}}
       /\ answer.exposes = UNION {{OperationId(o) : o \in IF Loads(s) THEN repo.specs[s.spec] ELSE {}} : s \in mine}

-----------------------------------------------------------------------------
(* What a comment says and the code does not do                            *)

\* propose_change.go:21: "RecommendedVerification names existing workflows covering
\* the area."  A workflow the description itself matches is a seed of the walk and
\* never in its result: it is not recommended, and where there is no other one the
\* tool considers that "no existing Kaktoos workflow covers this area".
CoveringWorkflowsAreRecommended ==
  Answered("context") /\ <<"unverified">> \in answer.considerations => OfKind(answer.matched, "workflow") = {}
=============================================================================
