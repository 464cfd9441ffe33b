------------------------------ MODULE Validation ------------------------------
(***************************************************************************)
(* kaktoos validate, and what its verdict is worth: the command checks the *)
(* environment, the spec and every scenario it is given, and collects what *)
(* is wrong; the validate_scenario tool of the MCP server checks that the  *)
(* operations exist; then the engine builds the request of a step of those *)
(* scenarios, filling in one field after the other in the order of Go      *)
(* maps, which is arbitrary.                                               *)
(***************************************************************************)
EXTENDS Templates

CONSTANTS
  Specs,       \* what --openapi may hold
  Commands,    \* the scenarios the command may be given
  Stores,      \* the variables a step may find
  Codes,       \* HTTP status codes
  Operations,  \* operationIds
  NoOperation, \* the operation of a condition step
  Broken       \* does not load, or cannot be read

\* A loaded spec is the paths of its operations, a scenario its steps.  noisy:
\* the step's name contains "not found".
Texts == Seq([is : {"word"}, name : Words] \cup [is : {"ref", "open"}, name : Names]
             \cup [is : {"call"}, name : Functions, args : Seq(Words \cup Names)])

IsStep(s) ==
  /\ DOMAIN s = {"operation", "noisy", "retryOn", "path", "query", "headers", "body"}
  /\ s.operation \in Operations \cup {NoOperation}
  /\ s.noisy \in BOOLEAN /\ s.retryOn \subseteq Codes
  /\ \A part \in {"path", "query", "headers"} :
       DOMAIN s[part] \subseteq Names /\ \A n \in DOMAIN s[part] : s[part][n] \in Texts
  /\ s.body \in Texts

\* The path of an operation, its placeholders among the words.
PathTemplates == Seq([is : {"word"}, name : Words] \cup [is : {"open"}, name : Names])

ASSUME OutcomeAssumption == None \notin {"sent", "refused"}
ASSUME StoresAssumption ==
  \A s \in Stores : DOMAIN s \subseteq Names /\ \A n \in DOMAIN s : s[n] \in Values
ASSUME SpecsAssumption ==
  \A s \in Specs \ {Broken} : \A op \in DOMAIN s : op \in Operations /\ s[op] \in PathTemplates
ASSUME CommandsAssumption ==
  \A c \in Commands :
    /\ Len(c) \in Nat /\ DOMAIN c = 1 .. Len(c)
    /\ \A k \in DOMAIN c : c[k] # Broken =>
         /\ Len(c[k]) \in Nat /\ DOMAIN c[k] = 1 .. Len(c[k])
         /\ \A j \in DOMAIN c[k] : IsStep(c[k][j])

VARIABLES
  env,       \* whether the environment file loads
  spec,      \* the spec, or Broken
  scenarios, \* of --scenario, then of --scenario-inline
  at,        \* where the command, then the step, is
  scn, stp,  \* the scenario and the step looked at
  errors, warnings, \* collected
  exit,      \* the exit code
  store,     \* the variables of the run
  left,      \* the fields of this part of the request not yet filled in
  path,      \* pathTemplate
  outcome    \* of the step: the request was refused or sent

command == <<env, spec, scenarios>>
checked == <<errors, warnings, exit>>
request == <<store, left, path, outcome>>
vars == <<command, at, scn, stp, checked, request>>

-----------------------------------------------------------------------------
(* kaktoos validate                                                        *)

EmptyStore == <<>>

TheStep == scenarios[scn][stp]

\* The fields of a request, by the part they belong to.
Fields(s) ==
  [f \in {<<"body", "">>} \cup ({"path"} \X DOMAIN s.path) \cup ({"query"} \X DOMAIN s.query)
         \cup ({"headers"} \X DOMAIN s.headers) |->
     IF f[1] = "body" THEN s.body ELSE s[f[1]][f[2]]]

\* A slip: only the body is looked at.
TemplatedFields_BodyOnly(s) == {<<"body", "">>}

TemplatedFields(s) == DOMAIN Fields(s)

\* A slip: a missing variable is an error, too.
RejectsField_Missing(s, text) ==
  TemplateError(text, EmptyStore) # None /\ ~s.noisy

\* checkTemplateSyntax: what Resolve finds wrong without any variable, unless
\* the error text, which the step's name is part of, contains "not found".
RejectsField(s, text) ==
  TemplateError(text, EmptyStore) \notin {None, "missing"} /\ ~s.noisy

Init ==
  /\ env \in BOOLEAN
  /\ spec \in Specs
  /\ scenarios \in Commands
  /\ at = "env"
  /\ scn = 1 /\ stp = 1
  /\ errors = {} /\ warnings = {}
  /\ exit = None
  /\ store = EmptyStore /\ left = {} /\ path = <<>> /\ outcome = None

RefuseNoScenario ==
  /\ at = "env"
  /\ scenarios = <<>>
  /\ exit' = 2
  /\ at' = "exited"
  /\ UNCHANGED <<command, scn, stp, errors, warnings, request>>

CheckEnv ==
  /\ at = "env"
  /\ scenarios # <<>>
  /\ errors' = IF env THEN errors ELSE errors \cup {<<"env">>}
  /\ at' = "spec"
  /\ UNCHANGED <<command, scn, stp, warnings, exit, request>>

CheckSpec ==
  /\ at = "spec"
  /\ errors' = IF spec = Broken THEN errors \cup {<<"spec">>} ELSE errors
  /\ at' = "scenario"
  /\ UNCHANGED <<command, scn, stp, warnings, exit, request>>

AtScenario == at = "scenario" /\ scn <= Len(scenarios)

\* A slip: the first scenario that does not load ends the validation.
RejectScenario_Stop ==
  /\ AtScenario
  /\ scenarios[scn] = Broken
  /\ errors' = errors \cup {<<"scenario", scn>>}
  /\ scn' = Len(scenarios) + 1
  /\ UNCHANGED <<command, at, stp, warnings, exit, request>>

RejectScenario ==
  /\ AtScenario
  /\ scenarios[scn] = Broken
  /\ errors' = errors \cup {<<"scenario", scn>>}
  /\ scn' = scn + 1
  /\ UNCHANGED <<command, at, stp, warnings, exit, request>>

\* The errors in the step's fields, and one warning about its retry policy.
CheckStep ==
  /\ AtScenario
  /\ scenarios[scn] # Broken
  /\ stp <= Len(scenarios[scn])
  /\ errors' = errors \cup
       {<<"field", scn, stp, f>> : f \in {g \in TemplatedFields(TheStep) : RejectsField(TheStep, Fields(TheStep)[g])}}
  /\ warnings' = IF \E c \in TheStep.retryOn : c < 500 THEN warnings \cup {<<scn, stp>>} ELSE warnings
  /\ stp' = stp + 1
  /\ UNCHANGED <<command, at, scn, exit, request>>

NextScenario ==
  /\ AtScenario
  /\ scenarios[scn] # Broken
  /\ stp > Len(scenarios[scn])
  /\ scn' = scn + 1
  /\ stp' = 1
  /\ UNCHANGED <<command, at, checked, request>>

Exit ==
  /\ at = "scenario"
  /\ scn > Len(scenarios)
  /\ exit' = IF errors = {} THEN 0 ELSE 2
  /\ at' = "exited"
  /\ UNCHANGED <<command, scn, stp, errors, warnings, request>>

Validate ==
  RefuseNoScenario \/ CheckEnv \/ CheckSpec \/ RejectScenario \/ CheckStep \/ NextScenario \/ Exit

\* The validate_scenario tool, given the spec: the steps whose operation does
\* not exist.
Unresolved(scenario) ==
  {k \in DOMAIN scenario : scenario[k].operation \notin {NoOperation} \cup DOMAIN spec}

-----------------------------------------------------------------------------
(* executeSingleStep, up to the request                                    *)

FieldsOf(part) == {f \in DOMAIN Fields(TheStep) : f[1] = part}

\* Whatever validate said, the engine may come to a step of a scenario that
\* loads, with some variables in its store.
StartStep ==
  /\ at = "exited"
  /\ env /\ spec # Broken
  /\ \E i \in DOMAIN scenarios :
       /\ scenarios[i] # Broken
       /\ \E k \in DOMAIN scenarios[i] :
            /\ scenarios[i][k].operation # NoOperation
            /\ scn' = i /\ stp' = k
  /\ store' \in Stores
  /\ at' = "operation"
  /\ UNCHANGED <<command, checked, left, path, outcome>>

Refuse ==
  /\ at' = "returned"
  /\ outcome' = "refused"
  /\ UNCHANGED <<command, scn, stp, checked, store, left, path>>

RefuseOperation == at = "operation" /\ TheStep.operation \notin DOMAIN spec /\ Refuse

FindOperation ==
  /\ at = "operation"
  /\ TheStep.operation \in DOMAIN spec
  /\ path' = spec[TheStep.operation]
  /\ left' = FieldsOf("path")
  /\ at' = "path"
  /\ UNCHANGED <<command, scn, stp, checked, store, outcome>>

Parts == {"path", "query", "headers", "body"}

RefuseField ==
  /\ at \in Parts
  /\ \E f \in left : ResolveError(Fields(TheStep)[f], store) # None
  /\ Refuse

\* strings.ReplaceAll over what the path has become so far.
FillPath(n, text) == Replaced(path, "open", LAMBDA p : IF p.name = n THEN text ELSE <<p>>)

ResolveField ==
  /\ at \in Parts
  /\ \E f \in left :
       /\ ResolveError(Fields(TheStep)[f], store) = None
       /\ left' = left \ {f}
       /\ path' = IF at = "path" THEN FillPath(f[2], Resolved(Fields(TheStep)[f], store)) ELSE path
  /\ UNCHANGED <<command, at, scn, stp, checked, store, outcome>>

NextPart ==
  /\ at \in Parts
  /\ left = {}
  /\ at' = CASE at = "path" -> "query" [] at = "query" -> "headers"
             [] at = "headers" -> "body" [] at = "body" -> "build"
  /\ left' = IF at' = "build" THEN {} ELSE FieldsOf(at')
  /\ UNCHANGED <<command, scn, stp, checked, store, path, outcome>>

\* A slip: no placeholder is looked for.
HasBrace_Unchecked(text) == FALSE

HasBrace(text) == \E k \in DOMAIN text : text[k].is # "word"

\* BuildRequest refuses a path with a brace in it.
RefusePath == at = "build" /\ HasBrace(path) /\ Refuse

Send ==
  /\ at = "build"
  /\ ~HasBrace(path)
  /\ at' = "returned"
  /\ outcome' = "sent"
  /\ UNCHANGED <<command, scn, stp, checked, store, left, path>>

ExecuteStep ==
  RefuseOperation \/ FindOperation \/ RefuseField \/ ResolveField \/ NextPart \/ RefusePath \/ Send

Returned == at \in {"exited", "returned"} /\ UNCHANGED vars

Next == Validate \/ StartStep \/ ExecuteStep \/ Returned

Spec == Init /\ [][Next]_vars

-----------------------------------------------------------------------------
(* Correctness                                                             *)

CallsIn(text) == {k \in DOMAIN text : text[k].is = "call"}

AllFields == Range(Fields(TheStep))

\* Whether validate found fault with a field of the step being executed.
Rejected == \E f \in DOMAIN Fields(TheStep) : <<"field", scn, stp, f>> \in errors

\* The inputs that do not load.
Faults ==
  {<<"env">> : x \in {env} \ {TRUE}} \cup {<<"spec">> : x \in {spec} \cap {Broken}}
  \cup {<<"scenario", i>> : i \in {j \in DOMAIN scenarios : scenarios[j] = Broken}}

\* The command stops at nothing (validate.go:55: "collecting all errors and
\* warnings rather than stopping at the first failure"): whatever else is wrong,
\* each input that does not load is reported, no other is, and one of several
\* faults anywhere is enough for it not to exit 0.
EveryFaultIsReported ==
  at = "exited" /\ scenarios # <<>> =>
    /\ {e \in errors : e[1] # "field"} = Faults
    /\ exit = 0 =>
         \A i \in DOMAIN scenarios : \A k \in DOMAIN scenarios[i] : \A f \in DOMAIN Fields(scenarios[i][k]) :
           ~RejectsField(scenarios[i][k], Fields(scenarios[i][k])[f])

\* The names a token of the text takes a value from.
Mentioned(text) ==
  {text[k].name : k \in {j \in DOMAIN text : text[j].is = "ref"}} \cup
  {text[k].args[1] : k \in {j \in DOMAIN text : text[j].is = "call" /\ text[j].args # <<>>}}

Plain(text) == \A k \in DOMAIN text : text[k].is = "word"

\* Everything the step needs is there: its variables, with no braces in them,
\* and a value for every placeholder.
Provided ==
  /\ \A text \in AllFields : \A n \in Mentioned(text) : n \in DOMAIN store /\ Plain(store[n])
  /\ \A k \in DOMAIN spec[TheStep.operation] :
       LET p == spec[TheStep.operation][k] IN p.is = "open" => p.name \in DOMAIN TheStep.path

\* Where the "not found" of another error, or of the step's name, may hide one.
MayHide == TheStep.noisy \/ \E text \in AllFields : \E j, k \in CallsIn(text) : j # k

\* A value of a path parameter that holds a placeholder itself, which validate
\* does not look for.
SpellsPlaceholder ==
  \E n \in DOMAIN TheStep.path : \E k \in DOMAIN TheStep.path[n] : TheStep.path[n][k].is = "open"

\* What validate and validate_scenario accept can be sent: a step is refused
\* only for what neither can know (its variables and the values in them), for an
\* error that was hidden, or for a brace in its own path parameters.
AcceptedStepsAreSent ==
  outcome = "refused" /\ ~Rejected /\ stp \notin Unresolved(scenarios[scn])
  /\ ~MayHide /\ ~SpellsPlaceholder => ~Provided

CallsAddDays == \E text \in AllFields : \E k \in CallsIn(text) : text[k].name = "addDays"

\* And what validate rejects can never be sent, whatever the variables are;
\* except for addDays, which it rejects for want of a date.
RejectedStepsAreNeverSent == outcome = "sent" /\ Rejected => CallsAddDays

\* The text a path is expected to become: every placeholder replaced by what the
\* step gives for it.
Expected ==
  Replaced(spec[TheStep.operation], "open", LAMBDA p : Resolved(TheStep.path[p.name], store))

\* No request is sent with a placeholder left open.  The placeholders are filled
\* in in the order of a Go map, each over the result of the last: where no value
\* spells a placeholder, the path is what the step says it is in every order.
PathsAreFilledIn ==
  outcome = "sent" =>
    /\ Plain(path)
    /\ (\A n \in DOMAIN TheStep.path : Plain(Resolved(TheStep.path[n], store))) => path = Expected
=============================================================================
