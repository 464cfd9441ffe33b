-------------------------------- MODULE Impact --------------------------------
(***************************************************************************)
(* kaktoos impact and the analyze_change and get_verification_plan tools   *)
(* of the MCP server: a change is read from git, the model is built from   *)
(* the repository, the walk of Reachable.tla starts at every changed file, *)
(* and what it reaches is reported: potential impact, owners, and the      *)
(* existing scenarios that verify it, which --verify runs.  Everything     *)
(* runs in sequence; what makes it hard is that a scenario is planned only *)
(* if four layers of lookups, each of which may silently find nothing,     *)
(* agree, and that one exit code speaks for all of them.                   *)
(***************************************************************************)
EXTENDS ContextWalk

CONSTANTS
  Requests, \* command lines and calls of the tools
  Changes   \* what git reports of each source: sequences of name-status lines

\* prev is the first path of a line, path the last one; they differ for
\* renames and copies.
Lines == [status : {"A", "M", "D", "R", "C"}, prev : Paths, path : Paths]

Selectors == {"commit", "base", "head", "pr"}

\* Whether it names one change or a range of them; none is the working tree.
Sources == {"working tree", "commit", "range", "pull request"}

\* The selectors that are not empty (a pr that is not 0), and the flags only the
\* command has; environment is whether the file given loads.
ASSUME RequestsAssumption ==
  Requests \subseteq
    [surface : {"command", "tool"}, given : SUBSET Selectors, format : {"text", "json", "yaml"},
     verify : BOOLEAN, openapi : Paths \cup {None}, environment : BOOLEAN \cup {None}]

ASSUME ChangesAssumption == Changes \in [Sources -> SUBSET Seq(Lines)]

ASSUME ExitAssumption == None \notin 0 .. 2 /\ None \notin Sources

VARIABLES
  request,
  source,  \* the change source, None until it is chosen
  change,  \* the change, None until it is read
  toRun,   \* the planned scenarios --verify has loaded, None before that
  results, \* whether each one that was run has passed
  exit     \* the exit code, or what a tool returns; None until then

vars == <<discoveryVars, request, source, change, walkVars, toRun, results, exit>>

\* A slip: a bound that is too small for a dependency, or too large.
DefaultMaxDepth_Short == 3
DefaultMaxDepth_Long == 5

DefaultMaxDepth == 4

-----------------------------------------------------------------------------
(* The request and the change it names                                     *)

IsCommand == request.surface = "command"

Init ==
  /\ InitDiscovery
  /\ request \in Requests
  /\ source = None
  /\ change = None
  /\ InitWalk(DefaultMaxDepth)
  /\ toRun = None
  /\ results = <<>>
  /\ exit = None

Return(code) ==
  /\ exit' = code
  /\ UNCHANGED <<discoveryVars, request, source, change, walkVars, toRun, results>>

\* impactSource: the command has checked that base and head come together.
CommandRefuses(r) ==
  \/ r.format \notin {"text", "json"}
  \/ ("base" \in r.given) # ("head" \in r.given)
  \/ Cardinality({"commit", "base", "pr"} \cap r.given) > 1

\* A slip: a head without a base is passed over.
ToolRefuses_BaseOnly(r) ==
  \/ Cardinality({"commit", "base", "pr"} \cap r.given) > 1
  \/ "base" \in r.given /\ "head" \notin r.given

\* changeSource: base and head count as one selector.
ToolRefuses(r) ==
  \/ Cardinality({"commit", "pr"} \cap r.given) + (IF {"base", "head"} \cap r.given = {} THEN 0 ELSE 1) > 1
  \/ Cardinality({"base", "head"} \cap r.given) = 1

Refuses(r) == IF r.surface = "command" THEN CommandRefuses(r) ELSE ToolRefuses(r)

SourceOf(r) ==
  CASE "commit" \in r.given -> "commit"
    [] "base" \in r.given   -> "range"
    [] "pr" \in r.given     -> "pull request"
    [] OTHER                -> "working tree"

RejectRequest ==
  /\ source = None /\ exit = None
  /\ Refuses(request)
  /\ Return(IF IsCommand THEN 2 ELSE "error")

ChooseSource ==
  /\ source = None
  /\ ~Refuses(request)
  /\ source' = SourceOf(request)
  /\ UNCHANGED <<discoveryVars, request, change, walkVars, toRun, results, exit>>

\* parseNameStatus: of a renamed file the new path, of any other the first one.
ChangedPath(line) == IF line.status = "R" THEN line.path ELSE line.prev

ReadChange ==
  /\ source # None /\ change = None /\ exit = None
  /\ change' \in Changes[source]
  /\ UNCHANGED <<discoveryVars, request, source, walkVars, toRun, results, exit>>

\* A tool that is missing is told apart from one that fails: 2 and 1.
FailToReadChange ==
  /\ source # None /\ change = None /\ exit = None
  /\ \E code \in IF IsCommand THEN {1, 2} ELSE {"error"} : Return(code)

-----------------------------------------------------------------------------
(* The analysis                                                            *)

BuildModel ==
  /\ change # None
  /\ Discover
  /\ UNCHANGED <<request, source, change, walkVars, toRun, results, exit>>

NoModel == stage = "failed" /\ exit = None /\ Return(IF IsCommand THEN 2 ELSE "error")

\* AnalyzeAtDepth: every changed file is a seed, known to the model or not.
Analyze ==
  /\ stage = "discovered"
  /\ stage' = "analyze"
  /\ seeds' = [k \in DOMAIN change |-> FileId(ChangedPath(change[k]))]
  /\ frontier' = seeds'
  /\ at' = "level"
  /\ UNCHANGED <<repo, services, svc, entry, file, entities, relations, notes, request, source, change,
                 maxDepth, depth, pos, edge, next, paths, toRun, results, exit>>

Reach ==
  /\ stage = "analyze"
  /\ Walk!Walk
  /\ UNCHANGED <<discoveryVars, request, source, change, toRun, results, exit>>

Done == at = "done"

\* Owners are reported apart from what is potentially affected.
Potential == {id \in Known : id[1] # "owner"}

ReportedOwners == {id \in Known : id[1] = "owner"}

\* ownedFile: the file the owner's path starts at, one for each owner.
OwnedFile(owner) == paths[owner][1].from

Planned == {id \in Known : id[1] = "workflow"}

\* The file of a planned workflow.
PlannedFile(wf) == entities[wf]

-----------------------------------------------------------------------------
(* The answer, and --verify                                                *)

Reported == Done /\ exit = None /\ toRun = None

Answer == Reported /\ ~IsCommand /\ Return("answer")

\* Without --verify, or with nothing to verify.
PrintOnly == Reported /\ IsCommand /\ (request.verify => Planned = {}) /\ Return(0)

Verifies == Reported /\ IsCommand /\ request.verify /\ Planned # {}

FilesMissing == request.openapi = None \/ request.environment = None

RefuseToVerify == Verifies /\ FilesMissing /\ Return(2)

FilesLoad == request.environment = TRUE /\ request.openapi \in DOMAIN repo.specs

\* The environment, the spec, or a scenario that is gone since it was discovered.
FailToLoad == Verifies /\ ~FilesMissing /\ Return(1)

\* All of them before the first is run, in the order of their names.
LoadPlan ==
  /\ Verifies
  /\ ~FilesMissing /\ FilesLoad
  /\ toRun' = LET wfs == SetToSeq(Planned) IN [k \in DOMAIN wfs |-> PlannedFile(wfs[k])]
  /\ UNCHANGED <<discoveryVars, request, source, change, walkVars, results, exit>>

ScenarioFiles == UNION {Range(repo.scenarios[d]) : d \in DOMAIN repo.scenarios}

\* The scenario in the file.
Contents(f) == (CHOOSE e \in ScenarioFiles : e.file = f).scenario

DeclaredNames == {o.name : o \in repo.specs[request.openapi]}

\* RunScenario, a context of its own each time: a step whose operation the spec
\* does not declare fails; anything else is up to the target.
MayPass(scenario) == Range(scenario.steps) \ {NoName} \subseteq DeclaredNames

RunPlanned ==
  /\ toRun # None /\ exit = None
  /\ Len(results) < Len(toRun)
  /\ \E passed \in BOOLEAN :
       /\ passed => MayPass(Contents(toRun[Len(results) + 1]))
       /\ results' = Append(results, passed)
  /\ UNCHANGED <<discoveryVars, request, source, change, walkVars, toRun, exit>>

\* A slip: the last scenario decides.
VerifyExit_LastResult == IF Last(results) THEN 0 ELSE 1

\* reporter.ExitCode
VerifyExit == IF FALSE \in Range(results) THEN 1 ELSE 0

ReportResults ==
  /\ toRun # None /\ exit = None
  /\ Len(results) = Len(toRun)
  /\ Return(VerifyExit)

Exited == exit # None /\ UNCHANGED vars

Next ==
  \/ RejectRequest \/ ChooseSource \/ ReadChange \/ FailToReadChange
  \/ BuildModel \/ NoModel \/ Analyze \/ Reach
  \/ Answer \/ PrintOnly \/ RefuseToVerify \/ FailToLoad \/ LoadPlan
  \/ RunPlanned \/ ReportResults \/ Exited

Spec == Init /\ [][Next]_vars

-----------------------------------------------------------------------------
(* Correctness                                                             *)

Complete == stage \in {"discovered", "analyze"}

Related(from, to, kind) ==
  \E k \in DOMAIN relations :
    relations[k].from = from /\ relations[k].to = to /\ relations[k].kind = kind

Noted(place, problem) == Note(place, problem) \in notes

\* The rule for a file that no later rule overrides.
RulesFor(p) ==
  {k \in DOMAIN OwnerRules :
     /\ Applies(OwnerRules[k], p)
     /\ \A j \in DOMAIN OwnerRules : j > k => ~Applies(OwnerRules[j], p)}

OwnersOf(p) == UNION {Range(OwnerRules[k].owners) : k \in RulesFor(p)}

\* Everything the services name is in the model or there is a note that it is
\* not: specs, scenario directories, scenario files and the operations of their
\* steps (discovery.go: "callers can explain why something is missing instead
\* of silently omitting it").  So is every file of a service, and every owner of
\* a file, as far as the walk comes and by the CODEOWNERS that is read: of what
\* lies behind a directory that cannot be listed, and of a CODEOWNERS that is
\* passed over, the code says nothing.
NothingSilentlyOmitted ==
  Complete =>
    /\ \A s \in Range(services) :
      /\ s.spec # None =>
           \/ Noted(s.spec, "spec")
           \/ /\ Loads(s)
              /\ \A o \in repo.specs[s.spec] : Related(ServiceId(s.name), OperationId(o), "exposes")
      /\ s.dir # None => Noted(s.dir, "directory") \/ Readable(s)
      /\ \A f \in Range(Files(s)) :
           \/ Noted(f.file, "scenario")
           \/ /\ f.scenario # Invalid
              /\ Related(ServiceId(s.name), WorkflowId(f.scenario.name), "verified_by")
              /\ Loads(s) => \A name \in Range(f.scenario.steps) :
                   \/ Noted(f.file, name)
                   \/ \E o \in repo.specs[s.spec] :
                        /\ o.name = name
                        /\ Related(OperationId(o), WorkflowId(f.scenario.name), "verified_by")
    /\ \A p \in Range(Walked) :
      /\ ServiceOf(p) # 0 => Related(FileId(p), ServiceId(services[ServiceOf(p)].name), "contains")
      /\ \A o \in OwnersOf(p) : Related(FileId(p), OwnerId(o), "owned_by")

Changed == {ChangedPath(change[k]) : k \in DOMAIN change}

\* The services with these names and those they depend on.
WithDependencies(names) ==
  names \cup UNION {Range(s.deps) : s \in {t \in Range(services) : t.name \in names}}

\* The services the changed files belong to, as far as discovery comes to the files.
ChangedServices ==
  {services[ServiceOf(p)].name : p \in {q \in Changed \cap Range(Walked) : ServiceOf(q) # 0}}

\* They and those they depend on over one relation or two.
Near == WithDependencies(WithDependencies(ChangedServices))

WorkflowsOf(s) == {WorkflowId(f.scenario.name) : f \in {g \in Range(Files(s)) : g.scenario # Invalid}}

WorkflowsNear == UNION {WorkflowsOf(s) : s \in {t \in Range(services) : t.name \in Near}}

\* A change to a file that discovery comes to plans every loadable scenario of its
\* service and of the services up to two dependencies away.
ChangedServicesVerified == Done => WorkflowsNear \subseteq Planned

\* No two services share a name, a route or the name of a scenario.
WellSeparated ==
  \A j, k \in DOMAIN services :
    j # k => /\ services[j].name # services[k].name
             /\ WorkflowsOf(services[j]) \cap WorkflowsOf(services[k]) = {}
             /\ Loads(services[j]) /\ Loads(services[k]) =>
                  \A o \in repo.specs[services[j].spec], q \in repo.specs[services[k].spec] :
                    o.route # q.route

\* Where the services are told apart, nothing else is planned: the plan names
\* exactly the scenarios of the services up to two dependencies away.
PlanIsJustified == Done /\ WellSeparated => Planned \subseteq WorkflowsNear

\* The owners reported are exactly those whom the last matching CODEOWNERS rule
\* names for a changed file that is walked; the file given for an owner is a changed
\* one of theirs (impact.go:22: "Owner is a CODEOWNERS owner of one or more
\* changed files"), and no owner is reported as affected (docs/impact.md:
\* "Ownership is reported separately from impact").
OwnersAreExact ==
  Done =>
    /\ ReportedOwners = {OwnerId(o) : o \in UNION {OwnersOf(p) : p \in Changed \cap Range(Walked)}}
    /\ ReportedOwners \cap Potential = {}
    /\ \A id \in ReportedOwners : \E p \in Changed : OwnedFile(id) = FileId(p) /\ id[2] \in OwnersOf(p)

\* Their scenario files that load.
FilesNear ==
  UNION {{f \in Range(Files(s)) : f.scenario # Invalid} : s \in {t \in Range(services) : t.name \in Near}}

Passed == {toRun[k] : k \in {j \in DOMAIN results : results[j]}}

\* A verification that exits with 0 has verified the change: every scenario of the
\* changed services and of those up to two dependencies away was run and passed,
\* though only one of the files that share a scenario's name is; and the one spec
\* of the command line declares the operations of all of them.
GreenVerifyCoversNear ==
  Done /\ IsCommand /\ request.verify /\ exit = 0 =>
    \A f \in FilesNear :
      \E g \in ScenarioFiles :
        /\ g.scenario # Invalid
        /\ g.scenario.name = f.scenario.name
        /\ g.file \in Passed
        /\ Range(g.scenario.steps) \ {NoName} \subseteq DeclaredNames

Selected(src) ==
  CASE src = "working tree" -> {}
    [] src = "commit"       -> {"commit"}
    [] src = "range"        -> {"base", "head"}
    [] src = "pull request" -> {"pr"}

\* The command and the tools accept the same selectors, and what is analyzed is
\* what was asked for: none that was given is passed over
\* (change_tools.go:16: "Exactly one selector may be given; with none, the working
\* tree is analyzed").
NoSelectorIgnored ==
  /\ source # None => request.given = Selected(source)
  /\ request.format # "yaml" => (CommandRefuses(request) <=> ToolRefuses(request))
=============================================================================
