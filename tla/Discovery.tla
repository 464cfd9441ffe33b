------------------------------ MODULE Discovery ------------------------------
(***************************************************************************)
(* internal/discovery: how the engineering context model (entities and the *)
(* relations between them) is built from a repository: its services,       *)
(* declared in kaktoos.yaml or found by convention, their OpenAPI specs    *)
(* and scenarios, and for every file the service it belongs to and its     *)
(* CODEOWNERS.  What cannot be read is left out and noted, except that a   *)
(* CODEOWNERS that cannot be read is passed over, and that a directory     *)
(* that cannot be listed ends the walk over the files.                     *)
(*                                                                         *)
(* A path is the sequence of its names, the repository root the empty one. *)
(***************************************************************************)
EXTENDS Naturals, SequencesExt

CONSTANTS
  Repos,    \* the repositories
  Paths,    \* the paths in them
  Names,    \* of services, scenarios and owners
  Routes,   \* methods and paths of operations
  OpNames,  \* operationIds, and what a step may name as its operation
  NoName,   \* the empty string, one of OpNames
  None,     \* no manifest, no spec, no scenario directory
  Invalid   \* a manifest or a scenario that does not load

Root == <<>>

\* "path/**" if deep, else path itself.
Globs == [path : Paths, deep : BOOLEAN]

Services == [name : Names, globs : Seq(Globs), spec : Paths \cup {None},
             dir : Paths \cup {None}, deps : Seq(Names)]

\* A loaded OperationMap; openapi.Load rejects two operations with one
\* operationId, but an operation need not have one.
Operations == [route : Routes, name : OpNames]

\* A scenario file; the operation of a condition step is NoName.
Entries ==
  [file : Paths, scenario : {Invalid} \cup [name : Names, steps : Seq(OpNames)]]

\* CODEOWNERS patterns: "*", a path with a slash in it, a bare name (wildcards
\* within names are left out).
Patterns ==
  [kind : {"all"}] \cup [kind : {"under"}, path : Paths] \cup [kind : {"bare"}, name : STRING]

\* A line of CODEOWNERS, blank lines and comments aside.
OwnerLines == [pattern : Patterns, owners : Seq(Names)]

\* manifest: the services kaktoos.yaml declares; base: the name of the root;
\* tree, dirs: files and directories in the order of WalkDir, .git and
\* node_modules aside; unreadable: the directories that cannot be listed;
\* reach: how many files come before the first of them; specs: the ones that
\* load; scenarios: the directories that can be read, each with its YAML files;
\* codeowners: what is at each of CodeownersLocations, Invalid if it cannot be
\* read.
ASSUME ReposAssumption ==
  \A r \in Repos :
    /\ r.manifest \in {None, Invalid} \cup Seq(Services)
    /\ r.base \in Names
    /\ r.tree \in Seq(Paths) /\ r.dirs \in Seq(Paths)
    /\ \A d \in Range(r.dirs) : d = Root \/ Last(d) \in Names
    /\ DOMAIN r.specs \subseteq Paths
    /\ \A p \in DOMAIN r.specs :
         /\ r.specs[p] \subseteq Operations /\ IsFiniteSet(r.specs[p])
         /\ \A o, q \in r.specs[p] : o.name = q.name /\ o.name # NoName => o = q
    /\ DOMAIN r.scenarios \subseteq Paths
    /\ \A d \in DOMAIN r.scenarios : r.scenarios[d] \in Seq(Entries)
    /\ \A c, d \in DOMAIN r.scenarios : \A e \in Range(r.scenarios[c]), f \in Range(r.scenarios[d]) :
         e.file = f.file => e = f
    /\ r.unreadable \subseteq Range(r.dirs) \ DOMAIN r.scenarios
    /\ r.reach \in 0 .. Len(r.tree) /\ (r.unreadable = {} => r.reach = Len(r.tree))
    /\ \A k \in 1 .. r.reach, d \in r.unreadable : ~IsPrefix(d, r.tree[k])
    /\ r.codeowners \in Seq({None, Invalid} \cup Seq(OwnerLines))

ASSUME NamesAssumption == NoName \in OpNames

ASSUME NoneAssumption == None \notin Operations

VARIABLES
  repo,
  stage,      \* where Discover is
  services,   \* what resolveServices returned
  svc,        \* the service being added
  entry,      \* the scenario file being added
  file,       \* the file being added
  entities,   \* Model.entities: what is known of an id
  relations,  \* Model.relations
  notes       \* the problems met

discoveryVars == <<repo, stage, services, svc, entry, file, entities, relations, notes>>

-----------------------------------------------------------------------------
(* The engineering context model                                           *)

FileId(path)      == <<"file", path>>
ServiceId(name)   == <<"service", name>>
OperationId(o)    == <<"operation", o.route>>
WorkflowId(name)  == <<"workflow", name>>
OwnerId(name)     == <<"owner", name>>

Ids == ({"file"} \X Paths) \cup ({"operation"} \X Routes)
       \cup ({"service", "workflow", "owner"} \X Names)

\* What a relation's Why is derived from; None is kaktoos.yaml or CODEOWNERS.
Why == Paths \cup {None}

Relations ==
  [from : Ids, to : Ids, why : Why,
   kind : {"contains", "exposes", "verifies", "verified_by", "owned_by", "depends_on"}]

Relation(from, to, kind, why) == [from |-> from, to |-> to, kind |-> kind, why |-> why]

\* Model.Add, of an entity for each of the ids; of its Attrs, the spec or the
\* scenario file it was read from.  An entity added again replaces the earlier one.
Add(ids, source, model) ==
  [id \in ids \cup DOMAIN model |-> IF id \in ids THEN source ELSE model[id]]

-----------------------------------------------------------------------------
(* resolveServices                                                         *)

\* A relative path never starts with "./", so the glob "./**" that convention
\* gives a service at the root covers nothing.
GlobCovers(g, p) ==
  IF g.deep THEN g.path # Root /\ IsPrefix(g.path, p) ELSE p = g.path

Covers(s, p) == \E k \in DOMAIN s.globs : GlobCovers(s.globs[k], p)

SpecFiles(d) == {Append(d, "openapi.yml"), Append(d, "openapi.yaml")} \cap Range(repo.tree)

\* A directory with a spec, below no other one: the walk does not descend.
IsService(d) ==
  /\ SpecFiles(d) # {}
  /\ \A k \in 0 .. Len(d) - 1 : SpecFiles(SubSeq(d, 1, k)) = {}

Conventional(d) ==
  LET dir == Append(d, "scenarios")
  IN [name  |-> IF d = Root THEN repo.base ELSE Last(d),
      globs |-> <<[path |-> d, deep |-> TRUE]>>,
      spec  |-> IF Append(d, "openapi.yml") \in SpecFiles(d)
                THEN Append(d, "openapi.yml") ELSE Append(d, "openapi.yaml"),
      dir   |-> IF dir \in Range(repo.dirs) THEN dir ELSE None,
      deps  |-> <<>>]

\* conventionServices: one directory after the other.
Inferred ==
  LET upTo[k \in 0 .. Len(repo.dirs)] ==
        IF k = 0 THEN <<>>
        ELSE IF IsService(repo.dirs[k]) THEN Append(upTo[k - 1], Conventional(repo.dirs[k]))
        ELSE upTo[k - 1]
  IN upTo[Len(repo.dirs)]

\* Its walk fails at a directory that cannot be listed, unless a service is found
\* there or above: it is not descended into.
WalkFails == \E d \in repo.unreadable : \A k \in 0 .. Len(d) : SpecFiles(SubSeq(d, 1, k)) = {}

ServicesFail == repo.manifest = Invalid \/ (repo.manifest = None /\ WalkFails)

Resolved == IF repo.manifest # None THEN repo.manifest ELSE Inferred

-----------------------------------------------------------------------------

InitDiscovery ==
  /\ repo \in Repos
  /\ stage = "resolve"
  /\ services = <<>>
  /\ svc = 1
  /\ entry = 1
  /\ file = 1
  /\ entities = <<>>
  /\ relations = <<>>
  /\ notes = {}

\* A kaktoos.yaml that cannot be read, and without one a walk that fails, is an
\* error: there is no model.
FailToResolve ==
  /\ stage = "resolve"
  /\ ServicesFail
  /\ stage' = "failed"
  /\ UNCHANGED <<repo, services, svc, entry, file, entities, relations, notes>>

ResolveServices ==
  /\ stage = "resolve"
  /\ ~ServicesFail
  /\ services' = Resolved
  /\ stage' = "services"
  /\ UNCHANGED <<repo, svc, entry, file, entities, relations, notes>>

S == services[svc]

Loads(s) == s.spec \in DOMAIN repo.specs

Readable(s) == s.dir \in DOMAIN repo.scenarios

Note(source, problem) == [source |-> source, problem |-> problem]

\* A slip: an unreadable scenario directory is passed over.
ServiceNotes_SpecOnly(s) ==
  {Note(p, "spec") : p \in {s.spec} \ ({None} \cup DOMAIN repo.specs)}

ServiceNotes(s) ==
  {Note(p, "spec") : p \in {s.spec} \ ({None} \cup DOMAIN repo.specs)} \cup
  {Note(d, "directory") : d \in {s.dir} \ ({None} \cup DOMAIN repo.scenarios)}

\* The service, and the operations of its spec in whatever order the map
\* yields them.
AddService ==
  /\ stage = "services"
  /\ svc <= Len(services)
  /\ \E ops \in SetToSeqs(IF Loads(S) THEN repo.specs[S.spec] ELSE {}) :
       relations' = relations \o
         [k \in DOMAIN ops |-> Relation(ServiceId(S.name), OperationId(ops[k]), "exposes", S.spec)]
  /\ entities' = IF Loads(S)
       THEN Add({OperationId(o) : o \in repo.specs[S.spec]}, S.spec, Add({ServiceId(S.name)}, None, entities))
       ELSE Add({ServiceId(S.name)}, None, entities)
  /\ notes' = notes \cup ServiceNotes(S)
  /\ stage' = "workflows"
  /\ entry' = 1
  /\ UNCHANGED <<repo, services, svc, file>>

Files(s) == IF Readable(s) THEN repo.scenarios[s.dir] ELSE <<>>

E == Files(S)[entry]

AtEntry == stage = "workflows" /\ entry <= Len(Files(S))

\* A scenario that does not load is noted and left out.
RejectScenario ==
  /\ AtEntry
  /\ E.scenario = Invalid
  /\ notes' = notes \cup {Note(E.file, "scenario")}
  /\ entry' = entry + 1
  /\ UNCHANGED <<repo, stage, services, svc, file, entities, relations>>

\* openapi.FindOperation: some operation of that name, the first one the map
\* yields; None if there is none.
Finds(ops, name, o) ==
  IF \E p \in ops : p.name = name THEN o \in ops /\ o.name = name ELSE o = None

BothWays(wf, target, why) ==
  <<Relation(wf, target, "verifies", why), Relation(target, wf, "verified_by", why)>>

\* What the steps for which an operation was found are related to, and a note for
\* the ones for which none was.
StepRelations(wf, found, why) ==
  FlattenSeq([k \in DOMAIN found |->
    IF found[k] = None THEN <<>> ELSE BothWays(wf, OperationId(found[k]), why)])

StepNotes(steps, found, f) == {Note(f, steps[k]) : k \in {j \in DOMAIN steps : found[j] = None}}

\* The workflow, related both ways to its service and to the operation each
\* step names.  Without a loaded spec no step is looked up.
AddWorkflow ==
  /\ AtEntry
  /\ E.scenario # Invalid
  /\ LET wf    == WorkflowId(E.scenario.name)
         steps == IF Loads(S) THEN E.scenario.steps ELSE <<>>
         ops   == IF Loads(S) THEN repo.specs[S.spec] ELSE {}
     IN \E found \in [DOMAIN steps -> ops \cup {None}] :
          /\ \A k \in DOMAIN steps : Finds(ops, steps[k], found[k])
          /\ relations' = relations \o BothWays(wf, ServiceId(S.name), E.file)
                                    \o StepRelations(wf, found, E.file)
          /\ notes' = notes \cup StepNotes(steps, found, E.file)
          /\ entities' = Add({wf}, E.file, entities)
  /\ entry' = entry + 1
  /\ UNCHANGED <<repo, stage, services, svc, file>>

\* The relations to the services this one depends on, declared or not.
AddDependencies ==
  /\ stage = "workflows"
  /\ entry > Len(Files(S))
  /\ relations' = relations \o
       [k \in DOMAIN S.deps |-> Relation(ServiceId(S.name), ServiceId(S.deps[k]), "depends_on", None)]
  /\ svc' = svc + 1
  /\ stage' = "services"
  /\ UNCHANGED <<repo, services, entry, file, entities, notes>>

-----------------------------------------------------------------------------
(* addFilesAndOwnership                                                    *)

\* LoadCodeowners: the first file that can be read; no other problem is met.
OwnerRules ==
  LET k == SelectInSeq(repo.codeowners, LAMBDA c : c \notin {None, Invalid})
  IN IF k = 0 THEN <<>> ELSE repo.codeowners[k]

PatternCovers(pattern, p) ==
  CASE pattern.kind = "all"   -> TRUE
    [] pattern.kind = "under" -> IsPrefix(pattern.path, p)
    [] pattern.kind = "bare"  -> pattern.name \in {Head(p), Last(p)}

\* A line without an owner is dropped.
Applies(rule, p) == rule.owners # <<>> /\ PatternCovers(rule.pattern, p)

\* A slip: the first matching rule wins.
Owners_FirstMatch(p) ==
  LET k == SelectInSeq(OwnerRules, LAMBDA r : Applies(r, p))
  IN IF k = 0 THEN <<>> ELSE OwnerRules[k].owners

\* The last matching rule wins.
Owners(p) ==
  LET k == SelectLastInSeq(OwnerRules, LAMBDA r : Applies(r, p))
  IN IF k = 0 THEN <<>> ELSE OwnerRules[k].owners

\* matchService: the first service that covers the path, 0 if none does.
ServiceOf(p) == SelectInSeq(services, LAMBDA s : Covers(s, p))

\* The files WalkDir comes to: the error of a directory that cannot be listed ends
\* the walk, and is discarded.
Walked == SubSeq(repo.tree, 1, repo.reach)

\* A file of no service and without owners is left out.
AddFile ==
  /\ stage = "services"
  /\ svc > Len(services)
  /\ file <= Len(Walked)
  /\ LET p  == Walked[file]
         k  == ServiceOf(p)
         os == Owners(p)
     IN /\ relations' = relations
             \o (IF k = 0 THEN <<>>
                 ELSE <<Relation(FileId(p), ServiceId(services[k].name), "contains", p)>>)
             \o [j \in DOMAIN os |-> Relation(FileId(p), OwnerId(os[j]), "owned_by", None)]
        /\ entities' = Add({OwnerId(os[j]) : j \in DOMAIN os}, None,
                            Add(IF k = 0 /\ os = <<>> THEN {} ELSE {FileId(p)}, p, entities))
  /\ file' = file + 1
  /\ UNCHANGED <<repo, stage, services, svc, entry, notes>>

Discovered ==
  /\ stage = "services"
  /\ svc > Len(services)
  /\ file > Len(Walked)
  /\ stage' = "discovered"
  /\ UNCHANGED <<repo, services, svc, entry, file, entities, relations, notes>>

Discover ==
  \/ FailToResolve \/ ResolveServices \/ AddService \/ RejectScenario
  \/ AddWorkflow \/ AddDependencies \/ AddFile \/ Discovered
=============================================================================
