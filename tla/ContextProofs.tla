--------------------------- MODULE ContextProofs ---------------------------
(***************************************************************************)
(* What the discovery of any repository leaves in the model, proved from   *)
(* its steps: everything the manifest, the specs, the scenarios and the    *)
(* CODEOWNERS say, or a note, and nothing else; what the tools of the MCP  *)
(* server that answer from it therefore say; and what kaktoos impact and   *)
(* the tools about a change report of its owners, plan to run and answer   *)
(* with their exit code.  The steps of all of them either are steps of     *)
(* Discover, or of the walk, or leave the model alone.                     *)
(***************************************************************************)
EXTENDS Impact, ContextTools, FiniteSetTheorems, SequenceTheorems, WellFoundedInduction, TLAPS

\* The operations that a service exposes.
Exposed(s) == IF Loads(s) THEN repo.specs[s.spec] ELSE {}

Recorded(r) == r \in Range(relations)

\* Related both ways for the same reason.
Mutual(wf, target, why) ==
  Recorded(Relation(wf, target, "verifies", why)) /\ Recorded(Relation(target, wf, "verified_by", why))

-----------------------------------------------------------------------------
(* The inductive invariant                                                 *)

\* What adding a service leaves in the model: all its spec says, or a note.
HasService(s) ==
  /\ ServiceId(s.name) \in DOMAIN entities
  /\ \A o \in Exposed(s) :
       /\ OperationId(o) \in DOMAIN entities
       /\ Recorded(Relation(ServiceId(s.name), OperationId(o), "exposes", s.spec))
  /\ ServiceNotes(s) \subseteq notes

HasStep(s, f, name) ==
  \/ Note(f.file, name) \in notes
  \/ \E o \in Exposed(s) : o.name = name /\ Mutual(WorkflowId(f.scenario.name), OperationId(o), f.file)

\* What adding a scenario file leaves: the workflow and its steps, or notes.
HasEntry(s, f) ==
  /\ f.scenario = Invalid => Note(f.file, "scenario") \in notes
  /\ f.scenario # Invalid =>
       /\ WorkflowId(f.scenario.name) \in DOMAIN entities
       /\ Mutual(WorkflowId(f.scenario.name), ServiceId(s.name), f.file)
       /\ Loads(s) => \A name \in Range(f.scenario.steps) : HasStep(s, f, name)

HasDependencies(s) ==
  \A name \in Range(s.deps) : Recorded(Relation(ServiceId(s.name), ServiceId(name), "depends_on", None))

\* What adding a file leaves: its service and its owners.
HasFile(p) ==
  /\ ServiceOf(p) # 0 =>
       Recorded(Relation(FileId(p), ServiceId(services[ServiceOf(p)].name), "contains", p))
  /\ \A o \in Range(Owners(p)) :
       /\ OwnerId(o) \in DOMAIN entities
       /\ Recorded(Relation(FileId(p), OwnerId(o), "owned_by", None))

\* How far discovery has come.
ServiceAdded(k) == k < svc \/ (k = svc /\ stage = "workflows")

EntryAdded(k, j) == k < svc \/ (k = svc /\ stage = "workflows" /\ j < entry)

\* Nothing that was added so far was left out.
NothingMissing ==
  /\ \A k \in 1 .. Len(services) :
       /\ ServiceAdded(k) => HasService(services[k])
       /\ \A j \in 1 .. Len(Files(services[k])) :
            EntryAdded(k, j) => HasEntry(services[k], Files(services[k])[j])
       /\ k < svc => HasDependencies(services[k])
  /\ \A i \in 1 .. Len(Walked) : i < file => HasFile(Walked[i])

\* The relation says what the manifest, a spec, a scenario or CODEOWNERS says.
Justified(r) ==
  \/ \E s \in Range(services) : \E o \in Exposed(s) :
       r = Relation(ServiceId(s.name), OperationId(o), "exposes", s.spec)
  \/ \E s \in Range(services) : \E f \in Range(Files(s)) :
       /\ f.scenario # Invalid
       /\ r \in Range(BothWays(WorkflowId(f.scenario.name), ServiceId(s.name), f.file))
  \/ \E s \in Range(services) : \E f \in Range(Files(s)) : \E o \in Exposed(s) :
       /\ f.scenario # Invalid /\ o.name \in Range(f.scenario.steps)
       /\ r \in Range(BothWays(WorkflowId(f.scenario.name), OperationId(o), f.file))
  \/ \E s \in Range(services) : \E name \in Range(s.deps) :
       r = Relation(ServiceId(s.name), ServiceId(name), "depends_on", None)
  \/ \E p \in Range(Walked) :
       ServiceOf(p) # 0 /\ r = Relation(FileId(p), ServiceId(services[ServiceOf(p)].name), "contains", p)
  \/ \E p \in Range(Walked) : \E o \in Range(Owners(p)) :
       r = Relation(FileId(p), OwnerId(o), "owned_by", None)

\* So does the entity, and a workflow names the file it is in.
Documented(id) ==
  \/ \E s \in Range(services) : id = ServiceId(s.name)
  \/ \E s \in Range(services) : \E o \in Exposed(s) : id = OperationId(o)
  \/ \E s \in Range(services) : \E f \in Range(Files(s)) :
       f.scenario # Invalid /\ id = WorkflowId(f.scenario.name) /\ entities[id] = f.file
  \/ \E p \in Range(Walked) : id = FileId(p)
  \/ \E p \in Range(Walked) : \E o \in Range(Owners(p)) : id = OwnerId(o)

NothingInvented ==
  /\ \A r \in Range(relations) : Justified(r)
  /\ \A id \in DOMAIN entities : Documented(id)

\* Where discovery can be, and the types of what it works on.
Progress ==
  /\ repo \in Repos
  /\ services \in Seq(Services)
  /\ relations \in Seq(Relations)
  /\ svc \in 1 .. Len(services) + 1
  /\ file \in 1 .. Len(Walked) + 1
  /\ entry \in Nat \ {0}
  /\ stage = "resolve" => services = <<>> /\ relations = <<>> /\ entities = <<>> /\ file = 1
  /\ stage = "workflows" => svc <= Len(services) /\ entry <= Len(Files(S)) + 1
  /\ stage \notin {"resolve", "failed", "services", "workflows"} =>
       svc = Len(services) + 1 /\ file = Len(Walked) + 1

DInv == Progress /\ NothingMissing /\ NothingInvented

-----------------------------------------------------------------------------
(* The operators the steps are built from                                  *)

\* What a concatenation holds.
LEMMA RangeOfConcat ==
  ASSUME NEW R, NEW s \in Seq(R), NEW t \in Seq(R)
  PROVE  /\ s \o t \in Seq(R)
         /\ Range(s \o t) = Range(s) \cup Range(t)
  <1>1. /\ s \o t \in Seq(R)
        /\ Len(s \o t) = Len(s) + Len(t)
        /\ \A k \in 1 .. Len(s) : (s \o t)[k] = s[k]
        /\ \A k \in 1 .. Len(t) : (s \o t)[k + Len(s)] = t[k]
    BY ConcatProperties
  <1>2. Len(s) \in Nat /\ Len(t) \in Nat /\ DOMAIN s = 1 .. Len(s) /\ DOMAIN t = 1 .. Len(t)
        /\ DOMAIN (s \o t) = 1 .. Len(s \o t)
    BY <1>1, LenProperties
  <1>3. ASSUME NEW x \in Range(s \o t) PROVE x \in Range(s) \cup Range(t)
    <2>1. PICK k \in 1 .. Len(s) + Len(t) : (s \o t)[k] = x
      BY <1>1, <1>2 DEF Range
    <2>2. CASE k <= Len(s)
      BY <1>1, <1>2, <2>1, <2>2 DEF Range
    <2>3. CASE k > Len(s)
      <3>1. k - Len(s) \in 1 .. Len(t) /\ (k - Len(s)) + Len(s) = k
        BY <1>2, <2>3
      <3> QED
        BY <1>1, <1>2, <2>1, <3>1 DEF Range
    <2> QED
      BY <1>2, <2>2, <2>3
  <1>4. ASSUME NEW x \in Range(s) PROVE x \in Range(s \o t)
    <2>1. PICK k \in 1 .. Len(s) : s[k] = x
      BY <1>2 DEF Range
    <2> QED
      BY <1>1, <1>2, <2>1 DEF Range
  <1>5. ASSUME NEW x \in Range(t) PROVE x \in Range(s \o t)
    <2>1. PICK k \in 1 .. Len(t) : t[k] = x
      BY <1>2 DEF Range
    <2>2. k + Len(s) \in 1 .. Len(s \o t) /\ (s \o t)[k + Len(s)] = x
      BY <1>1, <1>2, <2>1
    <2> QED
      BY <1>2, <2>2 DEF Range
  <1> QED
    BY <1>1, <1>3, <1>4, <1>5

\* A nonempty set of natural numbers has a least element.
LEMMA LeastNumber ==
  ASSUME NEW T \in SUBSET Nat, T # {}
  PROVE  \E n \in T : \A m \in T : n <= m
  <1> DEFINE below == {ss \in Nat \X Nat : ss[1] < ss[2]}
  <1>1. IsWellFoundedOn(below, Nat)
    BY NatLessThanWellFounded DEF OpToRel
  <1> HIDE DEF below
  <1>2. PICK x \in T : \A y \in T : ~ (<<y, x>> \in below)
    BY <1>1, WFMin
  <1>3. ASSUME NEW y \in T PROVE x <= y
    <2>1. ~ (<<y, x>> \in below)
      BY <1>2
    <2> QED
      BY <2>1 DEF below
  <1> QED
    BY <1>3

\* A bounded one has a greatest.
LEMMA GreatestNumber ==
  ASSUME NEW n \in Nat, NEW T \in SUBSET (1 .. n), T # {}
  PROVE  \E g \in T : \A m \in T : m <= g
  <1> DEFINE above == {j \in 0 .. n : \A m \in T : m <= j}
  <1>1. above \in SUBSET Nat /\ n \in above
    OBVIOUS
  <1> HIDE DEF above
  <1>2. PICK g \in above : \A j \in above : g <= j
    BY <1>1, LeastNumber
  <1> USE DEF above
  <1>3. g \in T
    <2> SUFFICES ASSUME g \notin T PROVE FALSE
      OBVIOUS
    <2>1. PICK m \in T : TRUE
      OBVIOUS
    <2>2. g - 1 \in 0 .. n
      BY <1>2, <2>1
    <2>3. \A k \in T : k <= g - 1
      BY <1>2
    <2>4. g - 1 \in above
      BY <2>2, <2>3
    <2> QED
      BY <1>2, <2>4
  <1> QED
    BY <1>2, <1>3

\* Induction up to n, over the members of a set.
LEMMA UpToNumber ==
  ASSUME NEW n \in Nat, NEW T, 0 \in T, \A k \in 1 .. n : k - 1 \in T => k \in T
  PROVE  \A k \in 0 .. n : k \in T
  <1> DEFINE rest == {k \in 0 .. n : k \notin T}
  <1> SUFFICES ASSUME rest # {} PROVE FALSE
    OBVIOUS
  <1>1. rest \in SUBSET Nat
    OBVIOUS
  <1>2. PICK k \in rest : \A j \in rest : k <= j
    <2> HIDE DEF rest
    <2> QED
      BY <1>1, LeastNumber
  <1>3. k \in 1 .. n /\ k - 1 \in 0 .. n /\ k - 1 \notin rest
    BY <1>2
  <1> QED
    BY <1>2, <1>3

\* A set put into some order is all there.
LEMMA InSomeOrder ==
  ASSUME NEW T, IsFiniteSet(T), NEW f \in SetToSeqs(T)
  PROVE  f \in Seq(T) /\ Range(f) = T
  <1> DEFINE n == Cardinality(T)
  <1>1. n \in Nat
    BY FS_CardinalityType
  <1>2. f \in [1 .. n -> T] /\ \A i, j \in 1 .. n : i # j => f[i] # f[j]
    BY DEF SetToSeqs
  <1>3. IsFiniteSet(1 .. n) /\ Cardinality(1 .. n) = n
    BY <1>1, FS_Interval
  <1> HIDE DEF n
  <1>4. Range(f) \subseteq T
    BY <1>2 DEF Range
  <1>5. f \in Bijection(1 .. n, Range(f))
    BY <1>2 DEF Bijection, Injection, Surjection, IsInjective, Range
  <1>6. IsFiniteSet(Range(f)) /\ Cardinality(Range(f)) = n
    BY <1>3, <1>5, FS_Bijection DEF ExistsBijection
  <1>7. Range(f) = T
    BY <1>4, <1>6, FS_Subset DEF n
  <1> QED
    BY <1>1, <1>2, <1>7

\* Whether f is the concatenation of the first members of seqs, one after the other.
Flattens(f, seqs) ==
  f = [k \in 1 .. Len(seqs) |-> IF k = 1 THEN seqs[k] ELSE f[k - 1] \o seqs[k]]

\* Its values.
LEMMA FlattensStep ==
  ASSUME NEW seqs, NEW f, Flattens(f, seqs), NEW k \in 1 .. Len(seqs)
  PROVE  f[k] = IF k = 1 THEN seqs[k] ELSE f[k - 1] \o seqs[k]
  <1> DEFINE h == [j \in 1 .. Len(seqs) |-> IF j = 1 THEN seqs[j] ELSE f[j - 1] \o seqs[j]]
  <1>1. f = h
    BY DEF Flattens
  <1>2. h[k] = IF k = 1 THEN seqs[k] ELSE f[k - 1] \o seqs[k]
    OBVIOUS
  <1> HIDE DEF h
  <1> QED
    BY <1>1, <1>2

\* It exists.
LEMMA FlattensExists ==
  ASSUME NEW n \in Nat, NEW seqs, Len(seqs) = n
  PROVE  \E f : Flattens(f, seqs)
  <1> DEFINE Body(f, k) == IF k = 1 THEN seqs[k] ELSE f[k - 1] \o seqs[k]
             Upto(f, m) == f = [k \in 1 .. m |-> Body(f, k)]
             T == {m \in 0 .. n : \E f : Upto(f, m)}
  <1>1. 0 \in T
    <2>1. Upto([k \in 1 .. 0 |-> {}], 0)
      OBVIOUS
    <2> HIDE DEF Upto
    <2> QED
      BY <2>1
  <1>2. ASSUME NEW m \in 1 .. n, m - 1 \in T PROVE m \in T
    <2>1. PICK f : Upto(f, m - 1)
      BY <1>2
    <2> DEFINE g == [k \in 1 .. m |-> IF k = m THEN Body(f, m) ELSE f[k]]
    <2>2. ASSUME NEW k \in 1 .. m PROVE g[k] = Body(g, k)
      <3>1. CASE k = m
        <4>1. k # 1 => k - 1 \in 1 .. m /\ k - 1 # m /\ g[k - 1] = f[k - 1]
          BY <3>1
        <4> QED
          BY <3>1, <4>1
      <3>2. CASE k # m
        <4>1. k \in 1 .. m - 1 /\ g[k] = f[k]
          BY <3>2
        <4>2. f[k] = Body(f, k)
          <5> DEFINE h == [j \in 1 .. m - 1 |-> Body(f, j)]
          <5>1. f = h /\ h[k] = Body(f, k)
            BY <2>1, <4>1
          <5> HIDE DEF h
          <5> QED
            BY <5>1
        <4>3. k # 1 => k - 1 \in 1 .. m /\ k - 1 # m /\ g[k - 1] = f[k - 1]
          BY <3>2
        <4> QED
          BY <4>1, <4>2, <4>3
      <3> QED
        BY <3>1, <3>2
    <2>3. g = [k \in 1 .. m |-> g[k]]
      OBVIOUS
    <2> HIDE DEF g, Body
    <2>4. Upto(g, m)
      BY <2>2, <2>3
    <2> QED
      BY <2>4
  <1> HIDE DEF T
  <1>3. n \in T
    BY <1>1, <1>2, UpToNumber
  <1> QED
    BY <1>3 DEF T, Flattens

\* Flattening a sequence of sequences loses nothing and adds nothing.
LEMMA Flattened ==
  ASSUME NEW R, NEW n \in Nat, NEW seqs \in [1 .. n -> Seq(R)]
  PROVE  /\ FlattenSeq(seqs) \in Seq(R)
         /\ Range(FlattenSeq(seqs)) = UNION {Range(seqs[k]) : k \in 1 .. n}
  <1>1. Len(seqs) = n /\ \A k \in 1 .. n : seqs[k] \in Seq(R)
    BY LenProperties
  <1>2. CASE n = 0
    <2>1. FlattenSeq(seqs) = seqs /\ seqs = <<>> /\ 1 .. n = {}
      BY <1>1, <1>2 DEF FlattenSeq
    <2> QED
      BY <1>1, <2>1 DEF Range
  <1>3. CASE n # 0
    <2> DEFINE flat == CHOOSE f : Flattens(f, seqs)
    <2>1. FlattenSeq(seqs) = flat[n]
      BY <1>1, <1>3 DEF FlattenSeq, Flattens
    <2>2. Flattens(flat, seqs)
      BY <1>1, FlattensExists
    <2> HIDE DEF flat
    <2> DEFINE Joined(k) == UNION {Range(seqs[j]) : j \in 1 .. k}
               T == {k \in 0 .. n : k # 0 => flat[k] \in Seq(R) /\ Range(flat[k]) = Joined(k)}
    <2>3. 0 \in T
      OBVIOUS
    <2>4. ASSUME NEW k \in 1 .. n, k - 1 \in T PROVE k \in T
      <3>1. flat[k] = IF k = 1 THEN seqs[k] ELSE flat[k - 1] \o seqs[k]
        BY <1>1, <2>2, FlattensStep
      <3>2. seqs[k] \in Seq(R) /\ k \in 0 .. n
        BY <1>1
      <3>3. CASE k = 1
        <4>1. flat[k] = seqs[k] /\ 1 .. k = {1}
          BY <3>1, <3>3
        <4> QED
          BY <3>2, <3>3, <4>1
      <3>4. CASE k # 1
        <4>1. flat[k - 1] \in Seq(R) /\ Range(flat[k - 1]) = Joined(k - 1)
          BY <2>4, <3>4
        <4>2. flat[k] = flat[k - 1] \o seqs[k]
          BY <3>1, <3>4
        <4>3. flat[k] \in Seq(R) /\ Range(flat[k]) = Range(flat[k - 1]) \cup Range(seqs[k])
          BY <3>2, <4>1, <4>2, RangeOfConcat
        <4>4. 1 .. k = (1 .. k - 1) \cup {k}
          OBVIOUS
        <4>5. Joined(k) = Joined(k - 1) \cup Range(seqs[k])
          BY <4>4
        <4>6. Range(flat[k]) = Joined(k)
          BY <4>1, <4>3, <4>5
        <4> QED
          BY <3>2, <4>3, <4>6
      <3> QED
        BY <3>3, <3>4
    <2> HIDE DEF T
    <2>5. \A k \in 0 .. n : k \in T
      BY <2>3, <2>4, UpToNumber
    <2> QED
      <3>1. n \in T
        BY <2>5
      <3>2. flat[n] \in Seq(R) /\ Range(flat[n]) = Joined(n)
        <4> HIDE DEF Joined
        <4> QED
          BY <1>3, <3>1 DEF T
      <3> QED
        BY <2>1, <3>2
  <1> QED
    BY <1>2, <1>3

\* What is walked are files of the tree.
LEMMA WalkedType ==
  ASSUME repo \in Repos
  PROVE  Walked \in Seq(Paths) /\ Range(Walked) \subseteq Range(repo.tree)
  <1>1. repo.tree \in Seq(Paths) /\ repo.reach \in 0 .. Len(repo.tree)
    BY ReposAssumption
  <1>2. repo.reach \in Int /\ \A i \in 1 .. repo.reach : repo.tree[i] \in Paths
    BY <1>1
  <1>3. /\ Walked \in Seq(Paths)
        /\ Len(Walked) = IF 1 <= repo.reach THEN repo.reach - 1 + 1 ELSE 0
        /\ \A i \in 1 .. repo.reach - 1 + 1 : Walked[i] = repo.tree[1 + i - 1]
    BY <1>2, SubSeqProperties DEF Walked
  <1>4. /\ DOMAIN Walked = 1 .. repo.reach /\ DOMAIN repo.tree = 1 .. Len(repo.tree)
        /\ \A i \in 1 .. repo.reach : Walked[i] = repo.tree[i] /\ i \in 1 .. Len(repo.tree)
    BY <1>1, <1>3
  <1>5. Range(Walked) \subseteq Range(repo.tree)
    <2> HIDE DEF Walked
    <2> QED
      BY <1>4 DEF Range
  <1> QED
    BY <1>3, <1>5

\* The rules are those of one of the places, or none.
LEMMA OwnerRulesType ==
  ASSUME repo \in Repos
  PROVE  OwnerRules \in Seq(OwnerLines)
  <1> DEFINE readable == {i \in 1 .. Len(repo.codeowners) : repo.codeowners[i] \notin {None, Invalid}}
  <1>1. repo.codeowners \in Seq({None, Invalid} \cup Seq(OwnerLines)) /\ Len(repo.codeowners) \in Nat
    BY ReposAssumption
  <1>2. OwnerRules = LET k == IF readable # {} THEN Min(readable) ELSE 0
                     IN IF k = 0 THEN <<>> ELSE repo.codeowners[k]
    BY DEF OwnerRules, SelectInSeq
  <1>3. CASE readable = {}
    BY <1>2, <1>3
  <1>4. CASE readable # {}
    <2>1. readable \in SUBSET (1 .. Len(repo.codeowners))
      OBVIOUS
    <2>2. Min(readable) \in readable
      <3> HIDE DEF readable
      <3>1. \E i \in readable : \A j \in readable : i <= j
        BY <1>1, <1>4, <2>1, LeastNumber
      <3> QED
        BY <3>1 DEF Min
    <2>3. Min(readable) \in 1 .. Len(repo.codeowners)
          /\ repo.codeowners[Min(readable)] \notin {None, Invalid}
      BY <2>2
    <2> HIDE DEF readable
    <2>4. repo.codeowners[Min(readable)] \in {None, Invalid} \cup Seq(OwnerLines)
      BY <1>1, <2>3, ElementOfSeq, Zenon
    <2>5. OwnerRules = repo.codeowners[Min(readable)]
      BY <1>2, <1>4, <2>3
    <2> QED
      BY <2>3, <2>4, <2>5
  <1> QED
    BY <1>3, <1>4

\* A repository is what it is assumed to be.
LEMMA RepoType ==
  ASSUME repo \in Repos
  PROVE  /\ repo.manifest \in {None, Invalid} \cup Seq(Services)
         /\ Walked \in Seq(Paths) /\ repo.dirs \in Seq(Paths)
         /\ \A s : Exposed(s) \subseteq Operations /\ IsFiniteSet(Exposed(s))
         /\ \A s : Files(s) \in Seq(Entries)
         /\ OwnerRules \in Seq([pattern : Patterns, owners : Seq(Names)])
  <1>1. IsFiniteSet({})
    BY FS_EmptySet
  <1>2. /\ repo.manifest \in {None, Invalid} \cup Seq(Services)
        /\ Walked \in Seq(Paths) /\ repo.dirs \in Seq(Paths)
        /\ OwnerRules \in Seq([pattern : Patterns, owners : Seq(Names)])
    BY ReposAssumption, WalkedType, OwnerRulesType DEF OwnerLines
  <1>3. \A q \in DOMAIN repo.specs : repo.specs[q] \subseteq Operations /\ IsFiniteSet(repo.specs[q])
    BY ReposAssumption
  <1>4. \A d \in DOMAIN repo.scenarios : repo.scenarios[d] \in Seq(Entries)
    BY ReposAssumption
  <1>5. \A s : Exposed(s) \subseteq Operations /\ IsFiniteSet(Exposed(s))
    BY <1>1, <1>3 DEF Exposed, Loads
  <1>6. <<>> \in Seq(Entries)
    OBVIOUS
  <1>7. \A s : Files(s) \in Seq(Entries)
    BY <1>4, <1>6 DEF Files, Readable
  <1> QED
    BY <1>2, <1>5, <1>7

\* The rule that decides is one of the rules, and the owners are its owners.
LEMMA OwnersType ==
  ASSUME repo \in Repos, NEW p
  PROVE  Owners(p) \in Seq(Names)
  <1> DEFINE rules == OwnerRules
             covering == {i \in 1 .. Len(rules) : Applies(rules[i], p)}
  <1>1. rules \in Seq([pattern : Patterns, owners : Seq(Names)]) /\ Len(rules) \in Nat
    BY RepoType
  <1>2. Owners(p) = LET k == IF covering # {} THEN Max(covering) ELSE 0
                    IN IF k = 0 THEN <<>> ELSE rules[k].owners
    BY DEF Owners, SelectLastInSeq, Applies
  <1>3. covering \in SUBSET (1 .. Len(rules))
    OBVIOUS
  <1>4. CASE covering = {}
    BY <1>2, <1>4
  <1>5. CASE covering # {}
    <2>1. PICK g \in covering : \A m \in covering : m <= g
      <3> HIDE DEF covering, rules
      <3> QED
        BY <1>1, <1>3, <1>5, GreatestNumber
    <2>2. Max(covering) \in covering
      <3> HIDE DEF covering
      <3> QED
        BY <1>1, <1>3, <2>1 DEF Max
    <2>3. Max(covering) \in 1 .. Len(rules)
      BY <2>2
    <2>4. Owners(p) = rules[Max(covering)].owners
      <3> HIDE DEF covering, rules
      <3> QED
        BY <1>1, <1>2, <1>5, <2>3
    <2> HIDE DEF covering, rules
    <2>5. rules[Max(covering)] \in [pattern : Patterns, owners : Seq(Names)]
      BY <1>1, <2>3, ElementOfSeq, Zenon
    <2>6. rules[Max(covering)].owners \in Seq(Names)
      BY <2>5
    <2> QED
      BY <2>4, <2>6
  <1> QED
    BY <1>4, <1>5

\* The service of a file is the first that covers it.
LEMMA ServiceOfType ==
  ASSUME services \in Seq(Services), NEW p
  PROVE  /\ ServiceOf(p) \in 0 .. Len(services)
         /\ ServiceOf(p) # 0 => services[ServiceOf(p)] \in Range(services)
  <1> DEFINE covering == {i \in 1 .. Len(services) : Covers(services[i], p)}
  <1>1. Len(services) \in Nat
    OBVIOUS
  <1>2. ServiceOf(p) = IF covering # {} THEN Min(covering) ELSE 0
    BY DEF ServiceOf, SelectInSeq
  <1>3. covering \in SUBSET Nat /\ covering \subseteq 1 .. Len(services)
    OBVIOUS
  <1> HIDE DEF covering
  <1>4. CASE covering = {}
    BY <1>1, <1>2, <1>4
  <1>5. CASE covering # {}
    <2>1. PICK n \in covering : \A m \in covering : n <= m
      BY <1>3, <1>5, LeastNumber
    <2>2. Min(covering) \in covering
      BY <1>3, <2>1 DEF Min
    <2>3. Min(covering) \in 1 .. Len(services) /\ ServiceOf(p) = Min(covering)
      BY <1>2, <1>3, <1>5, <2>2
    <2>4. DOMAIN services = 1 .. Len(services)
      OBVIOUS
    <2> QED
      BY <1>1, <2>3, <2>4 DEF Range
  <1> QED
    BY <1>4, <1>5

\* A directory's service has the type of a declared one.
LEMMA ConventionalType ==
  ASSUME repo \in Repos, NEW d \in Range(repo.dirs), IsService(d)
  PROVE  Conventional(d) \in Services
  <1>1. d \in Paths /\ (d = Root \/ Last(d) \in Names) /\ repo.base \in Names
    BY ReposAssumption DEF Range
  <1>2. Range(repo.dirs) \subseteq Paths /\ Range(repo.tree) \subseteq Paths
    BY ReposAssumption DEF Range
  <1>3. SpecFiles(d) # {} /\ SpecFiles(d) \subseteq Paths
    BY <1>2 DEF IsService, SpecFiles
  <1>4. Conventional(d).spec \in Paths
    BY <1>3 DEF Conventional, SpecFiles
  <1>5. <<[path |-> d, deep |-> TRUE]>> \in Seq(Globs)
    BY <1>1 DEF Globs
  <1>6. Conventional(d).dir \in Paths \cup {None}
    BY <1>2 DEF Conventional
  <1>7. <<>> \in Seq(Names)
    OBVIOUS
  <1> QED
    BY <1>1, <1>4, <1>5, <1>6, <1>7 DEF Conventional, Services

\* Whether f is what the first of the directories give, one after the other.
Infers(f, n) == f = [k \in 0 .. n |->
  IF k = 0 THEN <<>>
  ELSE IF IsService(repo.dirs[k]) THEN Append(f[k - 1], Conventional(repo.dirs[k]))
  ELSE f[k - 1]]

\* Its values.
LEMMA InfersStep ==
  ASSUME NEW n \in Nat, NEW f, Infers(f, n), NEW k \in 0 .. n
  PROVE  f[k] = IF k = 0 THEN <<>>
                ELSE IF IsService(repo.dirs[k]) THEN Append(f[k - 1], Conventional(repo.dirs[k]))
                ELSE f[k - 1]
  <1> DEFINE h == [j \in 0 .. n |->
                     IF j = 0 THEN <<>>
                     ELSE IF IsService(repo.dirs[j]) THEN Append(f[j - 1], Conventional(repo.dirs[j]))
                     ELSE f[j - 1]]
  <1>1. f = h
    BY DEF Infers
  <1>2. h[k] = IF k = 0 THEN <<>>
               ELSE IF IsService(repo.dirs[k]) THEN Append(f[k - 1], Conventional(repo.dirs[k]))
               ELSE f[k - 1]
    OBVIOUS
  <1> HIDE DEF h
  <1> QED
    BY <1>1, <1>2

\* It exists.
LEMMA InfersExists ==
  ASSUME NEW n \in Nat
  PROVE  \E f : Infers(f, n)
  <1> DEFINE Given(f, k) == IF IsService(repo.dirs[k]) THEN Append(f[k - 1], Conventional(repo.dirs[k]))
                            ELSE f[k - 1]
             T == {m \in 0 .. n : \E f : Infers(f, m)}
  <1>1. 0 \in T
    <2>1. Infers([k \in 0 .. 0 |-> <<>>], 0)
      BY DEF Infers
    <2> QED
      BY <2>1
  <1>2. ASSUME NEW m \in 1 .. n, m - 1 \in T PROVE m \in T
    <2>1. PICK f : Infers(f, m - 1)
      BY <1>2
    <2> DEFINE g == [k \in 0 .. m |-> IF k = m THEN Given(f, m) ELSE f[k]]
    <2>2. ASSUME NEW k \in 0 .. m PROVE g[k] = IF k = 0 THEN <<>> ELSE Given(g, k)
      <3>1. k # 0 => k - 1 \in 0 .. m /\ k - 1 # m /\ g[k - 1] = f[k - 1]
        OBVIOUS
      <3>2. k = m => k # 0 /\ g[k] = Given(f, k)
        OBVIOUS
      <3>3. k # m => /\ g[k] = f[k]
                     /\ f[k] = IF k = 0 THEN <<>> ELSE Given(f, k)
        <4> SUFFICES ASSUME k # m PROVE f[k] = IF k = 0 THEN <<>> ELSE Given(f, k)
          OBVIOUS
        <4>1. k \in 0 .. m - 1 /\ m - 1 \in Nat
          OBVIOUS
        <4> QED
          BY <2>1, <4>1, InfersStep
      <3> HIDE DEF g
      <3> QED
        BY <3>1, <3>2, <3>3
    <2>3. g = [k \in 0 .. m |-> g[k]]
      OBVIOUS
    <2> HIDE DEF g
    <2>4. Infers(g, m)
      BY <2>2, <2>3 DEF Infers
    <2> QED
      BY <2>4
  <1> HIDE DEF T
  <1>3. n \in T
    BY <1>1, <1>2, UpToNumber
  <1> QED
    BY <1>3 DEF T

\* So the services have their type, declared or not.
LEMMA ResolvedType ==
  ASSUME repo \in Repos, repo.manifest # Invalid
  PROVE  Resolved \in Seq(Services)
  <1>1. repo.manifest \in {None, Invalid} \cup Seq(Services) /\ repo.dirs \in Seq(Paths)
    BY RepoType
  <1>2. PICK n \in Nat : n = Len(repo.dirs)
    BY <1>1
  <1> DEFINE upTo == CHOOSE f : Infers(f, n)
             T == {k \in 0 .. n : upTo[k] \in Seq(Services)}
  <1>3. Inferred = upTo[n]
    BY <1>2 DEF Inferred, Infers
  <1>4. Infers(upTo, n)
    BY InfersExists
  <1> HIDE DEF upTo
  <1>5. 0 \in T
    <2>1. 0 \in 0 .. n
      OBVIOUS
    <2>2. upTo[0] = <<>>
      BY <1>4, <2>1, InfersStep
    <2>3. <<>> \in Seq(Services)
      OBVIOUS
    <2>4. upTo[0] \in Seq(Services)
      BY <2>2, <2>3
    <2> QED
      BY <2>1, <2>4
  <1>6. ASSUME NEW k \in 1 .. n, k - 1 \in T PROVE k \in T
    <2>1. upTo[k] = IF IsService(repo.dirs[k]) THEN Append(upTo[k - 1], Conventional(repo.dirs[k]))
                    ELSE upTo[k - 1]
      BY <1>4, InfersStep
    <2>2. repo.dirs[k] \in Range(repo.dirs)
      BY <1>1, <1>2 DEF Range
    <2>3. IsService(repo.dirs[k]) => Conventional(repo.dirs[k]) \in Services
      BY <2>2, ConventionalType
    <2>4. upTo[k - 1] \in Seq(Services) /\ k \in 0 .. n
      BY <1>6
    <2>5. upTo[k] \in Seq(Services)
      <3>1. CASE IsService(repo.dirs[k])
        BY <2>1, <2>3, <2>4, <3>1, AppendProperties
      <3>2. CASE ~ IsService(repo.dirs[k])
        BY <2>1, <2>4, <3>2
      <3> QED
        BY <3>1, <3>2
    <2> QED
      BY <2>4, <2>5
  <1> HIDE DEF T
  <1>7. n \in T
    BY <1>5, <1>6, UpToNumber
  <1>8. Inferred \in Seq(Services)
    BY <1>3, <1>7 DEF T
  <1> QED
    BY <1>1, <1>8 DEF Resolved

-----------------------------------------------------------------------------
(* What a step of discovery leaves as it was                               *)

\* What the repository and its services say does not change.
LEMMA SameRepository ==
  ASSUME UNCHANGED <<repo, services>>
  PROVE  /\ \A s : /\ Exposed(s)' = Exposed(s) /\ Files(s)' = Files(s)
                   /\ Loads(s)' = Loads(s) /\ ServiceNotes(s)' = ServiceNotes(s)
         /\ \A p : ServiceOf(p)' = ServiceOf(p) /\ Owners(p)' = Owners(p)
         /\ Walked' = Walked
  BY DEF Exposed, Files, Loads, Readable, ServiceNotes, ServiceOf, Owners, OwnerRules, Applies, Covers,
         SelectInSeq, SelectLastInSeq, Walked

\* Nor which files are walked.
LEMMA SameFiles ==
  ASSUME UNCHANGED repo
  PROVE  Walked' = Walked
  BY DEF Walked

\* Nor does what justifies a relation.
LEMMA SameReasons ==
  ASSUME UNCHANGED <<repo, services>>, NEW r, Justified(r)
  PROVE  Justified(r)'
  <1>1. /\ \A s : Exposed(s)' = Exposed(s) /\ Files(s)' = Files(s)
        /\ \A p : ServiceOf(p)' = ServiceOf(p) /\ Owners(p)' = Owners(p)
        /\ Walked' = Walked
    BY SameRepository
  <1> QED
    BY <1>1 DEF Justified

\* An entity keeps its reason with its file.
LEMMA SameDocument ==
  ASSUME UNCHANGED <<repo, services>>, NEW id, Documented(id), entities'[id] = entities[id]
  PROVE  Documented(id)'
  <1>1. /\ \A s : Exposed(s)' = Exposed(s) /\ Files(s)' = Files(s)
        /\ \A p : ServiceOf(p)' = ServiceOf(p) /\ Owners(p)' = Owners(p)
        /\ Walked' = Walked
    BY SameRepository
  <1> QED
    BY <1>1 DEF Documented

\* Nothing that is in a model or noted is lost when more is added.
LEMMA StillThere ==
  ASSUME UNCHANGED <<repo, services>>, DOMAIN entities \subseteq DOMAIN entities',
         Range(relations) \subseteq Range(relations'), notes \subseteq notes'
  PROVE  /\ \A s : HasService(s) => HasService(s)'
         /\ \A s, f : HasEntry(s, f) => HasEntry(s, f)'
         /\ \A s : HasDependencies(s) => HasDependencies(s)'
         /\ \A p : HasFile(p) => HasFile(p)'
  <1>1. /\ \A s : /\ Exposed(s)' = Exposed(s) /\ Files(s)' = Files(s)
                  /\ Loads(s)' = Loads(s) /\ ServiceNotes(s)' = ServiceNotes(s)
        /\ \A p : ServiceOf(p)' = ServiceOf(p) /\ Owners(p)' = Owners(p)
    BY SameRepository
  <1>2. \A r : Recorded(r) => Recorded(r)'
    BY DEF Recorded
  <1>3. \A s : HasService(s) => HasService(s)'
    BY <1>1, <1>2 DEF HasService
  <1>4. \A s, f : HasEntry(s, f) => HasEntry(s, f)'
    <2>1. \A wf, t, why : Mutual(wf, t, why) => Mutual(wf, t, why)'
      BY <1>2 DEF Mutual
    <2>2. \A s, f, name : HasStep(s, f, name) => HasStep(s, f, name)'
      BY <1>1, <2>1 DEF HasStep
    <2> QED
      BY <1>1, <2>1, <2>2 DEF HasEntry
  <1>5. \A s : HasDependencies(s) => HasDependencies(s)'
    BY <1>2 DEF HasDependencies
  <1>6. \A p : HasFile(p) => HasFile(p)'
    BY <1>1, <1>2 DEF HasFile
  <1> QED
    BY <1>3, <1>4, <1>5, <1>6

\* Relations that are justified may be added to a model that is.
LEMMA MoreRelations ==
  ASSUME UNCHANGED <<repo, services>>, relations \in Seq(Relations), NEW rs \in Seq(Relations),
         relations' = relations \o rs,
         \A r \in Range(relations) : Justified(r), \A r \in Range(rs) : Justified(r)
  PROVE  /\ relations' \in Seq(Relations)
         /\ Range(relations') = Range(relations) \cup Range(rs)
         /\ \A r \in Range(relations') : Justified(r)'
  <1>1. relations' \in Seq(Relations) /\ Range(relations') = Range(relations) \cup Range(rs)
    BY RangeOfConcat
  <1> QED
    BY <1>1, SameReasons

\* In two portions, too.
LEMMA EvenMoreRelations ==
  ASSUME UNCHANGED <<repo, services>>, relations \in Seq(Relations),
         NEW rs \in Seq(Relations), NEW ts \in Seq(Relations), relations' = relations \o rs \o ts,
         \A r \in Range(relations) : Justified(r), \A r \in Range(rs) \cup Range(ts) : Justified(r)
  PROVE  /\ relations' \in Seq(Relations)
         /\ Range(relations') = Range(relations) \cup Range(rs) \cup Range(ts)
         /\ \A r \in Range(relations') : Justified(r)'
  <1>1. PICK front : front = relations \o rs
    OBVIOUS
  <1>2. front \in Seq(Relations) /\ Range(front) = Range(relations) \cup Range(rs)
    BY <1>1, RangeOfConcat
  <1>3. relations' = front \o ts
    BY <1>1
  <1>4. relations' \in Seq(Relations) /\ Range(relations') = Range(front) \cup Range(ts)
    BY <1>2, <1>3, RangeOfConcat
  <1> QED
    BY <1>2, <1>4, SameReasons

\* Both relations of a pair.
LEMMA BothRelations ==
  ASSUME NEW wf \in Ids, NEW target \in Ids, NEW why \in Why
  PROVE  /\ BothWays(wf, target, why) \in Seq(Relations)
         /\ Range(BothWays(wf, target, why)) =
              {Relation(wf, target, "verifies", why), Relation(target, wf, "verified_by", why)}
  <1> DEFINE a == Relation(wf, target, "verifies", why)
             b == Relation(target, wf, "verified_by", why)
  <1>1. a \in Relations /\ b \in Relations
    BY DEF Relation, Relations
  <1>2. BothWays(wf, target, why) = <<a, b>>
    BY DEF BothWays
  <1> HIDE DEF a, b
  <1>3. <<a, b>> \in Seq(Relations) /\ Range(<<a, b>>) = {a, b}
    BY <1>1 DEF Range
  <1> QED
    BY <1>2, <1>3 DEF a, b

-----------------------------------------------------------------------------
(* The steps                                                               *)

\* The relations that discovery records have their type.
LEMMA RelationTypes ==
  /\ \A n \in Names : ServiceId(n) \in Ids /\ WorkflowId(n) \in Ids /\ OwnerId(n) \in Ids
  /\ \A o \in Operations : OperationId(o) \in Ids
  /\ \A p \in Paths : FileId(p) \in Ids
  /\ \A from, to \in Ids : \A why \in Why :
       \A kind \in {"contains", "exposes", "verifies", "verified_by", "owned_by", "depends_on"} :
         Relation(from, to, kind, why) \in Relations
  <1>1. /\ \A n \in Names : ServiceId(n) \in Ids /\ WorkflowId(n) \in Ids /\ OwnerId(n) \in Ids
        /\ \A o \in Operations : OperationId(o) \in Ids
        /\ \A p \in Paths : FileId(p) \in Ids
    BY DEF ServiceId, WorkflowId, OwnerId, OperationId, FileId, Ids, Operations
  <1>2. \A from, to \in Ids : \A why \in Why :
          \A kind \in {"contains", "exposes", "verifies", "verified_by", "owned_by", "depends_on"} :
            Relation(from, to, kind, why) \in Relations
    BY DEF Relation, Relations
  <1> QED
    BY <1>1, <1>2

\* The services become known.
LEMMA ResolveInvariant ==
  ASSUME DInv, FailToResolve \/ ResolveServices
  PROVE  DInv'
  <1>1. Progress /\ stage = "resolve" /\ services = <<>> /\ relations = <<>> /\ entities = <<>> /\ file = 1
    BY DEF DInv, Progress, FailToResolve, ResolveServices
  <1>2. svc = 1 /\ Len(services) = 0 /\ Range(relations) = {} /\ DOMAIN entities = {}
    BY <1>1 DEF Progress, Range
  <1>3. /\ UNCHANGED <<repo, svc, entry, file, entities, relations, notes>>
        /\ stage' \in {"failed", "services"}
        /\ services' \in Seq(Services)
    BY <1>1, ResolvedType DEF Progress, FailToResolve, ResolveServices, ServicesFail
  <1>4. Len(services') \in Nat
    BY <1>3
  <1>5. Progress'
    BY <1>1, <1>2, <1>3, <1>4 DEF Progress
  <1>6. NothingMissing'
    BY <1>1, <1>2, <1>3 DEF NothingMissing, ServiceAdded, EntryAdded, Progress
  <1>7. NothingInvented'
    BY <1>2, <1>3 DEF NothingInvented
  <1> QED
    BY <1>5, <1>6, <1>7 DEF DInv

\* A service and its operations are added.
LEMMA ServiceInvariant ==
  ASSUME DInv, AddService
  PROVE  DInv'
  <1>1. Progress /\ NothingMissing /\ NothingInvented
    BY DEF DInv
  <1>2. stage = "services" /\ svc \in 1 .. Len(services) /\ S \in Services /\ S \in Range(services)
    BY <1>1 DEF Progress, AddService, S, Range
  <1>3. S.name \in Names /\ S.spec \in Why
    BY <1>2 DEF Services, Why
  <1>4. Exposed(S) \subseteq Operations /\ IsFiniteSet(Exposed(S))
    BY <1>1, RepoType DEF Progress
  <1>5. PICK ops \in SetToSeqs(Exposed(S)) :
          relations' = relations \o
            [k \in DOMAIN ops |-> Relation(ServiceId(S.name), OperationId(ops[k]), "exposes", S.spec)]
    BY DEF AddService, Exposed
  <1>6. ops \in Seq(Exposed(S)) /\ Range(ops) = Exposed(S)
    BY <1>4, <1>5, InSomeOrder
  <1> DEFINE rs == [k \in DOMAIN ops |-> Relation(ServiceId(S.name), OperationId(ops[k]), "exposes", S.spec)]
  <1>7. /\ stage' = "workflows" /\ entry' = 1 /\ notes' = notes \cup ServiceNotes(S)
        /\ UNCHANGED <<repo, services, svc, file>>
    BY DEF AddService
  <1>8. ASSUME NEW o \in Exposed(S)
        PROVE  /\ Relation(ServiceId(S.name), OperationId(o), "exposes", S.spec) \in Relations
               /\ Justified(Relation(ServiceId(S.name), OperationId(o), "exposes", S.spec))
    <2>1. Relation(ServiceId(S.name), OperationId(o), "exposes", S.spec) \in Relations
      BY <1>3, <1>4, RelationTypes
    <2> QED
      BY <1>2, <2>1 DEF Justified
  <1>9. /\ rs \in Seq(Relations)
        /\ Range(rs) = {Relation(ServiceId(S.name), OperationId(o), "exposes", S.spec) : o \in Exposed(S)}
    <2>1. DOMAIN ops = 1 .. Len(ops) /\ Len(ops) \in Nat /\ \A k \in DOMAIN ops : ops[k] \in Exposed(S)
      BY <1>6
    <2>2. rs \in [1 .. Len(ops) -> Relations]
      BY <1>8, <2>1
    <2>3. Range(rs) = {Relation(ServiceId(S.name), OperationId(ops[k]), "exposes", S.spec) : k \in DOMAIN ops}
      BY DEF Range
    <2> HIDE DEF rs
    <2>4. Exposed(S) = {ops[k] : k \in DOMAIN ops}
      BY <1>6 DEF Range
    <2>5. rs \in Seq(Relations)
      BY <2>1, <2>2
    <2> QED
      BY <2>3, <2>4, <2>5
  <1>10. relations' = relations \o rs
    BY <1>5
  <1> HIDE DEF rs
  <1>11. /\ relations' \in Seq(Relations)
         /\ Range(relations') = Range(relations) \cup Range(rs)
         /\ \A r \in Range(relations') : Justified(r)'
    <2>1. \A r \in Range(rs) : Justified(r)
      BY <1>8, <1>9
    <2> QED
      BY <1>1, <1>7, <1>9, <1>10, <2>1, MoreRelations DEF Progress, NothingInvented
  <1>12. /\ DOMAIN entities' = {OperationId(o) : o \in Exposed(S)} \cup {ServiceId(S.name)} \cup DOMAIN entities
         /\ \A id \in DOMAIN entities' :
              \/ id = ServiceId(S.name)
              \/ \E o \in Exposed(S) : id = OperationId(o)
              \/ id \in DOMAIN entities /\ entities'[id] = entities[id]
    <2>1. entities' = IF Loads(S)
            THEN Add({OperationId(o) : o \in Exposed(S)}, S.spec, Add({ServiceId(S.name)}, None, entities))
            ELSE Add({ServiceId(S.name)}, None, entities)
      BY DEF AddService, Exposed
    <2>2. ~ Loads(S) => Exposed(S) = {}
      BY DEF Exposed
    <2> DEFINE Base == Add({ServiceId(S.name)}, None, entities)
               opIds == {OperationId(o) : o \in Exposed(S)}
    <2>3. /\ DOMAIN Base = {ServiceId(S.name)} \cup DOMAIN entities
          /\ \A id \in DOMAIN entities \ {ServiceId(S.name)} : Base[id] = entities[id]
      BY DEF Add
    <2> HIDE DEF Base
    <2>4. CASE Loads(S)
      <3>1. entities' = Add(opIds, S.spec, Base)
        BY <2>1, <2>4 DEF Base
      <3>2. /\ DOMAIN entities' = opIds \cup DOMAIN Base
            /\ \A id \in DOMAIN Base \ opIds : entities'[id] = Base[id]
        BY <3>1 DEF Add
      <3> QED
        BY <2>3, <3>2
    <2>5. CASE ~ Loads(S)
      BY <2>1, <2>2, <2>3, <2>5 DEF Base
    <2> QED
      BY <2>4, <2>5
  <1>13. \A id \in DOMAIN entities' : Documented(id)'
    <2> SUFFICES ASSUME NEW id \in DOMAIN entities' PROVE Documented(id)'
      OBVIOUS
    <2>1. Exposed(S)' = Exposed(S) /\ S' = S /\ S \in Range(services)'
      <3>1. S' = S
        BY <1>7 DEF S
      <3>2. \A s : Exposed(s)' = Exposed(s)
        BY <1>7, SameRepository
      <3> QED
        BY <1>2, <1>7, <3>1, <3>2
    <2>2. CASE id = ServiceId(S.name)
      BY <2>1, <2>2 DEF Documented
    <2>3. CASE \E o \in Exposed(S) : id = OperationId(o)
      BY <2>1, <2>3 DEF Documented
    <2>4. CASE id \in DOMAIN entities /\ entities'[id] = entities[id]
      BY <1>1, <1>7, <2>4, SameDocument DEF NothingInvented
    <2> QED
      BY <1>12, <2>2, <2>3, <2>4
  <1>14. NothingMissing'
    <2>1. /\ \A s : HasService(s) => HasService(s)'
          /\ \A s, f : HasEntry(s, f) => HasEntry(s, f)'
          /\ \A s : HasDependencies(s) => HasDependencies(s)'
          /\ \A p : HasFile(p) => HasFile(p)'
      BY <1>7, <1>11, <1>12, StillThere
    <2>2. \A s : Files(s)' = Files(s) /\ Exposed(s)' = Exposed(s) /\ ServiceNotes(s)' = ServiceNotes(s)
      BY <1>7, SameRepository
    <2>3. HasService(S)'
      BY <1>7, <1>9, <1>11, <1>12, <2>2 DEF HasService, Recorded, S
    <2>4. ASSUME NEW k \in 1 .. Len(services')
          PROVE  /\ ServiceAdded(k)' => HasService(services[k])'
                 /\ \A j \in 1 .. Len(Files(services[k])') :
                      EntryAdded(k, j)' => HasEntry(services[k], Files(services[k])[j])'
                 /\ k < svc' => HasDependencies(services[k])'
      <3>1. k \in 1 .. Len(services) /\ services'[k] = services[k]
        BY <1>7
      <3>2. ServiceAdded(k)' => k = svc \/ ServiceAdded(k)
        BY <1>7 DEF ServiceAdded
      <3>3. k = svc => HasService(services[k])'
        BY <1>7, <2>3 DEF S
      <3>4. \A j \in Nat \ {0} : EntryAdded(k, j)' => EntryAdded(k, j)
        BY <1>7 DEF EntryAdded
      <3> QED
        BY <1>1, <1>7, <2>1, <2>2, <3>1, <3>2, <3>3, <3>4 DEF NothingMissing
    <2> QED
      BY <1>1, <1>7, <2>1, <2>4, SameFiles DEF NothingMissing
  <1>15. Progress'
    <2>1. Len(services) \in Nat /\ Len(Files(S)') \in Nat
      <3>1. Files(S)' = Files(S)
        BY <1>7 DEF S, Files, Readable
      <3> QED
        BY <1>1, <3>1, RepoType DEF Progress
    <2> QED
      BY <1>1, <1>2, <1>7, <1>11, <2>1, SameFiles DEF Progress
  <1> QED
    BY <1>11, <1>13, <1>14, <1>15 DEF DInv, NothingInvented

\* A scenario file that does not load is noted.
LEMMA RejectedScenarioInvariant ==
  ASSUME DInv, RejectScenario
  PROVE  DInv'
  <1>1. Progress /\ NothingMissing /\ NothingInvented
    BY DEF DInv
  <1>2. /\ stage = "workflows" /\ svc \in 1 .. Len(services) /\ entry \in 1 .. Len(Files(S))
        /\ E.scenario = Invalid /\ Len(Files(S)) \in Nat
    BY <1>1, RepoType DEF Progress, RejectScenario, AtEntry
  <1>3. /\ notes' = notes \cup {Note(E.file, "scenario")} /\ entry' = entry + 1
        /\ UNCHANGED <<repo, stage, services, svc, file, entities, relations>>
    BY DEF RejectScenario
  <1>4. \A s : Files(s)' = Files(s)
    BY <1>3, SameRepository
  <1>5. /\ \A s : HasService(s) => HasService(s)'
        /\ \A s, f : HasEntry(s, f) => HasEntry(s, f)'
        /\ \A s : HasDependencies(s) => HasDependencies(s)'
        /\ \A p : HasFile(p) => HasFile(p)'
    BY <1>3, StillThere
  <1> PICK s, f : s = S /\ f = E
    OBVIOUS
  <1>6. HasEntry(s, f)'
    BY <1>2, <1>3 DEF HasEntry
  <1>7. ASSUME NEW k \in 1 .. Len(services')
        PROVE  /\ ServiceAdded(k)' => HasService(services[k])'
               /\ \A j \in 1 .. Len(Files(services[k])') :
                    EntryAdded(k, j)' => HasEntry(services[k], Files(services[k])[j])'
               /\ k < svc' => HasDependencies(services[k])'
    <2>1. k \in 1 .. Len(services) /\ services'[k] = services[k] /\ Files(services[k])' = Files(services[k])
      BY <1>3, <1>4
    <2>2. ServiceAdded(k)' => ServiceAdded(k)
      BY <1>3 DEF ServiceAdded
    <2>3. ASSUME NEW j \in 1 .. Len(Files(services[k])), EntryAdded(k, j)'
          PROVE  HasEntry(services[k], Files(services[k])[j])'
      <3>1. CASE EntryAdded(k, j)
        BY <1>1, <1>3, <1>5, <2>1, <2>3, <3>1 DEF NothingMissing
      <3>2. CASE ~ EntryAdded(k, j)
        <4>1. k = svc /\ j = entry
          BY <1>2, <1>3, <2>1, <2>3, <3>2 DEF EntryAdded
        <4> QED
          BY <1>3, <1>4, <1>6, <2>1, <4>1 DEF S, E
      <3> QED
        BY <3>1, <3>2
    <2> QED
      BY <1>1, <1>3, <1>5, <2>1, <2>2, <2>3 DEF NothingMissing
  <1>8. NothingMissing'
    BY <1>1, <1>3, <1>5, <1>7, SameFiles DEF NothingMissing
  <1>9. NothingInvented'
    BY <1>1, <1>3, SameReasons, SameDocument DEF NothingInvented
  <1>10. Progress'
    BY <1>1, <1>2, <1>3, <1>4, SameFiles DEF Progress, S
  <1> QED
    BY <1>8, <1>9, <1>10 DEF DInv

\* A scenario becomes a workflow, related to its service and to the operations
\* that its steps name.
LEMMA WorkflowInvariant ==
  ASSUME DInv, AddWorkflow
  PROVE  DInv'
  <1>1. Progress /\ NothingMissing /\ NothingInvented
    BY DEF DInv
  <1>2. PICK s, f : s = S /\ f = E
    OBVIOUS
  <1>3. /\ stage = "workflows" /\ svc \in 1 .. Len(services) /\ entry \in 1 .. Len(Files(s))
        /\ f = Files(s)[entry] /\ f.scenario # Invalid /\ Len(Files(s)) \in Nat
        /\ s = services[svc] /\ s \in Services /\ s \in Range(services)
    <2>1. /\ stage = "workflows" /\ svc \in 1 .. Len(services) /\ services \in Seq(Services)
          /\ entry \in Nat \ {0} /\ entry <= Len(Files(S)) /\ E.scenario # Invalid
      BY <1>1 DEF Progress, AddWorkflow, AtEntry
    <2>2. Len(Files(S)) \in Nat
      BY <1>1, RepoType DEF Progress
    <2>3. s = services[svc] /\ f = Files(s)[entry]
      BY <1>2 DEF S, E
    <2> QED
      BY <1>2, <2>1, <2>2, <2>3 DEF Range
  <1>4. f \in Entries /\ f \in Range(Files(s))
    BY <1>1, <1>3, RepoType DEF Progress, Range
  <1> DEFINE wf    == WorkflowId(f.scenario.name)
             steps == IF Loads(s) THEN f.scenario.steps ELSE <<>>
             ops   == Exposed(s)
  <1>5. /\ f.file \in Paths /\ f.file \in Why
        /\ f.scenario.name \in Names /\ f.scenario.steps \in Seq(OpNames)
        /\ s.name \in Names
    BY <1>3, <1>4 DEF Entries, Services, Why
  <1>6. PICK n \in Nat : n = Len(steps) /\ DOMAIN steps = 1 .. n
    BY <1>5
  <1>7. ops \subseteq Operations
    BY <1>1, RepoType DEF Progress
  <1>8. /\ entry' = entry + 1
        /\ UNCHANGED <<repo, stage, services, svc, file>>
        /\ entities' = Add({wf}, f.file, entities)
    BY <1>2 DEF AddWorkflow
  <1>9. PICK found \in [DOMAIN steps -> ops \cup {None}] :
          /\ \A k \in DOMAIN steps : Finds(ops, steps[k], found[k])
          /\ relations' = relations \o BothWays(wf, ServiceId(s.name), f.file)
                                    \o StepRelations(wf, found, f.file)
          /\ notes' = notes \cup StepNotes(steps, found, f.file)
    BY <1>2 DEF AddWorkflow, Exposed
  <1> DEFINE pair == BothWays(wf, ServiceId(s.name), f.file)
             seqs == [k \in 1 .. n |-> IF found[k] = None THEN <<>> ELSE BothWays(wf, OperationId(found[k]), f.file)]
             rest == FlattenSeq(seqs)
  <1>10. relations' = relations \o pair \o rest
    BY <1>6, <1>9 DEF StepRelations
  <1>11. \A k \in 1 .. n : found[k] # None => found[k] \in ops /\ found[k].name = steps[k]
    BY <1>6, <1>7, <1>9, NoneAssumption DEF Finds
  <1>12. wf \in Ids /\ ServiceId(s.name) \in Ids /\ \A o \in ops : OperationId(o) \in Ids
    BY <1>5, <1>7, RelationTypes
  <1> HIDE DEF wf, ops, steps
  <1>13. /\ pair \in Seq(Relations)
         /\ Range(pair) = {Relation(wf, ServiceId(s.name), "verifies", f.file),
                           Relation(ServiceId(s.name), wf, "verified_by", f.file)}
    BY <1>5, <1>12, BothRelations
  <1>14. \A o \in ops : /\ BothWays(wf, OperationId(o), f.file) \in Seq(Relations)
                        /\ Range(BothWays(wf, OperationId(o), f.file)) =
                             {Relation(wf, OperationId(o), "verifies", f.file),
                              Relation(OperationId(o), wf, "verified_by", f.file)}
    BY <1>5, <1>12, BothRelations
  <1>15. seqs \in [1 .. n -> Seq(Relations)] /\ \A k \in 1 .. n :
           Range(seqs[k]) = IF found[k] = None THEN {} ELSE Range(BothWays(wf, OperationId(found[k]), f.file))
    <2>1. <<>> \in Seq(Relations) /\ Range(<<>>) = {}
      BY DEF Range
    <2> QED
      BY <1>11, <1>14, <2>1
  <1>16. rest \in Seq(Relations) /\ Range(rest) = UNION {Range(seqs[k]) : k \in 1 .. n}
    <2> HIDE DEF seqs
    <2> QED
      BY <1>15, Flattened
  <1> HIDE DEF seqs, rest, pair
  <1>17. \A k \in 1 .. n : found[k] # None =>
           Range(BothWays(wf, OperationId(found[k]), f.file)) \subseteq Range(rest)
    BY <1>15, <1>16
  <1>18. \A r \in Range(pair) \cup Range(rest) : Justified(r)
    <2>1. ASSUME NEW r \in Range(pair) PROVE Justified(r)
      BY <1>3, <1>4, <2>1 DEF Justified, pair, wf
    <2>2. ASSUME NEW r \in Range(rest) PROVE Justified(r)
      <3>1. PICK k \in 1 .. n : r \in Range(seqs[k])
        BY <1>16, <2>2
      <3>2. found[k] # None /\ r \in Range(BothWays(wf, OperationId(found[k]), f.file))
        BY <1>15, <3>1
      <3>3. found[k] \in ops /\ found[k].name = steps[k]
        BY <1>11, <3>2
      <3>4. steps[k] \in Range(f.scenario.steps)
        <4>1. Loads(s)
          BY <1>5, <1>6 DEF steps
        <4> QED
          BY <1>6, <4>1 DEF steps, Range
      <3> QED
        BY <1>3, <1>4, <3>2, <3>3, <3>4 DEF Justified, wf, ops
    <2> QED
      BY <2>1, <2>2
  <1>19. /\ relations' \in Seq(Relations)
         /\ Range(relations') = Range(relations) \cup Range(pair) \cup Range(rest)
         /\ \A r \in Range(relations') : Justified(r)'
    <2>1. relations \in Seq(Relations) /\ (\A r \in Range(relations) : Justified(r)) /\ UNCHANGED <<repo, services>>
      BY <1>1, <1>8 DEF Progress, NothingInvented
    <2> QED
      BY <1>10, <1>13, <1>16, <1>18, <2>1, EvenMoreRelations
  <1>20. /\ DOMAIN entities' = {wf} \cup DOMAIN entities /\ entities'[wf] = f.file
         /\ \A id \in DOMAIN entities \ {wf} : entities'[id] = entities[id]
    BY <1>8 DEF Add
  <1>21. \A t : Files(t)' = Files(t) /\ Exposed(t)' = Exposed(t) /\ Loads(t)' = Loads(t)
    BY <1>8, SameRepository
  <1>22. \A id \in DOMAIN entities' : Documented(id)'
    <2> SUFFICES ASSUME NEW id \in DOMAIN entities' PROVE Documented(id)'
      OBVIOUS
    <2>1. CASE id = wf
      <3>1. s \in Range(services)' /\ f \in Range(Files(s)') /\ f.scenario # Invalid /\ entities'[id] = f.file
        BY <1>3, <1>4, <1>8, <1>20, <1>21, <2>1
      <3> QED
        BY <2>1, <3>1 DEF Documented, wf
    <2>2. CASE id # wf
      BY <1>1, <1>8, <1>20, <2>2, SameDocument DEF NothingInvented
    <2> QED
      BY <2>1, <2>2
  <1>23. /\ \A t : HasService(t) => HasService(t)'
         /\ \A t, g : HasEntry(t, g) => HasEntry(t, g)'
         /\ \A t : HasDependencies(t) => HasDependencies(t)'
         /\ \A p : HasFile(p) => HasFile(p)'
    BY <1>8, <1>9, <1>19, <1>20, StillThere
  <1>24. HasEntry(s, f)'
    <2>1. Mutual(wf, ServiceId(s.name), f.file)'
      BY <1>13, <1>19 DEF Mutual, Recorded
    <2>2. ASSUME Loads(s), NEW name \in Range(f.scenario.steps) PROVE HasStep(s, f, name)'
      <3>1. PICK k \in 1 .. n : steps[k] = name
        BY <1>6, <2>2 DEF steps, Range
      <3>2. CASE found[k] = None
        BY <1>6, <1>9, <3>1, <3>2 DEF HasStep, StepNotes
      <3>3. CASE found[k] # None
        <4>1. found[k] \in ops /\ found[k].name = name
          BY <1>11, <3>1, <3>3
        <4>2. Mutual(wf, OperationId(found[k]), f.file)'
          BY <1>14, <1>17, <1>19, <3>3, <4>1 DEF Mutual, Recorded
        <4> QED
          BY <1>21, <4>1, <4>2 DEF HasStep, wf, ops
      <3> QED
        BY <3>2, <3>3
    <2> QED
      BY <1>3, <1>20, <1>21, <2>1, <2>2 DEF HasEntry, wf
  <1>25. ASSUME NEW k \in 1 .. Len(services')
         PROVE  /\ ServiceAdded(k)' => HasService(services[k])'
                /\ \A j \in 1 .. Len(Files(services[k])') :
                     EntryAdded(k, j)' => HasEntry(services[k], Files(services[k])[j])'
                /\ k < svc' => HasDependencies(services[k])'
    <2>1. k \in 1 .. Len(services) /\ services'[k] = services[k] /\ Files(services[k])' = Files(services[k])
      BY <1>8, <1>21
    <2>2. ServiceAdded(k)' => ServiceAdded(k)
      BY <1>8 DEF ServiceAdded
    <2>3. ASSUME NEW j \in 1 .. Len(Files(services[k])), EntryAdded(k, j)'
          PROVE  HasEntry(services[k], Files(services[k])[j])'
      <3>1. CASE EntryAdded(k, j)
        BY <1>1, <1>8, <1>23, <2>1, <2>3, <3>1 DEF NothingMissing
      <3>2. CASE ~ EntryAdded(k, j)
        <4>1. k = svc /\ j = entry
          BY <1>3, <1>8, <2>1, <2>3, <3>2 DEF EntryAdded
        <4> QED
          BY <1>3, <1>24, <2>1, <4>1
      <3> QED
        BY <3>1, <3>2
    <2> QED
      BY <1>1, <1>8, <1>23, <2>1, <2>2, <2>3 DEF NothingMissing
  <1>26. NothingMissing'
    BY <1>1, <1>8, <1>23, <1>25, SameFiles DEF NothingMissing
  <1>27. Progress'
    BY <1>1, <1>3, <1>8, <1>19, <1>21, SameFiles DEF Progress, S
  <1> QED
    BY <1>19, <1>22, <1>26, <1>27 DEF DInv, NothingInvented

\* The relations to the services that a service depends on complete it.
LEMMA DependenciesInvariant ==
  ASSUME DInv, AddDependencies
  PROVE  DInv'
  <1>1. Progress /\ NothingMissing /\ NothingInvented
    BY DEF DInv
  <1>2. PICK s : s = S
    OBVIOUS
  <1>3. /\ stage = "workflows" /\ svc \in 1 .. Len(services) /\ Len(services) \in Nat
        /\ entry > Len(Files(s)) /\ Len(Files(s)) \in Nat /\ entry \in Nat
        /\ s = services[svc] /\ s \in Services /\ s \in Range(services)
    <2>1. /\ stage = "workflows" /\ svc \in 1 .. Len(services) /\ services \in Seq(Services)
          /\ entry > Len(Files(S)) /\ entry \in Nat
      BY <1>1 DEF Progress, AddDependencies
    <2>2. Len(Files(S)) \in Nat
      BY <1>1, RepoType DEF Progress
    <2> QED
      BY <1>2, <2>1, <2>2 DEF S, Range
  <1>4. s.name \in Names /\ s.deps \in Seq(Names)
    BY <1>3 DEF Services
  <1> DEFINE rs == [k \in DOMAIN s.deps |-> Relation(ServiceId(s.name), ServiceId(s.deps[k]), "depends_on", None)]
  <1>5. /\ relations' = relations \o rs
        /\ svc' = svc + 1 /\ stage' = "services"
        /\ UNCHANGED <<repo, services, entry, file, entities, notes>>
    BY <1>2 DEF AddDependencies
  <1>6. \A name \in Range(s.deps) :
          /\ name \in Names
          /\ Relation(ServiceId(s.name), ServiceId(name), "depends_on", None) \in Relations
    <2>1. \A name \in Range(s.deps) : name \in Names
      BY <1>4 DEF Range
    <2> QED
      BY <1>4, <2>1, RelationTypes DEF Why
  <1>7. /\ rs \in Seq(Relations)
        /\ Range(rs) = {Relation(ServiceId(s.name), ServiceId(name), "depends_on", None) : name \in Range(s.deps)}
    <2>1. DOMAIN s.deps = 1 .. Len(s.deps) /\ Len(s.deps) \in Nat
      BY <1>4
    <2>2. \A k \in DOMAIN s.deps : s.deps[k] \in Range(s.deps)
      BY DEF Range
    <2>3. rs \in [1 .. Len(s.deps) -> Relations]
      BY <1>6, <2>1, <2>2
    <2>4. Range(rs) = {Relation(ServiceId(s.name), ServiceId(s.deps[k]), "depends_on", None) : k \in DOMAIN s.deps}
      BY DEF Range
    <2> HIDE DEF rs
    <2>5. Range(s.deps) = {s.deps[k] : k \in DOMAIN s.deps}
      BY DEF Range
    <2>6. rs \in Seq(Relations)
      BY <2>1, <2>3
    <2> QED
      BY <2>4, <2>5, <2>6
  <1> HIDE DEF rs
  <1>8. /\ relations' \in Seq(Relations)
        /\ Range(relations') = Range(relations) \cup Range(rs)
        /\ \A r \in Range(relations') : Justified(r)'
    <2>1. \A r \in Range(rs) : Justified(r)
      BY <1>3, <1>7 DEF Justified
    <2>2. relations \in Seq(Relations) /\ (\A r \in Range(relations) : Justified(r)) /\ UNCHANGED <<repo, services>>
      BY <1>1, <1>5 DEF Progress, NothingInvented
    <2> QED
      BY <1>5, <1>7, <2>1, <2>2, MoreRelations
  <1>9. \A t : Files(t)' = Files(t)
    BY <1>5, SameRepository
  <1>10. \A id \in DOMAIN entities' : Documented(id)'
    BY <1>1, <1>5, SameDocument DEF NothingInvented
  <1>11. /\ \A t : HasService(t) => HasService(t)'
         /\ \A t, g : HasEntry(t, g) => HasEntry(t, g)'
         /\ \A t : HasDependencies(t) => HasDependencies(t)'
         /\ \A p : HasFile(p) => HasFile(p)'
    BY <1>5, <1>8, StillThere
  <1>12. HasDependencies(s)'
    BY <1>7, <1>8 DEF HasDependencies, Recorded
  <1>13. ASSUME NEW k \in 1 .. Len(services')
         PROVE  /\ ServiceAdded(k)' => HasService(services[k])'
                /\ \A j \in 1 .. Len(Files(services[k])') :
                     EntryAdded(k, j)' => HasEntry(services[k], Files(services[k])[j])'
                /\ k < svc' => HasDependencies(services[k])'
    <2>1. k \in 1 .. Len(services) /\ services'[k] = services[k] /\ Files(services[k])' = Files(services[k])
      BY <1>5, <1>9
    <2>2. ServiceAdded(k)' => ServiceAdded(k)
      BY <1>3, <1>5 DEF ServiceAdded
    <2>3. \A j \in 1 .. Len(Files(services[k])) : EntryAdded(k, j)' => EntryAdded(k, j)
      BY <1>3, <1>5, <2>1 DEF EntryAdded
    <2>4. k < svc' => k < svc \/ services[k] = s
      BY <1>3, <1>5, <2>1
    <2> QED
      BY <1>1, <1>5, <1>11, <1>12, <2>1, <2>2, <2>3, <2>4 DEF NothingMissing
  <1>14. NothingMissing'
    BY <1>1, <1>5, <1>11, <1>13, SameFiles DEF NothingMissing
  <1>15. Progress'
    BY <1>1, <1>3, <1>5, <1>8, SameFiles DEF Progress
  <1> QED
    BY <1>8, <1>10, <1>14, <1>15 DEF DInv, NothingInvented

\* A file and its owners are added, or nothing if it has neither service nor owner.
LEMMA FileInvariant ==
  ASSUME DInv, AddFile
  PROVE  DInv'
  <1>1. Progress /\ NothingMissing /\ NothingInvented
    BY DEF DInv
  <1>2. PICK p : p = Walked[file]
    OBVIOUS
  <1>3. /\ stage = "services" /\ svc > Len(services) /\ svc \in 1 .. Len(services) + 1 /\ Len(services) \in Nat
        /\ file \in 1 .. Len(Walked) /\ Len(Walked) \in Nat
        /\ p \in Paths /\ p \in Range(Walked)
    <2>1. Walked \in Seq(Paths)
      BY <1>1, RepoType DEF Progress
    <2> QED
      BY <1>1, <1>2, <2>1 DEF Progress, AddFile, Range
  <1> DEFINE k  == ServiceOf(p)
             os == Owners(p)
             rs == IF k = 0 THEN <<>> ELSE <<Relation(FileId(p), ServiceId(services[k].name), "contains", p)>>
             ts == [j \in DOMAIN os |-> Relation(FileId(p), OwnerId(os[j]), "owned_by", None)]
  <1>4. /\ relations' = relations \o rs \o ts
        /\ entities' = Add({OwnerId(os[j]) : j \in DOMAIN os}, None,
                           Add(IF k = 0 /\ os = <<>> THEN {} ELSE {FileId(p)}, p, entities))
        /\ file' = file + 1
        /\ UNCHANGED <<repo, stage, services, svc, entry, notes>>
    BY <1>2 DEF AddFile
  <1>5. os \in Seq(Names) /\ k \in 0 .. Len(services) /\ (k # 0 => services[k] \in Range(services))
    BY <1>1, OwnersType, ServiceOfType DEF Progress
  <1> HIDE DEF k, os
  <1>6. k # 0 => services[k].name \in Names
    <2>1. k # 0 => services[k] \in Services
      BY <1>1, <1>5 DEF Progress
    <2> QED
      BY <2>1 DEF Services
  <1>7. /\ rs \in Seq(Relations)
        /\ Range(rs) = IF k = 0 THEN {} ELSE {Relation(FileId(p), ServiceId(services[k].name), "contains", p)}
    <2>1. CASE k = 0
      BY <2>1 DEF Range
    <2>2. CASE k # 0
      <3>1. PICK r : r = Relation(FileId(p), ServiceId(services[k].name), "contains", p)
        OBVIOUS
      <3>2. r \in Relations
        BY <1>3, <1>6, <2>2, <3>1, RelationTypes DEF Why
      <3>3. <<r>> \in Seq(Relations) /\ Range(<<r>>) = {r}
        BY <3>2 DEF Range
      <3> QED
        BY <2>2, <3>1, <3>3
    <2> QED
      BY <2>1, <2>2
  <1>8. \A o \in Range(os) : o \in Names /\ Relation(FileId(p), OwnerId(o), "owned_by", None) \in Relations
    <2>1. \A o \in Range(os) : o \in Names
      BY <1>5 DEF Range
    <2> QED
      BY <1>3, <2>1, RelationTypes DEF Why
  <1>9. /\ ts \in Seq(Relations)
        /\ Range(ts) = {Relation(FileId(p), OwnerId(o), "owned_by", None) : o \in Range(os)}
        /\ {OwnerId(os[j]) : j \in DOMAIN os} = {OwnerId(o) : o \in Range(os)}
    <2>1. DOMAIN os = 1 .. Len(os) /\ Len(os) \in Nat
      BY <1>5
    <2>2. \A j \in DOMAIN os : os[j] \in Range(os)
      BY DEF Range
    <2>3. ts \in [1 .. Len(os) -> Relations]
      BY <1>8, <2>1, <2>2
    <2>4. Range(ts) = {Relation(FileId(p), OwnerId(os[j]), "owned_by", None) : j \in DOMAIN os}
      BY DEF Range
    <2> HIDE DEF ts
    <2>5. Range(os) = {os[j] : j \in DOMAIN os}
      BY DEF Range
    <2>6. ts \in Seq(Relations)
      BY <2>1, <2>3
    <2> QED
      BY <2>4, <2>5, <2>6
  <1> HIDE DEF rs, ts
  <1>10. /\ relations' \in Seq(Relations)
         /\ Range(relations') = Range(relations) \cup Range(rs) \cup Range(ts)
         /\ \A r \in Range(relations') : Justified(r)'
    <2>1. \A r \in Range(rs) \cup Range(ts) : Justified(r)
      BY <1>3, <1>7, <1>9 DEF Justified, k, os
    <2>2. relations \in Seq(Relations) /\ (\A r \in Range(relations) : Justified(r)) /\ UNCHANGED <<repo, services>>
      BY <1>1, <1>4 DEF Progress, NothingInvented
    <2> QED
      BY <1>4, <1>7, <1>9, <2>1, <2>2, EvenMoreRelations
  <1>11. /\ DOMAIN entities \subseteq DOMAIN entities'
         /\ \A o \in Range(os) : OwnerId(o) \in DOMAIN entities'
         /\ \A id \in DOMAIN entities' :
              \/ id = FileId(p)
              \/ \E o \in Range(os) : id = OwnerId(o)
              \/ id \in DOMAIN entities /\ entities'[id] = entities[id]
    <2> DEFINE fileIds == IF k = 0 /\ os = <<>> THEN {} ELSE {FileId(p)}
               Base == Add(fileIds, p, entities)
    <2>1. /\ DOMAIN Base = fileIds \cup DOMAIN entities
          /\ \A id \in DOMAIN entities \ fileIds : Base[id] = entities[id]
          /\ fileIds \subseteq {FileId(p)}
      BY DEF Add
    <2>2. entities' = Add({OwnerId(o) : o \in Range(os)}, None, Base)
      BY <1>4, <1>9
    <2> HIDE DEF Base, fileIds
    <2>3. /\ DOMAIN entities' = {OwnerId(o) : o \in Range(os)} \cup DOMAIN Base
          /\ \A id \in DOMAIN Base \ {OwnerId(o) : o \in Range(os)} : entities'[id] = Base[id]
      BY <2>2 DEF Add
    <2> QED
      BY <2>1, <2>3
  <1>12. /\ \A t : Files(t)' = Files(t) /\ Exposed(t)' = Exposed(t)
         /\ \A q : ServiceOf(q)' = ServiceOf(q) /\ Owners(q)' = Owners(q)
    BY <1>4, SameRepository
  <1>13. \A id \in DOMAIN entities' : Documented(id)'
    <2> SUFFICES ASSUME NEW id \in DOMAIN entities' PROVE Documented(id)'
      OBVIOUS
    <2>1. p \in Range(Walked)' /\ Owners(p)' = os
      BY <1>3, <1>4, <1>12, SameFiles DEF os
    <2>2. CASE id = FileId(p)
      BY <2>1, <2>2 DEF Documented
    <2>3. CASE \E o \in Range(os) : id = OwnerId(o)
      BY <2>1, <2>3 DEF Documented
    <2>4. CASE id \in DOMAIN entities /\ entities'[id] = entities[id]
      BY <1>1, <1>4, <2>4, SameDocument DEF NothingInvented
    <2> QED
      BY <1>11, <2>2, <2>3, <2>4
  <1>14. /\ \A t : HasService(t) => HasService(t)'
         /\ \A t, g : HasEntry(t, g) => HasEntry(t, g)'
         /\ \A t : HasDependencies(t) => HasDependencies(t)'
         /\ \A q : HasFile(q) => HasFile(q)'
    BY <1>4, <1>10, <1>11, StillThere
  <1>15. HasFile(p)'
    <2>1. ServiceOf(p)' = k /\ Owners(p)' = os /\ services' = services
      BY <1>4, <1>12 DEF k, os
    <2>2. k # 0 => Relation(FileId(p), ServiceId(services[k].name), "contains", p) \in Range(relations')
      BY <1>7, <1>10
    <2>3. \A o \in Range(os) : Relation(FileId(p), OwnerId(o), "owned_by", None) \in Range(relations')
      BY <1>9, <1>10
    <2> QED
      BY <1>11, <2>1, <2>2, <2>3 DEF HasFile, Recorded
  <1>16. ASSUME NEW i \in 1 .. Len(Walked'), i < file' PROVE HasFile(Walked[i])'
    <2>1. i < file \/ Walked[i] = p
      BY <1>2, <1>3, <1>4, <1>16, SameFiles
    <2> QED
      BY <1>1, <1>4, <1>14, <1>15, <1>16, <2>1, SameFiles DEF NothingMissing
  <1>17. NothingMissing'
    BY <1>1, <1>4, <1>12, <1>14, <1>16, SameFiles DEF NothingMissing, ServiceAdded, EntryAdded
  <1>18. Progress'
    BY <1>1, <1>3, <1>4, <1>10, SameFiles DEF Progress
  <1> QED
    BY <1>10, <1>13, <1>17, <1>18 DEF DInv, NothingInvented

\* A model that is complete stays so while it is used.
LEMMA UsingTheModel ==
  ASSUME DInv, UNCHANGED <<repo, services, svc, entry, file, entities, relations, notes>>,
         stage # "workflows", svc = Len(services) + 1, file = Len(Walked) + 1,
         stage' \notin {"resolve", "failed", "services", "workflows"}
  PROVE  DInv'
  <1>1. Progress /\ NothingMissing /\ NothingInvented
    BY DEF DInv
  <1>2. /\ \A t : Files(t)' = Files(t) /\ Exposed(t)' = Exposed(t)
        /\ \A q : ServiceOf(q)' = ServiceOf(q) /\ Owners(q)' = Owners(q)
    BY SameRepository
  <1>3. /\ \A t : HasService(t) => HasService(t)'
        /\ \A t, g : HasEntry(t, g) => HasEntry(t, g)'
        /\ \A t : HasDependencies(t) => HasDependencies(t)'
        /\ \A q : HasFile(q) => HasFile(q)'
    BY StillThere
  <1>4. NothingMissing'
    <2>1. \A k \in 1 .. Len(services) : (ServiceAdded(k)' => ServiceAdded(k))
      BY DEF ServiceAdded
    <2>2. \A k \in 1 .. Len(services) : \A j \in 1 .. Len(Files(services[k])) :
            EntryAdded(k, j)' => EntryAdded(k, j)
      BY DEF EntryAdded
    <2> QED
      BY <1>1, <1>2, <1>3, <2>1, <2>2, SameFiles DEF NothingMissing
  <1>5. NothingInvented'
    BY <1>1, SameReasons, SameDocument DEF NothingInvented
  <1>6. Progress'
    BY <1>1, SameFiles DEF Progress
  <1> QED
    BY <1>4, <1>5, <1>6 DEF DInv

\* Nor does a step that leaves the model alone disturb it.
LEMMA LeavingTheModelAlone ==
  ASSUME DInv, UNCHANGED discoveryVars
  PROVE  DInv'
  <1>1. Progress /\ NothingMissing /\ NothingInvented
    BY DEF DInv
  <1>2. UNCHANGED <<repo, stage, services, svc, entry, file, entities, relations, notes>>
    BY DEF discoveryVars
  <1>3. /\ \A t : Files(t)' = Files(t) /\ Exposed(t)' = Exposed(t)
        /\ \A q : ServiceOf(q)' = ServiceOf(q) /\ Owners(q)' = Owners(q)
    BY <1>2, SameRepository
  <1>4. /\ \A t : HasService(t) => HasService(t)'
        /\ \A t, g : HasEntry(t, g) => HasEntry(t, g)'
        /\ \A t : HasDependencies(t) => HasDependencies(t)'
        /\ \A q : HasFile(q) => HasFile(q)'
    BY <1>2, StillThere
  <1>5. NothingMissing'
    BY <1>1, <1>2, <1>3, <1>4, SameFiles DEF NothingMissing, ServiceAdded, EntryAdded
  <1>6. NothingInvented'
    BY <1>1, <1>2, SameReasons, SameDocument DEF NothingInvented
  <1>7. Progress'
    BY <1>1, <1>2, <1>3, SameFiles DEF Progress, S
  <1> QED
    BY <1>5, <1>6, <1>7 DEF DInv

\* It is there before the first step.
LEMMA InitialInvariant ==
  ASSUME InitDiscovery
  PROVE  DInv
  <1>1. /\ repo \in Repos /\ stage = "resolve" /\ services = <<>> /\ svc = 1 /\ entry = 1 /\ file = 1
        /\ entities = <<>> /\ relations = <<>> /\ Len(services) = 0
    BY DEF InitDiscovery
  <1>2. Range(relations) = {} /\ DOMAIN entities = {}
    BY <1>1 DEF Range
  <1>3. Walked \in Seq(Paths) /\ Len(Walked) \in Nat
    BY <1>1, RepoType
  <1>4. Progress
    BY <1>1, <1>3 DEF Progress
  <1>5. NothingMissing
    BY <1>1, <1>3 DEF NothingMissing
  <1>6. NothingInvented
    BY <1>2 DEF NothingInvented
  <1> QED
    BY <1>4, <1>5, <1>6 DEF DInv

\* Every step of the discovery keeps it.
LEMMA DiscoverInvariant ==
  ASSUME DInv, Discover
  PROVE  DInv'
  <1>1. CASE Discovered
    <2>1. /\ svc \in 1 .. Len(services) + 1 /\ file \in 1 .. Len(Walked) + 1
          /\ Len(services) \in Nat /\ Walked \in Seq(Paths)
      BY RepoType DEF DInv, Progress
    <2>2. Len(Walked) \in Nat
      BY <2>1
    <2>3. /\ svc > Len(services) /\ file > Len(Walked)
          /\ stage = "services" /\ stage' = "discovered"
          /\ UNCHANGED <<repo, services, svc, entry, file, entities, relations, notes>>
      BY <1>1 DEF Discovered
    <2>4. svc = Len(services) + 1 /\ file = Len(Walked) + 1
      BY <2>1, <2>2, <2>3
    <2> QED
      BY <2>3, <2>4, UsingTheModel
  <1> QED
    BY <1>1, ResolveInvariant, ServiceInvariant, RejectedScenarioInvariant, WorkflowInvariant,
       DependenciesInvariant, FileInvariant DEF Discover

-----------------------------------------------------------------------------
(* A complete model                                                        *)

\* What is added to a finite model is finite.
LEMMA AddFinite ==
  ASSUME NEW model, IsFiniteSet(DOMAIN model), NEW ids, IsFiniteSet(ids), NEW what
  PROVE  IsFiniteSet(DOMAIN Add(ids, what, model))
  <1>1. DOMAIN Add(ids, what, model) = ids \cup DOMAIN model
    BY DEF Add
  <1> QED
    BY <1>1, FS_Union

\* Discovering the model adds finitely many entities at a time.
LEMMA EntitiesFinite ==
  ASSUME DInv, Discover, IsFiniteSet(DOMAIN entities)
  PROVE  IsFiniteSet(DOMAIN entities')
  <1>1. CASE UNCHANGED entities
    BY <1>1
  <1>2. CASE AddService
    <2>1. PICK s : s = S
      OBVIOUS
    <2>2. PICK ops : ops = {OperationId(o) : o \in Exposed(s)}
      OBVIOUS
    <2>3. IsFiniteSet(ops)
      <3>1. IsFiniteSet(Exposed(s))
        BY RepoType DEF DInv, Progress
      <3>2. [o \in Exposed(s) |-> OperationId(o)] \in Surjection(Exposed(s), ops)
        BY <2>2 DEF Surjection
      <3> QED
        BY <3>1, <3>2, FS_Surjection DEF ExistsSurjection
    <2>4. IsFiniteSet({ServiceId(s.name)})
      BY FS_Singleton
    <2>5. IsFiniteSet(DOMAIN Add({ServiceId(s.name)}, None, entities))
      BY <2>4, AddFinite
    <2>6. \/ entities' = Add(ops, s.spec, Add({ServiceId(s.name)}, None, entities))
          \/ entities' = Add({ServiceId(s.name)}, None, entities)
      BY <1>2, <2>1, <2>2 DEF AddService, Exposed
    <2> QED
      BY <2>3, <2>5, <2>6, AddFinite
  <1>3. CASE AddWorkflow
    <2>1. PICK wf, f : entities' = Add({wf}, f, entities)
      BY <1>3 DEF AddWorkflow
    <2> QED
      BY <2>1, FS_Singleton, AddFinite
  <1>4. CASE AddFile
    <2>1. PICK p : p = Walked[file]
      OBVIOUS
    <2>2. PICK os : os = Owners(p)
      OBVIOUS
    <2>3. PICK owners, ids : owners = {OwnerId(os[j]) : j \in DOMAIN os} /\ ids \subseteq {FileId(p)}
                             /\ entities' = Add(owners, None, Add(ids, p, entities))
      BY <1>4, <2>1, <2>2 DEF AddFile
    <2>4. IsFiniteSet(owners)
      <3>1. os \in Seq(Names)
        BY <2>2, OwnersType DEF DInv, Progress
      <3>2. DOMAIN os = 1 .. Len(os) /\ Len(os) \in Nat
        BY <3>1
      <3>3. IsFiniteSet(DOMAIN os)
        BY <3>2, FS_Interval
      <3>4. [j \in DOMAIN os |-> OwnerId(os[j])] \in Surjection(DOMAIN os, owners)
        BY <2>3 DEF Surjection
      <3> QED
        BY <3>3, <3>4, FS_Surjection DEF ExistsSurjection
    <2>5. IsFiniteSet(ids)
      BY <2>3, FS_Singleton, FS_Subset
    <2>6. IsFiniteSet(DOMAIN Add(ids, p, entities))
      BY <2>5, AddFinite
    <2> QED
      BY <2>3, <2>4, <2>6, AddFinite
  <1> QED
    BY <1>1, <1>2, <1>3, <1>4
       DEF Discover, FailToResolve, ResolveServices, RejectScenario, AddDependencies, Discovered

\* A finite set in an order of its own is all there.
LEMMA InOrder ==
  ASSUME NEW T, IsFiniteSet(T)
  PROVE  SetToSeq(T) \in Seq(T) /\ Range(SetToSeq(T)) = T
  <1>1. PICK f : f \in Bijection(1 .. Cardinality(T), T)
    BY FS_CardinalityType DEF ExistsBijection
  <1>2. f \in [1 .. Cardinality(T) -> T] /\ IsInjective(f)
    BY <1>1 DEF Bijection, Injection, IsInjective
  <1>3. SetToSeq(T) \in [1 .. Cardinality(T) -> T] /\ IsInjective(SetToSeq(T))
    BY <1>2, Zenon DEF SetToSeq
  <1>4. SetToSeq(T) \in SetToSeqs(T)
    BY <1>3 DEF SetToSeqs, IsInjective
  <1> QED
    BY <1>4, InSomeOrder

\* Everything was added to a complete model.
LEMMA EverythingAdded ==
  ASSUME DInv, svc = Len(services) + 1, file = Len(Walked) + 1
  PROVE  /\ \A s \in Range(services) :
              /\ HasService(s) /\ HasDependencies(s)
              /\ \A f \in Range(Files(s)) : HasEntry(s, f)
         /\ \A p \in Range(Walked) : HasFile(p)
  <1>1. NothingMissing /\ services \in Seq(Services) /\ Len(services) \in Nat
    BY DEF DInv, Progress
  <1>2. Walked \in Seq(Paths) /\ \A s : Files(s) \in Seq(Entries)
    BY RepoType DEF DInv, Progress
  <1>3. ASSUME NEW s \in Range(services)
        PROVE  HasService(s) /\ HasDependencies(s) /\ \A f \in Range(Files(s)) : HasEntry(s, f)
    <2>1. PICK k \in 1 .. Len(services) : services[k] = s
      BY <1>1 DEF Range
    <2>2. k < svc
      BY <1>1, <2>1
    <2>3. HasService(s) /\ HasDependencies(s)
      BY <1>1, <2>1, <2>2 DEF NothingMissing, ServiceAdded
    <2>4. \A j \in 1 .. Len(Files(s)) : HasEntry(s, Files(s)[j])
      BY <1>1, <2>1, <2>2 DEF NothingMissing, EntryAdded
    <2>5. DOMAIN Files(s) = 1 .. Len(Files(s))
      BY <1>2
    <2> QED
      BY <2>3, <2>4, <2>5 DEF Range
  <1>4. ASSUME NEW p \in Range(Walked) PROVE HasFile(p)
    <2>1. Len(Walked) \in Nat
      BY <1>2
    <2>2. PICK i \in 1 .. Len(Walked) : Walked[i] = p
      BY <1>2 DEF Range
    <2> QED
      BY <1>1, <2>1, <2>2 DEF NothingMissing
  <1> QED
    BY <1>3, <1>4

\* Ids of different kinds are different, and those of one kind are told apart.
LEMMA IdsDiffer ==
  /\ \A p : FileId(p)[1] = "file"
  /\ \A n : ServiceId(n)[1] = "service" /\ WorkflowId(n)[1] = "workflow" /\ OwnerId(n)[1] = "owner"
  /\ \A o : OperationId(o)[1] = "operation"
  /\ \A p, q : FileId(p) = FileId(q) => p = q
  /\ \A m, n : ServiceId(m) = ServiceId(n) => m = n
  /\ \A m, n : WorkflowId(m) = WorkflowId(n) => m = n
  /\ \A m, n : OwnerId(m) = OwnerId(n) => m = n
  /\ \A o, q : OperationId(o) = OperationId(q) => o.route = q.route
  /\ \A n : OwnerId(n)[2] = n
  BY DEF FileId, ServiceId, WorkflowId, OwnerId, OperationId

\* The two relations of a pair.
LEMMA EitherWay ==
  ASSUME NEW wf, NEW target, NEW why, NEW r \in Range(BothWays(wf, target, why))
  PROVE  /\ (r.from = wf /\ r.to = target) \/ (r.from = target /\ r.to = wf)
         /\ r.kind \in {"verifies", "verified_by"}
  <1>1. r = Relation(wf, target, "verifies", why) \/ r = Relation(target, wf, "verified_by", why)
    <2> DEFINE a == Relation(wf, target, "verifies", why)
               b == Relation(target, wf, "verified_by", why)
    <2>1. r \in Range(<<a, b>>)
      BY DEF BothWays
    <2> HIDE DEF a, b
    <2>2. r = a \/ r = b
      BY <2>1 DEF Range
    <2> QED
      BY <2>2 DEF a, b
  <1> QED
    BY <1>1 DEF Relation

-----------------------------------------------------------------------------
(* The walk over a model is the one that is proved about                   *)

W == INSTANCE ReachableProofs
  WITH Links <- Relations, Models <- Seq(Relations), Starts <- Seq(Ids), Depths <- Nat

\* The walk is yet to begin.
Idle ==
  /\ at = "idle" /\ depth = 0 /\ pos = 1 /\ edge = 1
  /\ next = <<>> /\ paths = <<>>

\* The relations, seeds and depth the walk is instantiated with are as it assumes.
LEMMA WalkAssumptions ==
  /\ \A r \in Relations : r.from \in Ids /\ r.to \in Ids
  /\ Seq(Relations) \subseteq Seq(Relations) /\ Seq(Ids) \subseteq Seq(Ids) /\ Nat \subseteq Nat
  BY DEF Relations

LEMMA SameWalk ==
  ASSUME Walk!Walk
  PROVE  W!Walk
  <1>1. CASE Walk!BeginLevel
    BY <1>1 DEF Walk!BeginLevel, W!BeginLevel, Walk!GoesOn, W!GoesOn, Walk!Range, W!Range, W!Walk
  <1>2. CASE Walk!Follow
    BY <1>2 DEF Walk!Follow, W!Follow, Walk!InLevel, W!InLevel, Walk!Leads, W!Leads, Walk!Extended,
       W!Extended, Walk!PathTo, W!PathTo, Walk!Skips, W!Skips, Walk!Visited, W!Visited,
       Walk!Range, W!Range, W!Walk
  <1>3. CASE Walk!PassOver
    BY <1>3 DEF Walk!PassOver, W!PassOver, Walk!InLevel, W!InLevel, Walk!Leads, W!Leads,
       Walk!Skips, W!Skips, Walk!Visited, W!Visited,
       Walk!Range, W!Range, W!Walk
  <1>4. CASE Walk!NextEntity
    BY <1>4 DEF Walk!NextEntity, W!NextEntity, Walk!InLevel, W!InLevel, W!Walk
  <1>5. CASE Walk!EndLevel
    BY <1>5 DEF Walk!EndLevel, W!EndLevel, W!Walk
  <1>6. CASE Walk!Stop
    BY <1>6 DEF Walk!Stop, W!Stop, Walk!GoesOn, W!GoesOn, W!Walk
  <1> QED
    BY <1>1, <1>2, <1>3, <1>4, <1>5, <1>6 DEF Walk!Walk

\* A step of the walk keeps its invariant, and so does one that is not of it.
LEMMA WalkStep ==
  ASSUME W!IInv, Walk!Walk
  PROVE  W!IInv' /\ UNCHANGED <<relations, seeds, maxDepth>>
  <1>1. W!Walk
    BY SameWalk
  <1>2. W!IInv'
    BY <1>1, WalkAssumptions, W!WalkInductive DEF W!Next
  <1> QED
    BY <1>1, <1>2 DEF W!Walk, W!BeginLevel, W!Follow, W!PassOver, W!NextEntity, W!EndLevel, W!Stop

LEMMA WalkRests ==
  ASSUME W!IInv, UNCHANGED <<relations, walkVars>>
  PROVE  W!IInv'
  BY WalkAssumptions, W!WalkInductive DEF walkVars, W!vars

LEMMA WalkBegins == W!Init => W!IInv
  BY WalkAssumptions, W!WalkInitial

-----------------------------------------------------------------------------
(* The tools of the MCP server: the inductive invariant                    *)

\* The model is asked for at most once, and is finite.
Consulted ==
  /\ stage \in {"resolve", "services", "workflows", "discovered", "failed", "match"}
  /\ IsFiniteSet(DOMAIN entities)

\* The walk over the model, from what matches.
WalksFromMatches ==
  /\ maxDepth = 3
  /\ stage # "match" => Idle
  /\ stage = "match" => AboutContext /\ W!IInv /\ Range(seeds) = Matched

\* A context is told when the walk has ended, from what it reached.
ToldContext ==
  Answered("context") =>
    /\ stage = "match" /\ at = "done"
    /\ answer.matched = Matched
    /\ answer.related = Known \ OfKind(Known, "owner")
    /\ answer.owners = OfKind(Known, "owner")
    /\ answer.explanations = Explanations

\* Dependencies are told from a complete model.
ToldDependencies ==
  Answered("dependencies") =>
    /\ stage = "discovered" /\ ~AboutContext /\ call.id \in DOMAIN entities
    /\ answer.dependsOn = RelatedBy(call.id, "depends_on")
    /\ answer.consumedBy = ConsumersOf(call.id)
    /\ answer.exposes = RelatedBy(call.id, "exposes")

ToolInv == DInv /\ Consulted /\ WalksFromMatches /\ ToldContext /\ ToldDependencies

-----------------------------------------------------------------------------
(* The tools of the MCP server: the steps                                  *)

\* What matches and what is told is the same while the model, the call and the
\* walk are.
LEMMA SameAnswers ==
  ASSUME UNCHANGED <<repo, entities, relations, call>>
  PROVE  /\ Matched' = Matched /\ (AboutContext' <=> AboutContext)
         /\ \A id, kind : RelatedBy(id, kind)' = RelatedBy(id, kind)
         /\ \A id : ConsumersOf(id)' = ConsumersOf(id)
  BY DEF Matched, EntityMatches, TextOf, Terms, AboutContext, RelatedBy, ConsumersOf

LEMMA SameReached ==
  ASSUME UNCHANGED <<entities, paths>>
  PROVE  Known' = Known /\ Explanations' = Explanations /\ \A ids, k : OfKind(ids, k)' = OfKind(ids, k)
  BY DEF Known, Explanations, OfKind

\* Before anything is asked.
LEMMA InitialTools ==
  ASSUME InitTool
  PROVE  ToolInv
  <1>1. DInv
    BY InitialInvariant DEF InitTool
  <1>2. /\ stage = "resolve" /\ entities = <<>> /\ answer = None /\ maxDepth = 3
        /\ at = "idle" /\ depth = 0 /\ pos = 1 /\ edge = 1 /\ next = <<>> /\ paths = <<>>
    BY DEF InitTool, InitDiscovery, InitWalk, MaxDepth
  <1>3. IsFiniteSet(DOMAIN entities)
    <2>1. DOMAIN entities = {}
      BY <1>2
    <2> QED
      BY <2>1, FS_EmptySet
  <1> QED
    BY <1>1, <1>2, <1>3
       DEF ToolInv, Consulted, WalksFromMatches, Idle, ToldContext, ToldDependencies, Answered

\* A step that leaves the model and the walk alone keeps the invariant if its
\* answer is right.
LEMMA AnswerInvariant ==
  ASSUME ToolInv, UNCHANGED <<discoveryVars, call, walkVars>>, ToldContext', ToldDependencies'
  PROVE  ToolInv'
  <1>1. DInv /\ Consulted /\ WalksFromMatches
    BY DEF ToolInv
  <1>2. UNCHANGED <<repo, stage, entities, relations, paths, at, depth, pos, edge, next, seeds, maxDepth>>
    BY DEF discoveryVars, walkVars
  <1>3. DInv'
    BY <1>1, LeavingTheModelAlone
  <1>4. Consulted'
    BY <1>1, <1>2 DEF Consulted
  <1>5. WalksFromMatches'
    <2>1. W!IInv => W!IInv'
      BY <1>2, WalkRests
    <2>2. Matched' = Matched /\ (AboutContext' <=> AboutContext)
      BY <1>2, SameAnswers
    <2> QED
      BY <1>1, <1>2, <2>1, <2>2 DEF WalksFromMatches, Idle, Range
  <1> QED
    BY <1>3, <1>4, <1>5 DEF ToolInv

\* Every answer is as it should be.
LEMMA ToolAnswersInvariant ==
  ASSUME ToolInv,
         RefuseBlank \/ AnswerOwners \/ AnswerNoModel \/ AnswerContext \/ AnswerDependencies
  PROVE  ToolInv'
  <1>1. UNCHANGED <<discoveryVars, call, walkVars>>
    BY DEF RefuseBlank, AnswerOwners, AnswerNoModel, AnswerContext, AnswerDependencies
  <1>2. UNCHANGED <<repo, stage, entities, relations, paths, at>>
    BY <1>1 DEF discoveryVars, walkVars
  <1>3. /\ Matched' = Matched /\ (AboutContext' <=> AboutContext) /\ call' = call
        /\ \A id, kind : RelatedBy(id, kind)' = RelatedBy(id, kind)
        /\ \A id : ConsumersOf(id)' = ConsumersOf(id)
    BY <1>1, <1>2, SameAnswers
  <1>4. Known' = Known /\ Explanations' = Explanations /\ \A ids, k : OfKind(ids, k)' = OfKind(ids, k)
    BY <1>2, SameReached
  <1>5. CASE AnswerContext
    <2>1. /\ stage = "match" /\ at = "done"
          /\ answer'.is = "context"
          /\ answer'.matched = Matched /\ answer'.related = Known \ OfKind(Known, "owner")
          /\ answer'.owners = OfKind(Known, "owner") /\ answer'.explanations = Explanations
      BY <1>5 DEF AnswerContext
    <2>2. ToldContext'
      BY <1>2, <1>3, <1>4, <2>1 DEF ToldContext
    <2>3. ToldDependencies'
      BY <2>1 DEF ToldDependencies, Answered
    <2> QED
      BY <1>1, <2>2, <2>3, AnswerInvariant
  <1>6. CASE AnswerDependencies /\ call.id \in DOMAIN entities
    <2>1. /\ stage = "discovered" /\ ~AboutContext /\ call.id \in DOMAIN entities
          /\ answer'.is = "dependencies"
          /\ answer'.dependsOn = RelatedBy(call.id, "depends_on")
          /\ answer'.consumedBy = ConsumersOf(call.id)
          /\ answer'.exposes = RelatedBy(call.id, "exposes")
      BY <1>6 DEF AnswerDependencies, AboutContext
    <2>2. ToldContext'
      BY <2>1 DEF ToldContext, Answered
    <2>3. ToldDependencies'
      BY <1>2, <1>3, <2>1 DEF ToldDependencies
    <2> QED
      BY <1>1, <2>2, <2>3, AnswerInvariant
  <1>7. CASE RefuseBlank \/ AnswerOwners \/ AnswerNoModel \/ (AnswerDependencies /\ call.id \notin DOMAIN entities)
    <2>1. answer'.is \in {"error", "owners"}
      BY <1>7 DEF RefuseBlank, AnswerOwners, AnswerNoModel, AnswerDependencies, Error
    <2>2. ToldContext' /\ ToldDependencies'
      BY <2>1 DEF ToldContext, ToldDependencies, Answered
    <2> QED
      BY <1>1, <2>2, AnswerInvariant
  <1> QED
    BY <1>5, <1>6, <1>7

\* The model is discovered before anything is answered.
LEMMA LoadModelInvariant ==
  ASSUME ToolInv, LoadModel
  PROVE  ToolInv'
  <1>1. Discover /\ answer = None /\ UNCHANGED <<call, answer, walkVars>>
    BY DEF LoadModel
  <1>2. UNCHANGED <<paths, at, depth, pos, edge, next, seeds, maxDepth>>
    BY <1>1 DEF walkVars
  <1>3. DInv /\ Consulted /\ WalksFromMatches
    BY DEF ToolInv
  <1>4. /\ stage \in {"resolve", "services", "workflows"}
        /\ stage' \in {"failed", "services", "workflows", "discovered"}
    BY <1>1 DEF Discover, FailToResolve, ResolveServices, AddService, RejectScenario, AtEntry, AddWorkflow,
       AddDependencies, AddFile, Discovered
  <1>5. DInv'
    BY <1>1, <1>3, DiscoverInvariant
  <1>6. IsFiniteSet(DOMAIN entities')
    BY <1>1, <1>3, EntitiesFinite DEF Consulted
  <1>7. Consulted' /\ WalksFromMatches'
    BY <1>2, <1>3, <1>4, <1>6 DEF Consulted, WalksFromMatches, Idle
  <1>8. ToldContext' /\ ToldDependencies'
    BY <1>1 DEF ToldContext, ToldDependencies, Answered
  <1> QED
    BY <1>5, <1>7, <1>8 DEF ToolInv

\* Every entity of a model has one of its ids.
LEMMA EntitiesHaveIds ==
  ASSUME DInv
  PROVE  DOMAIN entities \subseteq Ids
  <1> SUFFICES ASSUME NEW id \in DOMAIN entities
               PROVE  id \in Ids
    OBVIOUS
  <1>1. /\ services \in Seq(Services) /\ repo \in Repos
        /\ \A s \in Range(services) : s \in Services
    BY DEF DInv, Progress, Range
  <1>2. /\ Walked \in Seq(Paths) /\ \A s : Files(s) \in Seq(Entries) /\ Exposed(s) \subseteq Operations
    BY <1>1, RepoType
  <1>3. /\ \A s \in Range(services) : s.name \in Names
        /\ \A s : \A o \in Exposed(s) : o.route \in Routes
        /\ \A p \in Range(Walked) : p \in Paths
    <2>1. \A s \in Range(services) : s.name \in Names
      BY <1>1 DEF Services
    <2>2. \A s : \A o \in Exposed(s) : o.route \in Routes
      BY <1>2 DEF Operations
    <2>3. \A p \in Range(Walked) : p \in Paths
      BY <1>2 DEF Range
    <2> QED
      BY <2>1, <2>2, <2>3
  <1>4. ASSUME NEW s, NEW f \in Range(Files(s)), f.scenario # Invalid PROVE f.scenario.name \in Names
    <2>1. f \in Entries
      BY <1>2 DEF Range
    <2> QED
      BY <1>4, <2>1 DEF Entries
  <1>5. ASSUME NEW p, NEW o \in Range(Owners(p)) PROVE o \in Names
    <2>1. Owners(p) \in Seq(Names)
      BY <1>1, OwnersType
    <2> QED
      BY <2>1 DEF Range
  <1>6. Documented(id)
    BY DEF DInv, NothingInvented
  <1>7. /\ \A n \in Names : ServiceId(n) \in Ids /\ WorkflowId(n) \in Ids /\ OwnerId(n) \in Ids
        /\ \A p \in Paths : FileId(p) \in Ids
        /\ \A o : o.route \in Routes => OperationId(o) \in Ids
    BY DEF ServiceId, WorkflowId, OwnerId, FileId, OperationId, Ids
  <1> QED
    BY <1>3, <1>4, <1>5, <1>6, <1>7 DEF Documented

\* The walk starts at what matches; where nothing does, it is over.
LEMMA MatchInvariant ==
  ASSUME ToolInv, Match
  PROVE  ToolInv'
  <1>1. DInv /\ Consulted /\ WalksFromMatches /\ ToldContext /\ ToldDependencies
    BY DEF ToolInv
  <1>2. /\ stage = "discovered" /\ stage' = "match" /\ AboutContext
        /\ seeds' = SetToSeq(Matched) /\ frontier' = seeds'
        /\ at' = IF Matched = {} THEN "done" ELSE "level"
        /\ UNCHANGED <<repo, services, svc, entry, file, entities, relations, notes, call, answer,
                       maxDepth, depth, pos, edge, next, paths>>
    BY DEF Match
  <1>3. DInv'
    <2>1. svc = Len(services) + 1 /\ file = Len(Walked) + 1
      BY <1>1, <1>2 DEF DInv, Progress
    <2> QED
      BY <1>1, <1>2, <2>1, UsingTheModel
  <1>4. Consulted'
    BY <1>1, <1>2 DEF Consulted
  <1>5. /\ maxDepth = 3 /\ depth = 0 /\ pos = 1 /\ edge = 1 /\ next = <<>> /\ paths = <<>>
        /\ relations \in Seq(Relations)
    BY <1>1, <1>2 DEF WalksFromMatches, Idle, DInv, Progress
  <1>6. seeds' \in Seq(Ids) /\ Range(seeds') = Matched
    <2>1. Matched \subseteq DOMAIN entities
      BY DEF Matched
    <2>2. IsFiniteSet(Matched)
      BY <1>1, <2>1, FS_Subset DEF Consulted
    <2>3. SetToSeq(Matched) \in Seq(Matched) /\ Range(SetToSeq(Matched)) = Matched
      BY <2>2, InOrder
    <2>4. Matched \subseteq Ids
      BY <1>1, <2>1, EntitiesHaveIds
    <2> HIDE DEF Matched
    <2> QED
      BY <1>2, <2>3, <2>4
  <1>7. W!IInv'
    <2>1. CASE Matched # {}
      <3>1. (W!Init)'
        BY <1>2, <1>5, <1>6, <2>1 DEF W!Init, W!InitWalk
      <3>2. (W!Init => W!IInv)'
        BY WalkBegins, PTL
      <3> QED
        BY <3>1, <3>2
    <2>2. CASE Matched = {}
      <3>1. at' = "done" /\ Range(seeds') = {} /\ DOMAIN paths' = {}
        BY <1>2, <1>5, <1>6, <2>2
      <3>2. seeds' = <<>> /\ frontier' = <<>>
        BY <1>2, <1>6, <3>1 DEF Range
      <3>3. W!Visited' = {}
        BY <3>1 DEF W!Visited, W!Range, Range
      <3>4. Len(frontier') = 0 /\ Len(next') = 0 /\ Len(relations') \in Nat
        BY <1>2, <1>5, <3>2
      <3>5. W!TypeOK'
        BY <1>2, <1>5, <1>6, <3>1, <3>2, <3>4 DEF W!TypeOK
      <3>6. W!Explained' /\ W!Levels' /\ W!Closed'
        BY <1>2, <1>5, <3>1, <3>2, <3>3, <3>4 DEF W!Explained, W!Levels, W!Closed
      <3> QED
        BY <3>5, <3>6 DEF W!IInv
    <2> QED
      BY <2>1, <2>2
  <1>8. Matched' = Matched /\ (AboutContext' <=> AboutContext)
    BY <1>2, SameAnswers
  <1>9. WalksFromMatches'
    BY <1>2, <1>5, <1>6, <1>7, <1>8 DEF WalksFromMatches, Range
  <1>10. ToldContext' /\ ToldDependencies'
    BY <1>1, <1>2 DEF ToldContext, ToldDependencies, Answered
  <1> QED
    BY <1>3, <1>4, <1>9, <1>10 DEF ToolInv

\* The walk goes on to its end.
LEMMA ReachContextInvariant ==
  ASSUME ToolInv, ReachContext
  PROVE  ToolInv'
  <1>1. DInv /\ Consulted /\ WalksFromMatches /\ ToldContext /\ ToldDependencies
    BY DEF ToolInv
  <1>2. stage = "match" /\ Walk!Walk /\ UNCHANGED <<discoveryVars, call, answer>>
    BY DEF ReachContext
  <1>3. UNCHANGED <<repo, stage, entities, relations>>
    BY <1>2 DEF discoveryVars
  <1>4. at # "done"
    BY <1>2 DEF Walk!Walk, Walk!BeginLevel, Walk!Follow, Walk!PassOver, Walk!NextEntity,
       Walk!InLevel, Walk!EndLevel, Walk!Stop
  <1>5. W!IInv' /\ UNCHANGED <<seeds, maxDepth>>
    BY <1>1, <1>2, WalkStep DEF WalksFromMatches
  <1>6. Matched' = Matched /\ (AboutContext' <=> AboutContext)
    BY <1>2, <1>3, SameAnswers
  <1>7. DInv'
    BY <1>1, <1>2, LeavingTheModelAlone
  <1>8. Consulted' /\ WalksFromMatches'
    BY <1>1, <1>2, <1>3, <1>5, <1>6 DEF Consulted, WalksFromMatches, Range
  <1>9. ToldContext' /\ ToldDependencies'
    BY <1>1, <1>2, <1>3, <1>4 DEF ToldContext, ToldDependencies, Answered
  <1> QED
    BY <1>7, <1>8, <1>9 DEF ToolInv

\* Nothing happens.
LEMMA ToolStutterInvariant ==
  ASSUME ToolInv, UNCHANGED toolVars
  PROVE  ToolInv'
  <1>1. UNCHANGED <<discoveryVars, call, answer, walkVars>>
    BY DEF toolVars
  <1>2. UNCHANGED <<repo, stage, entities, relations, paths, at>>
    BY <1>1 DEF discoveryVars, walkVars
  <1>3. ToldContext'
    BY <1>1, <1>2, SameAnswers, SameReached DEF ToolInv, ToldContext, Answered
  <1>4. ToldDependencies'
    BY <1>1, <1>2, SameAnswers DEF ToolInv, ToldDependencies, Answered
  <1> QED
    BY <1>1, <1>3, <1>4, AnswerInvariant

\* The invariant of the tools holds throughout every call.
THEOREM ToolInvariant == ToolSpec => []ToolInv
  <1>1. InitTool => ToolInv
    BY InitialTools
  <1>2. ASSUME ToolInv, [NextTool]_toolVars PROVE ToolInv'
    BY <1>2, ToolAnswersInvariant, LoadModelInvariant, MatchInvariant, ReachContextInvariant,
       ToolStutterInvariant DEF NextTool, Returned
  <1> QED
    BY <1>1, <1>2, PTL DEF ToolSpec

-----------------------------------------------------------------------------
(* Dependencies                                                            *)

\* What the relations of these two kinds lead from and to.
LEMMA WhatIsDeclared ==
  ASSUME DInv, NEW r, Recorded(r)
  PROVE  /\ r.kind = "depends_on" =>
              \E s \in Range(services) : \E name \in Range(s.deps) :
                r.from = ServiceId(s.name) /\ r.to = ServiceId(name)
         /\ r.kind = "exposes" =>
              \E s \in Range(services) : \E o \in Exposed(s) :
                r.from = ServiceId(s.name) /\ r.to = OperationId(o)
  <1>1. Justified(r)
    BY DEF DInv, NothingInvented, Recorded
  <1>2. \A a, b, kind, why :
          LET q == Relation(a, b, kind, why) IN q.from = a /\ q.to = b /\ q.kind = kind
    BY DEF Relation
  <1>3. CASE \E s \in Range(services) : \E o \in Exposed(s) :
               r = Relation(ServiceId(s.name), OperationId(o), "exposes", s.spec)
    BY <1>2, <1>3
  <1>4. CASE \E s \in Range(services) : \E f \in Range(Files(s)) :
               /\ f.scenario # Invalid
               /\ r \in Range(BothWays(WorkflowId(f.scenario.name), ServiceId(s.name), f.file))
    BY <1>4, EitherWay
  <1>5. CASE \E s \in Range(services) : \E f \in Range(Files(s)) : \E o \in Exposed(s) :
               /\ f.scenario # Invalid /\ o.name \in Range(f.scenario.steps)
               /\ r \in Range(BothWays(WorkflowId(f.scenario.name), OperationId(o), f.file))
    BY <1>5, EitherWay
  <1>6. CASE \E s \in Range(services) : \E name \in Range(s.deps) :
               r = Relation(ServiceId(s.name), ServiceId(name), "depends_on", None)
    BY <1>2, <1>6
  <1>7. CASE \E p \in Range(Walked) :
               /\ ServiceOf(p) # 0
               /\ r = Relation(FileId(p), ServiceId(services[ServiceOf(p)].name), "contains", p)
    BY <1>2, <1>7
  <1>8. CASE \E p \in Range(Walked) : \E o \in Range(Owners(p)) :
               r = Relation(FileId(p), OwnerId(o), "owned_by", None)
    BY <1>2, <1>8
  <1> QED
    BY <1>1, <1>3, <1>4, <1>5, <1>6, <1>7, <1>8 DEF Justified

\* Which relations of these kinds a complete model has.
LEMMA WhatIsRecorded ==
  ASSUME DInv, svc = Len(services) + 1, file = Len(Walked) + 1, NEW s \in Range(services)
  PROVE  /\ ServiceId(s.name) \in DOMAIN entities
         /\ \A name \in Range(s.deps) : \E r \in Range(relations) :
              r.from = ServiceId(s.name) /\ r.to = ServiceId(name) /\ r.kind = "depends_on"
         /\ \A o \in Exposed(s) : \E r \in Range(relations) :
              r.from = ServiceId(s.name) /\ r.to = OperationId(o) /\ r.kind = "exposes"
         /\ \A o \in Exposed(s) : OperationId(o) \in DOMAIN entities
  <1>1. HasService(s) /\ HasDependencies(s)
    BY EverythingAdded
  <1>2. \A a, b, kind, why :
          LET q == Relation(a, b, kind, why) IN q.from = a /\ q.to = b /\ q.kind = kind
    BY DEF Relation
  <1> QED
    BY <1>1, <1>2 DEF HasService, HasDependencies, Recorded

\* A service that is an entity is one that was declared.
LEMMA ServicesAreDeclared ==
  ASSUME DInv, NEW name, ServiceId(name) \in DOMAIN entities
  PROVE  \E s \in Range(services) : s.name = name
  <1>1. Documented(ServiceId(name))
    BY DEF DInv, NothingInvented
  <1> QED
    BY <1>1, IdsDiffer DEF Documented

\* What is told of a service's dependencies, and of its consumers.
LEMMA DependsOnIsDeclared ==
  ASSUME DInv, svc = Len(services) + 1, file = Len(Walked) + 1, NEW id, NEW x
  PROVE  x \in RelatedBy(id, "depends_on") <=>
           \E t \in Range(services) : \E s \in Range(services) :
             x = ServiceId(t.name) /\ ServiceId(s.name) = id /\ t.name \in Range(s.deps)
  <1>1. ASSUME x \in RelatedBy(id, "depends_on")
        PROVE  \E t \in Range(services) : \E s \in Range(services) :
                 x = ServiceId(t.name) /\ ServiceId(s.name) = id /\ t.name \in Range(s.deps)
    <2>1. PICK r \in Range(relations) : r.from = id /\ r.kind = "depends_on" /\ r.to = x
      BY <1>1 DEF RelatedBy
    <2>2. PICK s \in Range(services) : \E name \in Range(s.deps) : r.from = ServiceId(s.name) /\ r.to = ServiceId(name)
      BY <2>1, WhatIsDeclared DEF Recorded
    <2>3. PICK name \in Range(s.deps) : r.from = ServiceId(s.name) /\ r.to = ServiceId(name)
      BY <2>2
    <2>4. x \in DOMAIN entities
      BY <1>1 DEF RelatedBy
    <2>5. PICK t \in Range(services) : t.name = name
      BY <2>1, <2>3, <2>4, ServicesAreDeclared
    <2> QED
      BY <2>1, <2>3, <2>5
  <1>2. ASSUME NEW t \in Range(services), NEW s \in Range(services),
               x = ServiceId(t.name), ServiceId(s.name) = id, t.name \in Range(s.deps)
        PROVE  x \in RelatedBy(id, "depends_on")
    <2>1. \E r \in Range(relations) : r.from = id /\ r.to = x /\ r.kind = "depends_on"
      BY <1>2, WhatIsRecorded
    <2>2. x \in DOMAIN entities
      BY <1>2, WhatIsRecorded
    <2> QED
      BY <2>1, <2>2 DEF RelatedBy
  <1> QED
    BY <1>1, <1>2

LEMMA ConsumersAreDeclared ==
  ASSUME DInv, svc = Len(services) + 1, file = Len(Walked) + 1, NEW id \in DOMAIN entities, NEW x
  PROVE  x \in ConsumersOf(id) <=>
           \E t \in Range(services) : \E s \in Range(services) :
             x = ServiceId(t.name) /\ ServiceId(s.name) = id /\ s.name \in Range(t.deps)
  <1>1. ASSUME x \in ConsumersOf(id)
        PROVE  \E t \in Range(services) : \E s \in Range(services) :
                 x = ServiceId(t.name) /\ ServiceId(s.name) = id /\ s.name \in Range(t.deps)
    <2>1. PICK r \in Range(relations) : r.to = id /\ r.kind = "depends_on" /\ r.from = x
      BY <1>1 DEF ConsumersOf
    <2>2. PICK t \in Range(services) : \E name \in Range(t.deps) : r.from = ServiceId(t.name) /\ r.to = ServiceId(name)
      BY <2>1, WhatIsDeclared DEF Recorded
    <2>3. PICK name \in Range(t.deps) : r.from = ServiceId(t.name) /\ r.to = ServiceId(name)
      BY <2>2
    <2>4. PICK s \in Range(services) : s.name = name
      BY <2>1, <2>3, ServicesAreDeclared
    <2> QED
      BY <2>1, <2>3, <2>4
  <1>2. ASSUME NEW t \in Range(services), NEW s \in Range(services),
               x = ServiceId(t.name), ServiceId(s.name) = id, s.name \in Range(t.deps)
        PROVE  x \in ConsumersOf(id)
    <2>1. \E r \in Range(relations) : r.from = x /\ r.to = id /\ r.kind = "depends_on"
      BY <1>2, WhatIsRecorded
    <2>2. x \in DOMAIN entities
      BY <1>2, WhatIsRecorded
    <2> QED
      BY <2>1, <2>2 DEF ConsumersOf
  <1> QED
    BY <1>1, <1>2

\* What is told of the operations it exposes.
LEMMA ExposesIsDeclared ==
  ASSUME DInv, svc = Len(services) + 1, file = Len(Walked) + 1, NEW id, NEW x
  PROVE  x \in RelatedBy(id, "exposes") <=>
           \E s \in Range(services) : \E o \in Exposed(s) : ServiceId(s.name) = id /\ x = OperationId(o)
  <1>1. ASSUME x \in RelatedBy(id, "exposes")
        PROVE  \E s \in Range(services) : \E o \in Exposed(s) : ServiceId(s.name) = id /\ x = OperationId(o)
    <2>1. PICK r \in Range(relations) : r.from = id /\ r.kind = "exposes" /\ r.to = x
      BY <1>1 DEF RelatedBy
    <2> QED
      BY <2>1, WhatIsDeclared DEF Recorded
  <1>2. ASSUME NEW s \in Range(services), NEW o \in Exposed(s), ServiceId(s.name) = id, x = OperationId(o)
        PROVE  x \in RelatedBy(id, "exposes")
    <2>1. \E r \in Range(relations) : r.from = id /\ r.to = x /\ r.kind = "exposes"
      BY <1>2, WhatIsRecorded
    <2>2. x \in DOMAIN entities
      BY <1>2, WhatIsRecorded
    <2> QED
      BY <2>1, <2>2 DEF RelatedBy
  <1> QED
    BY <1>1, <1>2

\* The three together are the property.
LEMMA ToldAsDeclared ==
  ASSUME ToolInv
  PROVE  DependenciesAreDeclared
  <1> SUFFICES ASSUME Answered("dependencies")
               PROVE  LET id   == call.id
                          mine == {s \in DeclaredServices : ServiceId(s.name) = id}
                      IN /\ answer.dependsOn =
                              {ServiceId(t.name) : t \in {u \in DeclaredServices : \E s \in mine : u.name \in Range(s.deps)}}
                         /\ answer.consumedBy =
                              {ServiceId(t.name) : t \in {u \in DeclaredServices : \E s \in mine : s.name \in Range(u.deps)}}
                         /\ answer.exposes =
                              UNION {{OperationId(o) : o \in IF Loads(s) THEN repo.specs[s.spec] ELSE {}} : s \in mine}
    BY DEF DependenciesAreDeclared
  <1> DEFINE id   == call.id
             mine == {s \in DeclaredServices : ServiceId(s.name) = id}
  <1>1. /\ stage = "discovered" /\ id \in DOMAIN entities
        /\ answer.dependsOn = RelatedBy(id, "depends_on")
        /\ answer.consumedBy = ConsumersOf(id)
        /\ answer.exposes = RelatedBy(id, "exposes")
    BY DEF ToolInv, ToldDependencies
  <1>2. DInv /\ svc = Len(services) + 1 /\ file = Len(Walked) + 1
    BY <1>1 DEF ToolInv, DInv, Progress
  <1>3. answer.dependsOn =
          {ServiceId(t.name) : t \in {u \in DeclaredServices : \E s \in mine : u.name \in Range(s.deps)}}
    <2>1. \A x : x \in RelatedBy(id, "depends_on") <=>
            \E t \in Range(services) : \E s \in Range(services) :
              x = ServiceId(t.name) /\ ServiceId(s.name) = id /\ t.name \in Range(s.deps)
      BY <1>2, DependsOnIsDeclared
    <2> QED
      BY <1>1, <2>1 DEF DeclaredServices
  <1>4. answer.consumedBy =
          {ServiceId(t.name) : t \in {u \in DeclaredServices : \E s \in mine : s.name \in Range(u.deps)}}
    <2>1. \A x : x \in ConsumersOf(id) <=>
            \E t \in Range(services) : \E s \in Range(services) :
              x = ServiceId(t.name) /\ ServiceId(s.name) = id /\ s.name \in Range(t.deps)
      BY <1>1, <1>2, ConsumersAreDeclared
    <2> QED
      BY <1>1, <2>1 DEF DeclaredServices
  <1>5. answer.exposes = UNION {{OperationId(o) : o \in IF Loads(s) THEN repo.specs[s.spec] ELSE {}} : s \in mine}
    <2>1. \A x : x \in RelatedBy(id, "exposes") <=>
            \E s \in Range(services) : \E o \in Exposed(s) : ServiceId(s.name) = id /\ x = OperationId(o)
      BY <1>2, ExposesIsDeclared
    <2> QED
      BY <1>1, <2>1 DEF DeclaredServices, Exposed
  <1> QED
    BY <1>3, <1>4, <1>5

\* Of a service those of its declared dependencies that exist are told, as its
\* consumers exactly the services that declare it, and what its spec holds.
THEOREM DependenciesAreTold == ToolSpec => []DependenciesAreDeclared
  <1>1. ToolInv => DependenciesAreDeclared
    BY ToldAsDeclared
  <1> QED
    BY <1>1, ToolInvariant, PTL

-----------------------------------------------------------------------------
(* What is related to a query                                              *)

\* One relation further.
Further(rels, ids) == ids \cup {r.to : r \in {q \in rels : q.from \in ids}}

\* Three times one relation further.
LEMMA ThreeTimesFurther ==
  ASSUME NEW rels, NEW ids
  PROVE  Within3(rels, ids) = Further(rels, Further(rels, Further(rels, ids)))
  <1> DEFINE F(f) == f = [n \in 0 .. 3 |->
                            IF n = 0 THEN ids
                            ELSE f[n - 1] \cup {r.to : r \in {q \in rels : q.from \in f[n - 1]}}]
             one == Further(rels, ids)
             two == Further(rels, one)
             g == [n \in 0 .. 3 |-> IF n = 0 THEN ids ELSE IF n = 1 THEN one ELSE IF n = 2 THEN two
                                    ELSE Further(rels, two)]
             near == CHOOSE f : F(f)
  <1>1. Within3(rels, ids) = near[3]
    BY DEF Within3
  <1>2. F(g)
    <2>1. ASSUME NEW n \in 0 .. 3
          PROVE  g[n] = IF n = 0 THEN ids ELSE Further(rels, g[n - 1])
      <3>1. n \in {0, 1, 2, 3}
        OBVIOUS
      <3>2. g[0] = ids /\ g[1] = one /\ g[2] = two /\ g[3] = Further(rels, two)
        OBVIOUS
      <3> HIDE DEF g
      <3> QED
        BY <3>1, <3>2
    <2>2. g = [n \in 0 .. 3 |-> g[n]]
      OBVIOUS
    <2> HIDE DEF g
    <2> QED
      BY <2>1, <2>2 DEF Further
  <1>3. F(near)
    BY <1>2
  <1> HIDE DEF near
  <1>4. near[0] = ids
    BY <1>3
  <1>5. near[1] = one
    BY <1>3, <1>4 DEF Further
  <1>6. near[2] = two
    BY <1>3, <1>5 DEF Further
  <1>7. near[3] = Further(rels, two)
    BY <1>3, <1>6 DEF Further
  <1> QED
    BY <1>1, <1>7

\* Everything within three relations of what matches was reached, and nothing else.
LEMMA ContextIsWithin ==
  ASSUME W!IInv, at = "done", maxDepth = 3
  PROVE  Range(seeds) \cup DOMAIN paths = Within3(Range(relations), Range(seeds))
  <1>1. W!Visited = W!Ball[3]
    BY WalkAssumptions, W!EndIsShortest DEF W!WalkIsShortest
  <1>2. W!Ball[3] = Further(Range(relations), Further(Range(relations), Further(Range(relations), Range(seeds))))
    <2>1. /\ W!Ball[0] = W!Range(seeds)
          /\ \A k \in 1 .. 3 : W!Ball[k] = W!Ball[k - 1] \cup W!Beyond(W!Range(relations), W!Ball[k - 1])
      BY WalkAssumptions, W!BallGrows
    <2>2. W!Range(seeds) = Range(seeds) /\ W!Range(relations) = Range(relations)
      BY DEF W!Range, Range
    <2>3. \A rels, ids : ids \cup W!Beyond(rels, ids) = Further(rels, ids)
      BY DEF W!Beyond, Further
    <2>4. \A k \in 1 .. 3 : W!Ball[k] = Further(Range(relations), W!Ball[k - 1])
      BY <2>1, <2>2, <2>3
    <2>5. W!Ball[1] = Further(Range(relations), W!Ball[0])
      BY <2>4
    <2>6. W!Ball[2] = Further(Range(relations), W!Ball[1])
      BY <2>4
    <2>7. W!Ball[3] = Further(Range(relations), W!Ball[2])
      BY <2>4
    <2> QED
      BY <2>1, <2>2, <2>5, <2>6, <2>7
  <1>3. W!Visited = Range(seeds) \cup DOMAIN paths
    BY DEF W!Visited, W!Range, Range
  <1> QED
    BY <1>1, <1>2, <1>3, ThreeTimesFurther

\* The explanations alone lead to whatever was reached.
LEMMA ExplanationsLead ==
  ASSUME W!IInv, at = "done", maxDepth = 3, NEW id \in DOMAIN paths, NEW rels, Range(paths[id]) \subseteq rels
  PROVE  id \in Within3(rels, Range(seeds))
  <1> DEFINE p == paths[id]
             one == Further(rels, Range(seeds))
             two == Further(rels, one)
             three == Further(rels, two)
  <1>1. p \in Seq(Relations) /\ p # <<>>
    BY DEF W!IInv, W!TypeOK
  <1>2. W!Explains(p, id) /\ Len(p) <= 3
    BY WalkAssumptions, W!PathsHold DEF W!PathsExplain
  <1>3. Len(p) \in 1 .. 3
    <2>1. Len(p) \in Nat \ {0}
      BY <1>1, EmptySeq
    <2>2. PICK n \in Nat \ {0} : n = Len(p)
      BY <2>1
    <2>3. n <= 3
      BY <1>2, <2>2
    <2>4. n \in 1 .. 3
      BY <2>3
    <2> QED
      BY <2>2, <2>4
  <1>4. /\ p[1].from \in Range(seeds) /\ p[Len(p)].to = id
        /\ \A k \in 1 .. Len(p) - 1 : p[k].to = p[k + 1].from
    BY <1>2 DEF W!Explains, W!Range, Range
  <1>5. \A k \in 1 .. Len(p) : p[k] \in rels
    BY <1>1 DEF Range
  <1> HIDE DEF p
  <1>6. p[1].to \in one
    BY <1>3, <1>4, <1>5 DEF Further
  <1>7. one \subseteq two /\ two \subseteq three
    BY DEF Further
  <1> HIDE DEF one
  <1>8. Len(p) >= 2 => p[2].to \in two
    <2>1. ASSUME Len(p) >= 2 PROVE p[2] \in rels /\ p[2].from = p[1].to
      <3>1. 1 \in 1 .. Len(p) - 1 /\ 2 \in 1 .. Len(p)
        BY <1>3, <2>1
      <3> QED
        BY <1>4, <1>5, <3>1
    <2> QED
      BY <1>6, <2>1 DEF Further
  <1> HIDE DEF two
  <1>9. Len(p) = 3 => p[3].to \in three
    <2>1. ASSUME Len(p) = 3 PROVE p[3] \in rels /\ p[3].from = p[2].to
      <3>1. 2 \in 1 .. Len(p) - 1 /\ 3 \in 1 .. Len(p)
        BY <2>1
      <3> QED
        BY <1>4, <1>5, <3>1
    <2> QED
      BY <1>8, <2>1 DEF Further
  <1> HIDE DEF three
  <1>10. id \in three
    <2>1. Len(p) = 1 \/ Len(p) = 2 \/ Len(p) = 3
      BY <1>3
    <2> QED
      BY <1>4, <1>6, <1>7, <1>8, <1>9, <2>1
  <1> QED
    BY <1>10, ThreeTimesFurther DEF three, two, one

\* What is told is what was reached.
LEMMA ToldAsReached ==
  ASSUME ToolInv
  PROVE  ContextIsExact
  <1> SUFFICES ASSUME Answered("context")
               PROVE  LET told == answer.matched \cup answer.related \cup answer.owners
                      IN /\ told = Within3(Range(relations), answer.matched) \cap DOMAIN entities
                         /\ answer.matched \cap (answer.related \cup answer.owners) = {}
                         /\ answer.explanations \subseteq Range(relations)
                         /\ told \subseteq Within3(answer.explanations, answer.matched)
    BY DEF ContextIsExact
  <1> DEFINE told == answer.matched \cup answer.related \cup answer.owners
  <1>1. stage = "match" /\ at = "done" /\ W!IInv /\ Range(seeds) = Matched /\ maxDepth = 3
    BY DEF ToolInv, ToldContext, WalksFromMatches
  <1>2. answer.matched = Range(seeds) /\ answer.explanations = Explanations
    BY <1>1 DEF ToolInv, ToldContext
  <1>3. answer.related \cup answer.owners = Known
    BY DEF ToolInv, ToldContext, OfKind
  <1>4. Range(seeds) \subseteq DOMAIN entities
    BY <1>1 DEF Matched
  <1>5. told = Within3(Range(relations), answer.matched) \cap DOMAIN entities
    <2>1. Range(seeds) \cup DOMAIN paths = Within3(Range(relations), Range(seeds))
      BY <1>1, ContextIsWithin
    <2> QED
      BY <1>2, <1>3, <1>4, <2>1 DEF Known
  <1>6. W!PathsExplain
    BY <1>1, WalkAssumptions, W!PathsHold
  <1>7. answer.matched \cap (answer.related \cup answer.owners) = {}
    BY <1>2, <1>3, <1>6 DEF W!PathsExplain, Known, W!Range, Range
  <1>8. answer.explanations \subseteq Range(relations)
    <2>1. ASSUME NEW id \in DOMAIN paths PROVE Range(paths[id]) \subseteq Range(relations)
      <3>1. paths[id] \in Seq(Relations)
        BY <1>1 DEF W!IInv, W!TypeOK
      <3>2. \A k \in 1 .. Len(paths[id]) : paths[id][k] \in Range(relations)
        BY <1>6 DEF W!PathsExplain, W!Explains, W!Range, Range
      <3> QED
        BY <3>1, <3>2 DEF Range
    <2> QED
      BY <1>2, <2>1 DEF Explanations, Known
  <1>9. told \subseteq Within3(answer.explanations, answer.matched)
    <2>1. ASSUME NEW id \in Known PROVE id \in Within3(Explanations, Range(seeds))
      <3>1. id \in DOMAIN paths /\ Range(paths[id]) \subseteq Explanations
        BY <2>1 DEF Known, Explanations
      <3> QED
        BY <1>1, <3>1, ExplanationsLead
    <2>2. Range(seeds) \subseteq Within3(Explanations, Range(seeds))
      <3>1. \A rels, ids : ids \subseteq Further(rels, ids)
        BY DEF Further
      <3> QED
        BY <3>1, ThreeTimesFurther
    <2> QED
      BY <1>2, <1>3, <2>1, <2>2
  <1> QED
    BY <1>5, <1>7, <1>8, <1>9

\* An agent is told exactly what matches its query and what is at most three
\* relations away, and the relations that lead there.
THEOREM ContextIsTold == ToolSpec => []ContextIsExact
  <1>1. ToolInv => ContextIsExact
    BY ToldAsReached
  <1> QED
    BY <1>1, ToolInvariant, PTL

-----------------------------------------------------------------------------
(* The inductive invariant of an analysis                                  *)

\* How far the request has come; a change is read before its model is built.
Asked ==
  /\ request \in Requests
  /\ source # None => source = SourceOf(request) /\ ~Refuses(request)
  /\ change # None => source # None /\ change \in Seq(Lines)
  /\ stage # "resolve" => change # None
  /\ stage \in {"resolve", "services", "workflows", "discovered", "failed", "analyze"}
  /\ IsFiniteSet(DOMAIN entities)

\* The walk over the model, from the changed files.
Walks ==
  /\ maxDepth = 4
  /\ stage # "analyze" => Idle
  /\ stage = "analyze" =>
       /\ W!IInv
       /\ seeds = [k \in DOMAIN change |-> FileId(ChangedPath(change[k]))]

\* The verification runs the plan, and nothing that cannot pass has passed.
Verifying ==
  /\ toRun = None => results = <<>>
  /\ toRun # None =>
       /\ stage = "analyze" /\ Done
       /\ toRun \in Seq(Paths) /\ Range(toRun) = {PlannedFile(wf) : wf \in Planned}
       /\ results \in Seq(BOOLEAN) /\ Len(results) <= Len(toRun)
       /\ \A k \in 1 .. Len(results) : results[k] => MayPass(Contents(toRun[k]))

\* The exit code 0 is for a plan that all passed, or for none.
Exits ==
  IsCommand /\ exit = 0 =>
    /\ stage = "analyze" /\ Done
    /\ request.verify =>
         \/ Planned = {} /\ toRun = None
         \/ toRun # None /\ Len(results) = Len(toRun) /\ FALSE \notin Range(results)

Inv == DInv /\ Asked /\ Walks /\ Verifying /\ Exits

-----------------------------------------------------------------------------
(* The steps of an analysis                                                *)

\* The walk starts at the changed files.
LEMMA WalkStarts ==
  ASSUME Inv, Analyze
  PROVE  Walks'
  <1> DEFINE ids == [k \in DOMAIN change |-> FileId(ChangedPath(change[k]))]
  <1>1. /\ stage = "discovered" /\ stage' = "analyze" /\ change \in Seq(Lines) /\ maxDepth = 4 /\ Idle
        /\ relations \in Seq(Relations)
    BY DEF Inv, Asked, Walks, DInv, Progress, Analyze
  <1>2. /\ seeds' = ids /\ frontier' = seeds' /\ at' = "level"
        /\ UNCHANGED <<relations, change, maxDepth, depth, pos, edge, next, paths>>
    BY DEF Analyze
  <1>3. ids \in Seq(Ids)
    <2>1. ASSUME NEW k \in DOMAIN change PROVE FileId(ChangedPath(change[k])) \in Ids
      <3>1. change[k] \in Lines
        BY <1>1
      <3>2. ChangedPath(change[k]) \in Paths
        BY <3>1 DEF ChangedPath, Lines
      <3> QED
        BY <3>2 DEF FileId, Ids
    <2>2. DOMAIN change = 1 .. Len(change) /\ Len(change) \in Nat
      BY <1>1
    <2>3. ids \in [1 .. Len(change) -> Ids]
      BY <2>1, <2>2
    <2> QED
      BY <2>2, <2>3
  <1> HIDE DEF ids
  <1>4. (W!Init)'
    BY <1>1, <1>2, <1>3 DEF W!Init, W!InitWalk, Idle
  <1>5. (W!Init => W!IInv)'
    BY WalkBegins, PTL
  <1> QED
    BY <1>1, <1>2, <1>4, <1>5 DEF Walks, ids

\* The plan, and what may pass, are the same while the model and the paths are.
LEMMA SamePlan ==
  ASSUME UNCHANGED <<repo, entities, paths, request>>
  PROVE  /\ Planned' = Planned
         /\ \A wf : PlannedFile(wf)' = PlannedFile(wf)
         /\ \A f : MayPass(Contents(f))' <=> MayPass(Contents(f))
         /\ \A r : Refuses(r)' <=> Refuses(r)
  BY DEF Planned, Known, PlannedFile, MayPass, Contents, ScenarioFiles, DeclaredNames,
         Refuses, CommandRefuses, ToolRefuses

\* The source that is chosen is one of those there are.
LEMMA SourceIsOne ==
  ASSUME NEW r
  PROVE  SourceOf(r) \in Sources
  BY DEF SourceOf, Sources

\* Before anything is asked.
LEMMA InitialImpact ==
  ASSUME Init
  PROVE  Inv
  <1>1. DInv
    BY InitialInvariant DEF Init
  <1>2. /\ request \in Requests /\ source = None /\ change = None /\ stage = "resolve" /\ entities = <<>>
        /\ toRun = None /\ results = <<>> /\ exit = None /\ maxDepth = 4
        /\ at = "idle" /\ depth = 0 /\ pos = 1 /\ edge = 1 /\ next = <<>> /\ paths = <<>>
    BY DEF Init, InitDiscovery, InitWalk, DefaultMaxDepth
  <1>3. IsFiniteSet(DOMAIN entities)
    <2>1. DOMAIN entities = {}
      BY <1>2
    <2> QED
      BY <2>1, FS_EmptySet
  <1>4. exit # 0
    BY <1>2, ExitAssumption
  <1> QED
    BY <1>1, <1>2, <1>3, <1>4 DEF Inv, Asked, Idle, Walks, Verifying, Exits

\* An answer keeps the invariant if it is not 0, or if 0 is right.
LEMMA ReturnInvariant ==
  ASSUME Inv, NEW code, Return(code),
         IsCommand /\ code = 0 =>
           /\ stage = "analyze" /\ Done
           /\ request.verify =>
                \/ Planned = {} /\ toRun = None
                \/ toRun # None /\ Len(results) = Len(toRun) /\ FALSE \notin Range(results)
  PROVE  Inv'
  <1>1. exit' = code /\ UNCHANGED <<discoveryVars, request, source, change, walkVars, toRun, results>>
    BY DEF Return
  <1>2. UNCHANGED <<repo, stage, entities, relations, paths, at, depth, pos, edge, next, seeds, maxDepth>>
    BY <1>1 DEF discoveryVars, walkVars
  <1>3. DInv /\ Asked /\ Walks /\ Verifying
    BY DEF Inv
  <1>4. DInv'
    BY <1>1, <1>3, LeavingTheModelAlone
  <1>5. Asked'
    BY <1>1, <1>2, <1>3, SamePlan DEF Asked
  <1>6. Walks'
    <2>1. W!IInv => W!IInv'
      BY <1>1, <1>2, WalkRests
    <2> QED
      BY <1>1, <1>2, <1>3, <2>1 DEF Walks, Idle
  <1>7. Verifying'
    BY <1>1, <1>2, <1>3, SamePlan DEF Verifying, Done
  <1>8. Exits'
    BY <1>1, <1>2, SamePlan DEF Exits, Done, IsCommand
  <1> QED
    BY <1>4, <1>5, <1>6, <1>7, <1>8 DEF Inv

\* Every answer is as it should be.
LEMMA AnswersInvariant ==
  ASSUME Inv,
         \/ RejectRequest \/ FailToReadChange \/ NoModel
         \/ Answer \/ PrintOnly \/ RefuseToVerify \/ FailToLoad \/ ReportResults
  PROVE  Inv'
  <1>1. CASE RejectRequest \/ NoModel
    <2>1. PICK code : Return(code) /\ (IsCommand => code = 2)
      BY <1>1 DEF RejectRequest, NoModel
    <2>2. ~(IsCommand /\ code = 0)
      BY <2>1
    <2> QED
      BY <2>1, <2>2, ReturnInvariant
  <1>2. CASE FailToReadChange
    <2>1. PICK code : Return(code) /\ (IsCommand => code \in {1, 2})
      BY <1>2 DEF FailToReadChange
    <2>2. ~(IsCommand /\ code = 0)
      BY <2>1
    <2> QED
      BY <2>1, <2>2, ReturnInvariant
  <1>3. CASE Answer \/ RefuseToVerify \/ FailToLoad
    <2>1. PICK code : Return(code) /\ (IsCommand => code \in {1, 2})
      BY <1>3 DEF Answer, RefuseToVerify, FailToLoad
    <2>2. ~(IsCommand /\ code = 0)
      BY <2>1
    <2> QED
      BY <2>1, <2>2, ReturnInvariant
  <1>4. Done => stage = "analyze"
    BY DEF Inv, Walks, Idle, Done
  <1>5. CASE PrintOnly
    BY <1>4, <1>5, ReturnInvariant DEF PrintOnly, Reported
  <1>6. CASE ReportResults
    <2>1. /\ toRun # None /\ Len(results) = Len(toRun) /\ Return(VerifyExit)
          /\ VerifyExit = 0 => FALSE \notin Range(results)
      <3>1. VerifyExit = 0 => FALSE \notin Range(results)
        <4>1. ASSUME FALSE \in Range(results) PROVE VerifyExit = 1
          BY <4>1, Zenon DEF VerifyExit
        <4>2. VerifyExit = 1 => VerifyExit # 0
          OBVIOUS
        <4> QED
          BY <4>1, <4>2, Zenon
      <3> QED
        BY <1>6, <3>1 DEF ReportResults
    <2>2. stage = "analyze" /\ Done
      BY <2>1 DEF Inv, Verifying
    <2> QED
      BY <2>1, <2>2, ReturnInvariant
  <1> QED
    BY <1>1, <1>2, <1>3, <1>5, <1>6

\* The source and the change are what was asked for.
LEMMA ChangeInvariant ==
  ASSUME Inv, ChooseSource \/ ReadChange
  PROVE  Inv'
  <1>1. UNCHANGED <<discoveryVars, request, walkVars, toRun, results, exit>>
    BY DEF ChooseSource, ReadChange
  <1>2. UNCHANGED <<repo, stage, entities, relations, paths, at, depth, pos, edge, next, seeds, maxDepth>>
    BY <1>1 DEF discoveryVars, walkVars
  <1>3. DInv /\ Asked /\ Walks /\ Verifying /\ Exits
    BY DEF Inv
  <1>4. change = None
    BY <1>3 DEF ChooseSource, ReadChange, Asked
  <1>5. stage = "resolve"
    BY <1>3, <1>4 DEF Asked
  <1>6. DInv'
    BY <1>1, <1>3, LeavingTheModelAlone
  <1>7. Asked'
    <2>1. CASE ChooseSource
      <3>1. source' = SourceOf(request) /\ ~Refuses(request) /\ change' = change
        BY <2>1 DEF ChooseSource
      <3> QED
        BY <1>1, <1>2, <1>3, <1>4, <1>5, <3>1, SamePlan DEF Asked
    <2>2. CASE ReadChange
      <3>1. source # None /\ source' = source /\ change' \in Changes[source]
        BY <2>2 DEF ReadChange
      <3>2. source \in Sources
        BY <1>3, <3>1, SourceIsOne DEF Asked
      <3>3. change' \in Seq(Lines)
        BY <3>1, <3>2, ChangesAssumption
      <3> QED
        BY <1>1, <1>2, <1>3, <1>5, <3>1, <3>3, SamePlan DEF Asked
    <2> QED
      BY <2>1, <2>2
  <1>8. Walks'
    BY <1>2, <1>3, <1>5 DEF Walks, Idle
  <1>9. Verifying' /\ Exits'
    BY <1>1, <1>2, <1>3, <1>5 DEF Verifying, Exits, IsCommand
  <1> QED
    BY <1>6, <1>7, <1>8, <1>9 DEF Inv

\* The model of a change is built before the walk begins.
LEMMA ModelInvariant ==
  ASSUME Inv, BuildModel
  PROVE  Inv'
  <1>1. Discover /\ change # None /\ UNCHANGED <<request, source, change, walkVars, toRun, results, exit>>
    BY DEF BuildModel
  <1>2. UNCHANGED <<paths, at, depth, pos, edge, next, seeds, maxDepth>>
    BY <1>1 DEF walkVars
  <1>3. DInv /\ Asked /\ Walks /\ Verifying /\ Exits
    BY DEF Inv
  <1>4. /\ stage \in {"resolve", "services", "workflows"}
        /\ stage' \in {"failed", "services", "workflows", "discovered"}
    BY <1>1 DEF Discover, FailToResolve, ResolveServices, AddService, RejectScenario, AtEntry, AddWorkflow,
       AddDependencies, AddFile, Discovered
  <1>5. DInv'
    BY <1>1, <1>3, DiscoverInvariant
  <1>6. IsFiniteSet(DOMAIN entities')
    BY <1>1, <1>3, EntitiesFinite DEF Asked
  <1>7. Asked'
    <2>1. \A r : Refuses(r)' <=> Refuses(r)
      BY DEF Refuses, CommandRefuses, ToolRefuses
    <2> QED
      BY <1>1, <1>3, <1>4, <1>6, <2>1 DEF Asked
  <1>8. Walks'
    BY <1>2, <1>3, <1>4 DEF Walks, Idle
  <1>9. Verifying' /\ Exits'
    BY <1>1, <1>3, <1>4 DEF Verifying, Exits, IsCommand
  <1> QED
    BY <1>5, <1>7, <1>8, <1>9 DEF Inv

\* The walk starts, and goes on to its end.
LEMMA AnalysisInvariant ==
  ASSUME Inv, Analyze \/ Reach
  PROVE  Inv'
  <1>1. DInv /\ Asked /\ Walks /\ Verifying /\ Exits
    BY DEF Inv
  <1>2. UNCHANGED <<repo, services, svc, entry, file, entities, relations, notes, request, source, change,
                    toRun, results, exit>>
        /\ stage' = "analyze"
    BY DEF Analyze, Reach, discoveryVars
  <1>3. at # "done"
    <2>1. CASE Analyze
      BY <1>1, <2>1 DEF Analyze, Walks, Idle
    <2>2. CASE Reach
      BY <2>2 DEF Reach, Walk!Walk, Walk!BeginLevel, Walk!Follow, Walk!PassOver, Walk!NextEntity,
         Walk!InLevel, Walk!EndLevel, Walk!Stop
    <2> QED
      BY <2>1, <2>2
  <1>4. DInv'
    <2>1. CASE Analyze
      <3>1. stage = "discovered"
        BY <2>1 DEF Analyze
      <3>2. svc = Len(services) + 1 /\ file = Len(Walked) + 1
        BY <1>1, <3>1 DEF DInv, Progress
      <3> QED
        BY <1>1, <1>2, <3>1, <3>2, UsingTheModel
    <2>2. CASE Reach
      BY <1>1, <2>2, LeavingTheModelAlone DEF Reach
    <2> QED
      BY <2>1, <2>2
  <1>5. Walks'
    <2>1. CASE Analyze
      BY <2>1, WalkStarts
    <2>2. CASE Reach
      <3>1. stage = "analyze" /\ Walk!Walk
        BY <2>2 DEF Reach
      <3>2. W!IInv' /\ UNCHANGED <<seeds, maxDepth>>
        BY <1>1, <3>1, WalkStep DEF Walks
      <3> QED
        BY <1>1, <1>2, <3>1, <3>2 DEF Walks
    <2> QED
      BY <2>1, <2>2
  <1>6. Asked'
    <2>1. \A r : Refuses(r)' <=> Refuses(r)
      BY DEF Refuses, CommandRefuses, ToolRefuses
    <2>2. change # None
      <3>1. stage # "resolve"
        BY DEF Analyze, Reach
      <3> QED
        BY <1>1, <3>1 DEF Asked
    <2> QED
      BY <1>1, <1>2, <2>1, <2>2 DEF Asked
  <1>7. Verifying' /\ Exits'
    BY <1>1, <1>2, <1>3 DEF Verifying, Exits, Done, IsCommand
  <1> QED
    BY <1>4, <1>5, <1>6, <1>7 DEF Inv

\* What is planned is a scenario of a service, by the file it was read from.
LEMMA PlannedIsScenario ==
  ASSUME DInv, NEW wf \in Planned
  PROVE  \E s \in Range(services) : \E g \in Range(Files(s)) :
           g.scenario # Invalid /\ wf = WorkflowId(g.scenario.name) /\ PlannedFile(wf) = g.file
  <1>1. Documented(wf) /\ wf[1] = "workflow"
    BY DEF DInv, NothingInvented, Planned, Known
  <1>2. \A n : ServiceId(n)[1] # "workflow" /\ FileId(n)[1] # "workflow"
               /\ OperationId(n)[1] # "workflow" /\ OwnerId(n)[1] # "workflow"
    BY DEF ServiceId, FileId, OperationId, OwnerId
  <1> QED
    BY <1>1, <1>2 DEF Documented, PlannedFile

\* The file of a scenario is a path.
LEMMA FilesArePaths ==
  ASSUME DInv, NEW s, NEW g \in Range(Files(s))
  PROVE  g.file \in Paths
  <1>1. Files(s) \in Seq(Entries)
    BY RepoType DEF DInv, Progress
  <1>2. g \in Entries
    BY <1>1 DEF Range
  <1> QED
    BY <1>2 DEF Entries

\* The plan is loaded.
LEMMA LoadInvariant ==
  ASSUME Inv, LoadPlan
  PROVE  Inv'
  <1>1. DInv /\ Asked /\ Walks /\ Verifying /\ Exits
    BY DEF Inv
  <1>2. UNCHANGED <<discoveryVars, request, source, change, walkVars, results, exit>>
    BY DEF LoadPlan
  <1>3. UNCHANGED <<repo, stage, entities, relations, paths, at, depth, pos, edge, next, seeds, maxDepth>>
    BY <1>2 DEF discoveryVars, walkVars
  <1>4. stage = "analyze" /\ Done /\ exit # 0 /\ results = <<>> /\ toRun = None
    BY <1>1, ExitAssumption DEF LoadPlan, Verifies, Reported, Verifying, Walks, Idle, Done
  <1> DEFINE wfs == SetToSeq(Planned)
             files == [k \in DOMAIN wfs |-> PlannedFile(wfs[k])]
  <1>5. toRun' = files
    BY DEF LoadPlan
  <1>6. wfs \in Seq(Planned) /\ Range(wfs) = Planned
    <2>1. IsFiniteSet(Planned)
      BY <1>1, FS_Subset DEF Asked, Planned, Known
    <2> QED
      BY <2>1, InOrder
  <1> HIDE DEF wfs
  <1>7. files \in Seq(Paths) /\ Range(files) = {PlannedFile(wf) : wf \in Planned} /\ Len(files) \in Nat
    <2>1. DOMAIN wfs = 1 .. Len(wfs) /\ Len(wfs) \in Nat
      BY <1>6
    <2>2. \A k \in DOMAIN wfs : wfs[k] \in Planned
      BY <1>6
    <2>3. \A wf \in Planned : PlannedFile(wf) \in Paths
      BY <1>1, PlannedIsScenario, FilesArePaths
    <2>4. files \in [1 .. Len(wfs) -> Paths]
      BY <2>1, <2>2, <2>3
    <2>5. files \in Seq(Paths)
      BY <2>1, <2>4
    <2>6. Range(files) = {PlannedFile(wfs[k]) : k \in DOMAIN wfs}
      BY DEF Range
    <2>7. Planned = {wfs[k] : k \in DOMAIN wfs}
      BY <1>6 DEF Range
    <2> HIDE DEF files
    <2> QED
      BY <2>5, <2>6, <2>7
  <1> HIDE DEF files
  <1>8. DInv'
    BY <1>1, <1>2, LeavingTheModelAlone
  <1>9. Asked'
    BY <1>1, <1>2, <1>3, SamePlan DEF Asked
  <1>10. Walks'
    <2>1. W!IInv => W!IInv'
      BY <1>2, <1>3, WalkRests
    <2> QED
      BY <1>1, <1>2, <1>3, <2>1 DEF Walks, Idle
  <1>11. Verifying'
    <2>1. <<>> \in Seq(BOOLEAN) /\ Len(results') = 0 /\ results' = <<>>
      BY <1>2, <1>4
    <2>2. Range(toRun)' = {PlannedFile(wf)' : wf \in Planned'}
      BY <1>2, <1>3, <1>5, <1>7, SamePlan
    <2>3. (stage = "analyze" /\ Done)' /\ toRun' \in Seq(Paths) /\ Len(results') <= Len(toRun')
      BY <1>3, <1>4, <1>5, <1>7, <2>1 DEF Done
    <2>4. \A k \in 1 .. Len(results') : (results[k] => MayPass(Contents(toRun[k])))'
      BY <2>1
    <2> QED
      BY <2>1, <2>2, <2>3, <2>4 DEF Verifying
  <1>12. Exits'
    BY <1>2, <1>4 DEF Exits
  <1> QED
    BY <1>8, <1>9, <1>10, <1>11, <1>12 DEF Inv

\* One scenario of the plan is run.
LEMMA RunInvariant ==
  ASSUME Inv, RunPlanned
  PROVE  Inv'
  <1>1. DInv /\ Asked /\ Walks /\ Verifying /\ Exits
    BY DEF Inv
  <1>2. UNCHANGED <<discoveryVars, request, source, change, walkVars, toRun, exit>>
    BY DEF RunPlanned
  <1>3. UNCHANGED <<repo, stage, entities, relations, paths, at, depth, pos, edge, next, seeds, maxDepth>>
    BY <1>2 DEF discoveryVars, walkVars
  <1>4. PICK passed \in BOOLEAN :
          /\ passed => MayPass(Contents(toRun[Len(results) + 1]))
          /\ results' = Append(results, passed)
    BY DEF RunPlanned
  <1>5. toRun # None /\ exit # 0 /\ Len(results) < Len(toRun) /\ results \in Seq(BOOLEAN)
        /\ toRun \in Seq(Paths) /\ Len(toRun) \in Nat
    BY <1>1, ExitAssumption DEF RunPlanned, Verifying
  <1>6. DInv'
    BY <1>1, <1>2, LeavingTheModelAlone
  <1>7. Asked'
    BY <1>1, <1>2, <1>3, SamePlan DEF Asked
  <1>8. Walks'
    <2>1. W!IInv => W!IInv'
      BY <1>2, <1>3, WalkRests
    <2> QED
      BY <1>1, <1>2, <1>3, <2>1 DEF Walks, Idle
  <1>9. Verifying'
    <2>1. /\ results' \in Seq(BOOLEAN) /\ Len(results') = Len(results) + 1 /\ Len(results) \in Nat
          /\ \A k \in 1 .. Len(results) : results'[k] = results[k]
          /\ results'[Len(results) + 1] = passed
      BY <1>4, <1>5
    <2>2. \A k \in 1 .. Len(results') : results'[k] => MayPass(Contents(toRun[k]))
      <3> SUFFICES ASSUME NEW k \in 1 .. Len(results) + 1, results'[k]
                   PROVE  MayPass(Contents(toRun[k]))
        BY <2>1
      <3>1. CASE k = Len(results) + 1
        BY <1>4, <2>1, <3>1
      <3>2. CASE k # Len(results) + 1
        <4>1. k \in 1 .. Len(results)
          BY <2>1, <3>2
        <4> QED
          BY <1>1, <1>5, <2>1, <4>1 DEF Verifying
      <3> QED
        BY <3>1, <3>2
    <2>3. \A k \in 1 .. Len(results') : (results[k] => MayPass(Contents(toRun[k])))'
      BY <1>2, <1>3, <2>2, SamePlan
    <2>4. Range(toRun)' = {PlannedFile(wf)' : wf \in Planned'}
      BY <1>1, <1>2, <1>3, <1>5, SamePlan DEF Verifying
    <2>5. Len(results') <= Len(toRun')
      BY <1>2, <1>5, <2>1
    <2>6. (stage = "analyze" /\ Done)' /\ toRun' \in Seq(Paths) /\ toRun' # None
      BY <1>1, <1>2, <1>3, <1>5 DEF Verifying, Done
    <2> QED
      BY <2>1, <2>3, <2>4, <2>5, <2>6 DEF Verifying
  <1>10. Exits'
    BY <1>2, <1>5 DEF Exits
  <1> QED
    BY <1>6, <1>7, <1>8, <1>9, <1>10 DEF Inv

\* Nothing happens.
LEMMA StutterInvariant ==
  ASSUME Inv, UNCHANGED vars
  PROVE  Inv'
  <1>1. UNCHANGED <<discoveryVars, request, source, change, walkVars, toRun, results, exit>>
    BY DEF vars
  <1>2. Return(exit)
    BY <1>1 DEF Return
  <1> QED
    BY <1>2, ReturnInvariant DEF Inv, Exits

\* The invariant holds throughout.
THEOREM ImpactInvariant == Spec => []Inv
  <1>1. Init => Inv
    BY InitialImpact
  <1>2. ASSUME Inv, [Next]_vars PROVE Inv'
    BY <1>2, AnswersInvariant, ChangeInvariant, ModelInvariant, AnalysisInvariant, LoadInvariant,
       RunInvariant, StutterInvariant DEF Next, Exited
  <1> QED
    BY <1>1, <1>2, PTL DEF Spec

-----------------------------------------------------------------------------
(* Nothing is silently omitted                                             *)

\* The rule that decides is the one that no later one overrides.
LEMMA LastRuleDecides ==
  ASSUME repo \in Repos, NEW p
  PROVE  Range(Owners(p)) = OwnersOf(p)
  <1> DEFINE rules == OwnerRules
             covering == {i \in 1 .. Len(rules) : Applies(rules[i], p)}
  <1>1. /\ rules \in Seq([pattern : Patterns, owners : Seq(Names)]) /\ Len(rules) \in Nat
        /\ DOMAIN rules = 1 .. Len(rules)
    BY RepoType
  <1>2. Owners(p) = LET k == IF covering # {} THEN Max(covering) ELSE 0
                    IN IF k = 0 THEN <<>> ELSE rules[k].owners
    BY DEF Owners, SelectLastInSeq, Applies
  <1>3. RulesFor(p) = {k \in covering : \A j \in covering : ~(j > k)}
    BY <1>1 DEF RulesFor
  <1> HIDE DEF covering
  <1>4. CASE covering = {}
    <2>1. RulesFor(p) = {} /\ Owners(p) = <<>>
      BY <1>2, <1>3, <1>4
    <2> QED
      BY <2>1 DEF OwnersOf, Range
  <1>5. CASE covering # {}
    <2>1. covering \in SUBSET (1 .. Len(rules))
      BY DEF covering
    <2>2. PICK g \in covering : \A m \in covering : m <= g
      <3> HIDE DEF rules
      <3> QED
        BY <1>1, <1>5, <2>1, GreatestNumber
    <2>3. covering \subseteq Nat \ {0}
      <3> HIDE DEF rules
      <3> QED
        BY <1>1, <2>1
    <2>4. Max(covering) = g /\ g # 0
      <3>1. \A m \in covering : (\A k \in covering : k <= m) => m = g
        BY <2>2, <2>3
      <3> QED
        BY <2>2, <2>3, <3>1 DEF Max
    <2>5. RulesFor(p) = {g}
      <3>1. \A j \in covering : ~(j > g)
        BY <2>2, <2>3
      <3>2. \A k \in covering : (\A j \in covering : ~(j > k)) => k = g
        BY <2>2, <2>3
      <3> QED
        BY <1>3, <2>2, <3>1, <3>2, Zenon
    <2>6. Owners(p) = rules[g].owners
      BY <1>2, <1>5, <2>4
    <2> QED
      BY <2>5, <2>6 DEF OwnersOf
  <1> QED
    BY <1>4, <1>5

\* A recorded relation relates.
LEMMA RecordedRelates ==
  ASSUME NEW from, NEW to, NEW kind, NEW why, Recorded(Relation(from, to, kind, why))
  PROVE  Related(from, to, kind)
  <1>1. PICK k \in DOMAIN relations : relations[k] = Relation(from, to, kind, why)
    BY DEF Recorded, Range
  <1> QED
    BY <1>1 DEF Related, Relation

\* The two parts of NothingSilentlyOmitted.
ServiceIsIn(s) ==
  /\ s.spec # None =>
       \/ Noted(s.spec, "spec")
       \/ Loads(s) /\ \A o \in repo.specs[s.spec] : Related(ServiceId(s.name), OperationId(o), "exposes")
  /\ s.dir # None => Noted(s.dir, "directory") \/ Readable(s)
  /\ \A f \in Range(Files(s)) :
       \/ Noted(f.file, "scenario")
       \/ /\ f.scenario # Invalid
          /\ Related(ServiceId(s.name), WorkflowId(f.scenario.name), "verified_by")
          /\ Loads(s) => \A name \in Range(f.scenario.steps) :
               \/ Noted(f.file, name)
               \/ \E o \in repo.specs[s.spec] :
                    o.name = name /\ Related(OperationId(o), WorkflowId(f.scenario.name), "verified_by")

FileIsIn(p) ==
  /\ ServiceOf(p) # 0 => Related(FileId(p), ServiceId(services[ServiceOf(p)].name), "contains")
  /\ \A o \in OwnersOf(p) : Related(FileId(p), OwnerId(o), "owned_by")

\* A model that is complete has everything the repository says, or a note.
LEMMA NothingOmitted ==
  ASSUME Inv
  PROVE  NothingSilentlyOmitted
  <1> SUFFICES ASSUME Complete
               PROVE  /\ \A s \in Range(services) : ServiceIsIn(s)
                      /\ \A p \in Range(Walked) : FileIsIn(p)
    BY DEF NothingSilentlyOmitted, ServiceIsIn, FileIsIn
  <1>1. svc = Len(services) + 1 /\ file = Len(Walked) + 1
    BY DEF Inv, DInv, Progress, Complete
  <1>2. ASSUME NEW s \in Range(services) PROVE ServiceIsIn(s)
    <2>2. HasService(s) /\ \A f \in Range(Files(s)) : HasEntry(s, f)
      BY <1>1, EverythingAdded DEF Inv
    <2>3. ServiceNotes(s) \subseteq notes
      BY <2>2 DEF HasService
    <2>4. ASSUME s.spec # None, ~Loads(s) PROVE Noted(s.spec, "spec")
      BY <2>3, <2>4 DEF ServiceNotes, Noted, Loads
    <2>5. ASSUME Loads(s), NEW o \in repo.specs[s.spec]
          PROVE  Related(ServiceId(s.name), OperationId(o), "exposes")
      BY <2>2, <2>5, RecordedRelates DEF HasService, Exposed
    <2>6. ASSUME s.dir # None, ~Readable(s) PROVE Noted(s.dir, "directory")
      BY <2>3, <2>6 DEF ServiceNotes, Noted, Readable
    <2>7. ASSUME NEW f \in Range(Files(s)), ~Noted(f.file, "scenario")
          PROVE  /\ f.scenario # Invalid
                 /\ Related(ServiceId(s.name), WorkflowId(f.scenario.name), "verified_by")
                 /\ Loads(s) => \A name \in Range(f.scenario.steps) :
                      \/ Noted(f.file, name)
                      \/ \E o \in repo.specs[s.spec] :
                           /\ o.name = name
                           /\ Related(OperationId(o), WorkflowId(f.scenario.name), "verified_by")
      <3>1. f.scenario # Invalid /\ HasEntry(s, f)
        BY <2>2, <2>7 DEF HasEntry, Noted
      <3>2. Related(ServiceId(s.name), WorkflowId(f.scenario.name), "verified_by")
        BY <3>1, RecordedRelates DEF HasEntry, Mutual
      <3>3. ASSUME Loads(s), NEW name \in Range(f.scenario.steps), ~Noted(f.file, name)
            PROVE  \E o \in repo.specs[s.spec] :
                     o.name = name /\ Related(OperationId(o), WorkflowId(f.scenario.name), "verified_by")
        <4>1. PICK o \in Exposed(s) : o.name = name /\ Mutual(WorkflowId(f.scenario.name), OperationId(o), f.file)
          BY <3>1, <3>3 DEF HasEntry, HasStep, Noted
        <4>2. Related(OperationId(o), WorkflowId(f.scenario.name), "verified_by")
          BY <4>1, RecordedRelates DEF Mutual
        <4> QED
          BY <3>3, <4>1, <4>2 DEF Exposed
      <3> QED
        BY <3>1, <3>2, <3>3
    <2> QED
      BY <2>4, <2>5, <2>6, <2>7 DEF ServiceIsIn
  <1>3. ASSUME NEW p \in Range(Walked) PROVE FileIsIn(p)
    <2>1. HasFile(p) /\ Range(Owners(p)) = OwnersOf(p)
      BY <1>1, EverythingAdded, LastRuleDecides DEF Inv, DInv, Progress
    <2> QED
      BY <2>1, RecordedRelates DEF HasFile, FileIsIn
  <1> QED
    BY <1>2, <1>3

\* Discovery leaves nothing out without saying so.
THEOREM OmissionsAreNoted == Spec => []NothingSilentlyOmitted
  <1>1. Inv => NothingSilentlyOmitted
    BY NothingOmitted
  <1> QED
    BY <1>1, ImpactInvariant, PTL

-----------------------------------------------------------------------------
(* What the walk reaches                                                   *)

\* The walk is over, and its invariant holds.
LEMMA AtTheEnd ==
  ASSUME Inv, Done
  PROVE  /\ stage = "analyze" /\ W!IInv /\ maxDepth = 4 /\ change \in Seq(Lines)
         /\ seeds = [k \in DOMAIN change |-> FileId(ChangedPath(change[k]))]
         /\ Range(seeds) = {FileId(p) : p \in Changed}
         /\ svc = Len(services) + 1 /\ file = Len(Walked) + 1
         /\ relations \in Seq(Relations)
  <1>1. stage = "analyze"
    BY DEF Inv, Walks, Idle, Done
  <1>2. W!IInv /\ maxDepth = 4 /\ seeds = [k \in DOMAIN change |-> FileId(ChangedPath(change[k]))]
    BY <1>1 DEF Inv, Walks
  <1>3. change \in Seq(Lines)
    BY <1>1 DEF Inv, Asked
  <1>4. svc = Len(services) + 1 /\ file = Len(Walked) + 1 /\ relations \in Seq(Relations)
    BY <1>1 DEF Inv, DInv, Progress
  <1>5. Range(seeds) = {FileId(p) : p \in Changed}
    BY <1>2 DEF Range, Changed
  <1> QED
    BY <1>1, <1>2, <1>3, <1>4, <1>5

\* A relation short of the bound is followed.
LEMMA OneHopFurther ==
  ASSUME Inv, Done, NEW r, Recorded(r), NEW n \in 0 .. 3, r.from \in W!Visited, W!Hops(r.from) <= n
  PROVE  r.to \in W!Visited /\ W!Hops(r.to) <= n + 1
  <1>1. W!IInv /\ maxDepth = 4 /\ relations \in Seq(Relations)
    BY AtTheEnd
  <1>2. PICK k \in 1 .. Len(relations) : relations[k] = r
    BY <1>1 DEF Recorded, Range
  <1>3. W!WalkIsExact
    BY <1>1, WalkAssumptions, W!EndIsExact
  <1>4. \A id \in W!Visited : W!Hops(id) \in Nat
    BY <1>1 DEF W!IInv, W!TypeOK, W!Hops, W!PathTo, W!Visited
  <1>5. W!Hops(r.from) < maxDepth
    BY <1>1, <1>4
  <1>6. r.to \in W!Visited /\ W!Hops(r.to) <= W!Hops(r.from) + 1
    BY <1>2, <1>3, <1>5 DEF W!WalkIsExact, Done
  <1> QED
    BY <1>4, <1>6

\* What is not a file was reached by a path.
LEMMA ReachedByPath ==
  ASSUME Inv, Done, NEW id \in W!Visited, id[1] # "file"
  PROVE  id \in DOMAIN paths
  BY AtTheEnd DEF W!Visited, W!Range, Range, FileId

\* What a relation of the model may lead from and to.
LEMMA WhatIsRelated ==
  ASSUME DInv, NEW r, Recorded(r)
  PROVE  \/ \E s \in Range(services) : \E o \in Exposed(s) :
              r.from = ServiceId(s.name) /\ r.to = OperationId(o)
         \/ \E s \in Range(services) : \E wf \in WorkflowsOf(s) :
              \/ r.from = wf /\ r.to = ServiceId(s.name)
              \/ r.from = ServiceId(s.name) /\ r.to = wf
         \/ \E s \in Range(services) : \E wf \in WorkflowsOf(s) : \E o \in Exposed(s) :
              \/ r.from = wf /\ r.to = OperationId(o)
              \/ r.from = OperationId(o) /\ r.to = wf
         \/ \E s \in Range(services) : \E name \in Range(s.deps) :
              r.from = ServiceId(s.name) /\ r.to = ServiceId(name)
         \/ \E p \in Range(Walked) :
              ServiceOf(p) # 0 /\ r.from = FileId(p) /\ r.to = ServiceId(services[ServiceOf(p)].name)
         \/ \E p \in Range(Walked) : \E o \in Range(Owners(p)) :
              r.from = FileId(p) /\ r.to = OwnerId(o)
  <1>1. Justified(r)
    BY DEF DInv, NothingInvented, Recorded
  <1>2. \A a, b, kind, why : Relation(a, b, kind, why).from = a /\ Relation(a, b, kind, why).to = b
    BY DEF Relation
  <1>3. \A s : \A f \in Range(Files(s)) :
          f.scenario # Invalid => WorkflowId(f.scenario.name) \in WorkflowsOf(s)
    BY DEF WorkflowsOf
  <1>4. CASE \E s \in Range(services) : \E o \in Exposed(s) :
               r = Relation(ServiceId(s.name), OperationId(o), "exposes", s.spec)
    BY <1>2, <1>4
  <1>5. CASE \E s \in Range(services) : \E f \in Range(Files(s)) :
               /\ f.scenario # Invalid
               /\ r \in Range(BothWays(WorkflowId(f.scenario.name), ServiceId(s.name), f.file))
    BY <1>3, <1>5, EitherWay
  <1>6. CASE \E s \in Range(services) : \E f \in Range(Files(s)) : \E o \in Exposed(s) :
               /\ f.scenario # Invalid /\ o.name \in Range(f.scenario.steps)
               /\ r \in Range(BothWays(WorkflowId(f.scenario.name), OperationId(o), f.file))
    BY <1>3, <1>6, EitherWay
  <1>7. CASE \E s \in Range(services) : \E name \in Range(s.deps) :
               r = Relation(ServiceId(s.name), ServiceId(name), "depends_on", None)
    BY <1>2, <1>7
  <1>8. CASE \E p \in Range(Walked) :
               /\ ServiceOf(p) # 0
               /\ r = Relation(FileId(p), ServiceId(services[ServiceOf(p)].name), "contains", p)
    BY <1>2, <1>8
  <1>9. CASE \E p \in Range(Walked) : \E o \in Range(Owners(p)) :
               r = Relation(FileId(p), OwnerId(o), "owned_by", None)
    BY <1>2, <1>9
  <1> QED
    BY <1>1, <1>4, <1>5, <1>6, <1>7, <1>8, <1>9 DEF Justified

\* No relation leads to a file, and only those of its owners to an owner.
LEMMA WhatLeadsThere ==
  ASSUME DInv, NEW r, Recorded(r)
  PROVE  /\ r.to[1] # "file"
         /\ r.to[1] = "owner" =>
              \E p \in Range(Walked) : \E o \in Range(Owners(p)) : r.from = FileId(p) /\ r.to = OwnerId(o)
  <1>1. \A s, wf : wf \in WorkflowsOf(s) => wf[1] = "workflow"
    BY IdsDiffer DEF WorkflowsOf
  <1> QED
    BY <1>1, WhatIsRelated, IdsDiffer

-----------------------------------------------------------------------------
(* Owners                                                                  *)

\* An owner is reached from a changed file of theirs, and from no further away.
LEMMA OwnerReached ==
  ASSUME Inv, Done, NEW id \in ReportedOwners
  PROVE  \E p \in Changed \cap Range(Walked) : \E o \in OwnersOf(p) :
           id = OwnerId(o) /\ OwnedFile(id) = FileId(p)
  <1>1. id \in DOMAIN paths /\ id[1] = "owner"
    BY DEF ReportedOwners, Known
  <1>2. W!IInv /\ Range(seeds) = {FileId(p) : p \in Changed} /\ DInv /\ repo \in Repos
    BY AtTheEnd DEF Inv, DInv, Progress
  <1>3. PICK q : q = paths[id]
    OBVIOUS
  <1>4. q \in Seq(Relations) /\ q # <<>>
    BY <1>1, <1>2, <1>3 DEF W!IInv, W!TypeOK
  <1>5. W!PathsExplain
    BY <1>2, WalkAssumptions, W!PathsHold
  <1>6. /\ q[1].from \in Range(seeds) /\ q[Len(q)].to = id
        /\ \A k \in 1 .. Len(q) : Recorded(q[k])
        /\ \A k \in 1 .. Len(q) - 1 : q[k].to = q[k + 1].from
    BY <1>1, <1>3, <1>5 DEF W!PathsExplain, W!Explains, W!Range, Range, Recorded
  <1>7. PICK n \in Nat \ {0} : n = Len(q)
    BY <1>4
  <1>8. PICK p \in Range(Walked) : \E o \in Range(Owners(p)) : q[n].from = FileId(p) /\ id = OwnerId(o)
    BY <1>1, <1>2, <1>6, <1>7, WhatLeadsThere
  <1>9. n = 1
    <2> SUFFICES ASSUME n # 1 PROVE FALSE
      OBVIOUS
    <2>1. n - 1 \in 1 .. Len(q) - 1 /\ n - 1 \in 1 .. Len(q) /\ (n - 1) + 1 = n
      BY <1>7
    <2>2. q[n - 1].to = FileId(p) /\ Recorded(q[n - 1])
      BY <1>6, <1>8, <2>1
    <2> QED
      BY <1>2, <2>2, WhatLeadsThere, IdsDiffer
  <1>10. p \in Changed /\ OwnedFile(id) = FileId(p)
    BY <1>2, <1>3, <1>6, <1>8, <1>9, IdsDiffer DEF OwnedFile
  <1> QED
    BY <1>2, <1>8, <1>10, LastRuleDecides

\* The owners that are reported are right.
LEMMA OwnersReported ==
  ASSUME Inv
  PROVE  OwnersAreExact
  <1> SUFFICES ASSUME Done
               PROVE  /\ ReportedOwners = {OwnerId(o) : o \in UNION {OwnersOf(p) : p \in Changed \cap Range(Walked)}}
                      /\ ReportedOwners \cap Potential = {}
                      /\ \A id \in ReportedOwners :
                           \E p \in Changed : OwnedFile(id) = FileId(p) /\ id[2] \in OwnersOf(p)
    BY DEF OwnersAreExact
  <1>1. ASSUME NEW p \in Changed \cap Range(Walked), NEW o \in OwnersOf(p)
        PROVE  OwnerId(o) \in ReportedOwners
    <2>1. HasFile(p) /\ o \in Range(Owners(p))
      BY AtTheEnd, EverythingAdded, LastRuleDecides DEF Inv, DInv, Progress
    <2>2. PICK r : r = Relation(FileId(p), OwnerId(o), "owned_by", None)
      OBVIOUS
    <2>3. OwnerId(o) \in DOMAIN entities /\ Recorded(r) /\ r.from = FileId(p) /\ r.to = OwnerId(o)
      BY <2>1, <2>2 DEF HasFile, Relation
    <2>4. r.from \in W!Visited /\ W!Hops(r.from) <= 0
      <3>1. r.from \in Range(seeds)
        BY <2>3, AtTheEnd
      <3> QED
        BY <3>1 DEF W!Visited, W!Range, Range, W!Hops
    <2>5. OwnerId(o) \in DOMAIN paths
      BY <2>3, <2>4, OneHopFurther, ReachedByPath, IdsDiffer
    <2> QED
      BY <2>3, <2>5, IdsDiffer DEF ReportedOwners, Known
  <1>2. ReportedOwners \cap Potential = {}
    BY DEF ReportedOwners, Potential
  <1>3. \A id \in ReportedOwners : \E p \in Changed : OwnedFile(id) = FileId(p) /\ id[2] \in OwnersOf(p)
    BY OwnerReached, IdsDiffer
  <1> QED
    BY <1>1, <1>2, <1>3, OwnerReached

\* Whoever is reported owns a changed file, and every owner of one is reported.
THEOREM OwnersAreTold == Spec => []OwnersAreExact
  <1>1. Inv => OwnersAreExact
    BY OwnersReported
  <1> QED
    BY <1>1, ImpactInvariant, PTL

-----------------------------------------------------------------------------
(* The plan                                                                *)

\* The services with these names are all at most so many hops away.
Within(names, n) ==
  \A name \in names : ServiceId(name) \in W!Visited /\ W!Hops(ServiceId(name)) <= n

\* Those they depend on are one hop further at most.
LEMMA DependenciesWithin ==
  ASSUME Inv, Done, NEW names, NEW n \in 0 .. 3, Within(names, n)
  PROVE  Within(WithDependencies(names), n + 1)
  <1> SUFFICES ASSUME NEW name \in WithDependencies(names)
               PROVE  ServiceId(name) \in W!Visited /\ W!Hops(ServiceId(name)) <= n + 1
    BY DEF Within
  <1>1. CASE name \in names
    <2>1. W!IInv
      BY AtTheEnd
    <2>2. W!Hops(ServiceId(name)) <= n /\ ServiceId(name) \in W!Visited
      BY <1>1 DEF Within
    <2>3. W!Hops(ServiceId(name)) \in Nat
      BY <2>1, <2>2 DEF W!IInv, W!TypeOK, W!Hops, W!PathTo, W!Visited
    <2> QED
      BY <2>2, <2>3
  <1>2. CASE name \notin names
    <2>1. PICK s \in Range(services) : s.name \in names /\ name \in Range(s.deps)
      BY <1>2 DEF WithDependencies
    <2>2. HasDependencies(s)
      BY AtTheEnd, EverythingAdded DEF Inv
    <2>3. PICK r : r = Relation(ServiceId(s.name), ServiceId(name), "depends_on", None)
      OBVIOUS
    <2>4. Recorded(r) /\ r.from = ServiceId(s.name) /\ r.to = ServiceId(name)
      BY <2>1, <2>2, <2>3 DEF HasDependencies, Relation
    <2>5. r.from \in W!Visited /\ W!Hops(r.from) <= n
      BY <2>1, <2>4 DEF Within
    <2>6. r.to \in W!Visited /\ W!Hops(r.to) <= n + 1
      BY <2>4, <2>5, OneHopFurther
    <2> QED
      BY <2>4, <2>6
  <1> QED
    BY <1>1, <1>2

\* The services of the changed files are one hop away.
LEMMA ChangedWithin ==
  ASSUME Inv, Done
  PROVE  Within(ChangedServices, 1)
  <1> SUFFICES ASSUME NEW p \in Changed \cap Range(Walked), ServiceOf(p) # 0
               PROVE  /\ ServiceId(services[ServiceOf(p)].name) \in W!Visited
                      /\ W!Hops(ServiceId(services[ServiceOf(p)].name)) <= 1
    BY DEF Within, ChangedServices
  <1>1. HasFile(p)
    BY AtTheEnd, EverythingAdded DEF Inv
  <1>2. PICK r : r = Relation(FileId(p), ServiceId(services[ServiceOf(p)].name), "contains", p)
    OBVIOUS
  <1>3. /\ Recorded(r) /\ r.from = FileId(p)
        /\ r.to = ServiceId(services[ServiceOf(p)].name)
    BY <1>1, <1>2 DEF HasFile, Relation
  <1>4. r.from \in W!Visited /\ W!Hops(r.from) <= 0
    <2>1. r.from \in Range(seeds)
      BY <1>3, AtTheEnd
    <2> QED
      BY <2>1 DEF W!Visited, W!Range, Range, W!Hops
  <1>5. r.to \in W!Visited /\ W!Hops(r.to) <= 0 + 1
    BY <1>3, <1>4, OneHopFurther
  <1> QED
    BY <1>3, <1>5

\* The scenarios of the services that are near are four hops away, and planned.
LEMMA NearIsPlanned ==
  ASSUME Inv
  PROVE  ChangedServicesVerified
  <1> SUFFICES ASSUME Done, NEW s \in Range(services), s.name \in Near, NEW wf \in WorkflowsOf(s)
               PROVE  wf \in Planned
    BY DEF ChangedServicesVerified, WorkflowsNear
  <1>1. Within(Near, 3)
    <2>1. Within(WithDependencies(ChangedServices), 1 + 1)
      BY ChangedWithin, DependenciesWithin
    <2>2. Within(WithDependencies(WithDependencies(ChangedServices)), 2 + 1)
      BY <2>1, DependenciesWithin
    <2> QED
      BY <2>2 DEF Near
  <1>2. PICK f \in Range(Files(s)) : f.scenario # Invalid /\ wf = WorkflowId(f.scenario.name)
    BY DEF WorkflowsOf
  <1>3. HasEntry(s, f)
    BY AtTheEnd, EverythingAdded DEF Inv
  <1>4. PICK r : r = Relation(ServiceId(s.name), wf, "verified_by", f.file)
    OBVIOUS
  <1>5. Recorded(r) /\ r.from = ServiceId(s.name) /\ r.to = wf /\ wf \in DOMAIN entities
    BY <1>2, <1>3, <1>4 DEF HasEntry, Mutual, Relation
  <1>6. r.from \in W!Visited /\ W!Hops(r.from) <= 3
    BY <1>1, <1>5 DEF Within
  <1>7. wf \in W!Visited /\ wf[1] = "workflow"
    BY <1>2, <1>5, <1>6, OneHopFurther, IdsDiffer
  <1> QED
    BY <1>5, <1>7, ReachedByPath DEF Planned, Known

\* A change plans every scenario of its services and of those up to two
\* dependencies away.
THEOREM ChangesAreVerified == Spec => []ChangedServicesVerified
  <1>1. Inv => ChangedServicesVerified
    BY NearIsPlanned
  <1> QED
    BY <1>1, ImpactInvariant, PTL

\* An operation, a workflow or an owner known to the services with these names.
InZone(id, names, closer) ==
  \/ \E name \in names : id = ServiceId(name)
  \/ \E s \in Range(services) :
       /\ s.name \in closer
       /\ id \in WorkflowsOf(s) \/ \E o \in Exposed(s) : id = OperationId(o)
  \/ \E o \in Names : id = OwnerId(o)

\* Where services are told apart, a relation does not lead from one to another
\* but along a dependency.
LEMMA ZonesGrow ==
  ASSUME DInv, WellSeparated, NEW names, NEW closer, closer \subseteq names,
         NEW r, Recorded(r), InZone(r.from, names, closer)
  PROVE  InZone(r.to, WithDependencies(names), names)
  <1>1. \A s, wf : wf \in WorkflowsOf(s) => wf[1] = "workflow"
    BY IdsDiffer DEF WorkflowsOf
  <1>2. names \subseteq WithDependencies(names)
    BY DEF WithDependencies
  <1>3. ASSUME NEW s \in Range(services), NEW t \in Range(services), NEW wf \in WorkflowsOf(s), wf \in WorkflowsOf(t)
        PROVE  s = t
    <2>1. PICK j \in DOMAIN services, k \in DOMAIN services : services[j] = s /\ services[k] = t
      BY DEF Range
    <2> QED
      BY <1>3, <2>1 DEF WellSeparated
  <1>4. ASSUME NEW s \in Range(services), NEW t \in Range(services), NEW o \in Exposed(s), NEW q \in Exposed(t),
               OperationId(o) = OperationId(q)
        PROVE  s = t
    <2>1. PICK j \in DOMAIN services, k \in DOMAIN services : services[j] = s /\ services[k] = t
      BY DEF Range
    <2>2. o.route = q.route
      BY <1>4, IdsDiffer
    <2>3. Loads(s) /\ Loads(t) /\ o \in repo.specs[s.spec] /\ q \in repo.specs[t.spec]
      BY DEF Exposed
    <2> QED
      BY <2>1, <2>2, <2>3 DEF WellSeparated
  <1>5. ASSUME NEW s \in Range(services), r.from = ServiceId(s.name)
        PROVE  s.name \in names
    BY <1>1, <1>5, IdsDiffer DEF InZone
  <1>6. ASSUME NEW s \in Range(services), NEW wf \in WorkflowsOf(s), r.from = wf
        PROVE  s.name \in closer
    BY <1>1, <1>3, <1>6, IdsDiffer DEF InZone
  <1>7. ASSUME NEW s \in Range(services), NEW o \in Exposed(s), r.from = OperationId(o)
        PROVE  s.name \in closer
    BY <1>1, <1>4, <1>7, IdsDiffer DEF InZone
  <1>8. CASE \E s \in Range(services) : \E o \in Exposed(s) :
               r.from = ServiceId(s.name) /\ r.to = OperationId(o)
    BY <1>5, <1>8 DEF InZone
  <1>9. CASE \E s \in Range(services) : \E wf \in WorkflowsOf(s) :
               \/ r.from = wf /\ r.to = ServiceId(s.name)
               \/ r.from = ServiceId(s.name) /\ r.to = wf
    BY <1>2, <1>5, <1>6, <1>9 DEF InZone
  <1>10. CASE \E s \in Range(services) : \E wf \in WorkflowsOf(s) : \E o \in Exposed(s) :
                \/ r.from = wf /\ r.to = OperationId(o)
                \/ r.from = OperationId(o) /\ r.to = wf
    BY <1>6, <1>7, <1>10 DEF InZone
  <1>11. CASE \E s \in Range(services) : \E name \in Range(s.deps) :
                r.from = ServiceId(s.name) /\ r.to = ServiceId(name)
    BY <1>5, <1>11 DEF InZone, WithDependencies
  <1>12. ~ \E p : r.from = FileId(p)
    BY <1>1, IdsDiffer DEF InZone
  <1> QED
    BY <1>8, <1>9, <1>10, <1>11, <1>12, WhatIsRelated

\* One hop away from a changed file is its service, or an owner.
LEMMA FirstZone ==
  ASSUME Inv, Done, NEW r, Recorded(r), r.from \in Range(seeds)
  PROVE  InZone(r.to, ChangedServices, {})
  <1>1. DInv /\ repo \in Repos
    BY DEF Inv, DInv, Progress
  <1>2. PICK p \in Changed : r.from = FileId(p)
    BY AtTheEnd
  <1>3. \A s, wf : wf \in WorkflowsOf(s) => wf[1] = "workflow"
    BY IdsDiffer DEF WorkflowsOf
  <1>4. \/ \E q \in Range(Walked) :
             ServiceOf(q) # 0 /\ r.from = FileId(q) /\ r.to = ServiceId(services[ServiceOf(q)].name)
        \/ \E q \in Range(Walked) : \E o \in Range(Owners(q)) : r.from = FileId(q) /\ r.to = OwnerId(o)
    BY <1>1, <1>2, <1>3, WhatIsRelated, IdsDiffer
  <1>5. CASE \E q \in Range(Walked) :
               ServiceOf(q) # 0 /\ r.from = FileId(q) /\ r.to = ServiceId(services[ServiceOf(q)].name)
    BY <1>2, <1>5, IdsDiffer DEF InZone, ChangedServices
  <1>6. CASE \E q \in Range(Walked) : \E o \in Range(Owners(q)) : r.from = FileId(q) /\ r.to = OwnerId(o)
    <2>1. PICK q, o : o \in Range(Owners(q)) /\ r.to = OwnerId(o)
      BY <1>6
    <2>2. Owners(q) \in Seq(Names)
      BY <1>1, OwnersType
    <2>3. o \in Names
      BY <2>1, <2>2 DEF Range
    <2> QED
      BY <2>1, <2>3 DEF InZone
  <1> QED
    BY <1>4, <1>5, <1>6

\* What is planned is near where services are told apart.
LEMMA PlannedIsNear ==
  ASSUME Inv
  PROVE  PlanIsJustified
  <1> SUFFICES ASSUME Done, WellSeparated, NEW wf \in Planned
               PROVE  wf \in WorkflowsNear
    BY DEF PlanIsJustified
  <1>1. wf \in DOMAIN paths /\ wf[1] = "workflow"
    BY DEF Planned, Known
  <1>2. W!IInv /\ maxDepth = 4 /\ DInv
    BY AtTheEnd DEF Inv
  <1>3. PICK q : q = paths[wf]
    OBVIOUS
  <1>4. q \in Seq(Relations) /\ q # <<>>
    BY <1>1, <1>2, <1>3 DEF W!IInv, W!TypeOK
  <1>5. W!PathsExplain
    BY <1>2, WalkAssumptions, W!PathsHold
  <1>6. /\ q[1].from \in Range(seeds) /\ q[Len(q)].to = wf /\ Len(q) <= 4
        /\ \A k \in 1 .. Len(q) : Recorded(q[k])
        /\ \A k \in 1 .. Len(q) - 1 : q[k].to = q[k + 1].from
    BY <1>1, <1>2, <1>3, <1>5 DEF W!PathsExplain, W!Explains, W!Range, Range, Recorded
  <1>7. PICK n \in 1 .. 4 : n = Len(q)
    <2>1. Len(q) \in Nat /\ Len(q) # 0
      BY <1>4
    <2>2. PICK m : m = Len(q)
      OBVIOUS
    <2>3. m \in Nat /\ m # 0 /\ m <= 4
      BY <1>6, <2>1, <2>2, Zenon
    <2>4. m \in 1 .. 4
      BY <2>3
    <2> QED
      BY <2>2, <2>4
  <1> DEFINE N0 == ChangedServices
             N1 == WithDependencies(N0)
             N2 == WithDependencies(N1)
             N3 == WithDependencies(N2)
  <1>8. N0 \subseteq N1 /\ N1 \subseteq N2 /\ N2 \subseteq N3 /\ N2 = Near
    BY DEF WithDependencies, Near
  <1>9. InZone(q[1].to, N0, {})
    BY <1>6, <1>7, FirstZone
  <1>10. ASSUME n >= 2 PROVE InZone(q[2].to, N1, N0)
    <2>1. q[2].from = q[1].to /\ Recorded(q[2])
      BY <1>6, <1>7, <1>10
    <2> QED
      BY <1>2, <1>9, <2>1, ZonesGrow
  <1>11. ASSUME n >= 3 PROVE InZone(q[3].to, N2, N1)
    <2>1. q[3].from = q[2].to /\ Recorded(q[3])
      BY <1>6, <1>7, <1>11
    <2> QED
      BY <1>2, <1>7, <1>8, <1>10, <1>11, <2>1, ZonesGrow
  <1>12. ASSUME n = 4 PROVE InZone(q[4].to, N3, N2)
    <2>1. q[4].from = q[3].to /\ Recorded(q[4])
      BY <1>6, <1>7, <1>12
    <2> QED
      BY <1>2, <1>7, <1>8, <1>11, <1>12, <2>1, ZonesGrow
  <1>13. ASSUME NEW names, NEW closer, closer \subseteq Near, InZone(wf, names, closer)
         PROVE  wf \in WorkflowsNear
    <2>1. PICK s \in Range(services) : s.name \in closer /\ wf \in WorkflowsOf(s)
      BY <1>1, <1>13, IdsDiffer DEF InZone
    <2> QED
      BY <1>13, <2>1 DEF WorkflowsNear
  <1> HIDE DEF N0, N1, N2, N3
  <1>14. CASE n = 1
    BY <1>6, <1>7, <1>9, <1>13, <1>14
  <1>15. CASE n = 2
    BY <1>6, <1>7, <1>8, <1>10, <1>13, <1>15
  <1>16. CASE n = 3
    BY <1>6, <1>7, <1>8, <1>11, <1>13, <1>16
  <1>17. CASE n = 4
    BY <1>6, <1>7, <1>8, <1>12, <1>13, <1>17
  <1> QED
    BY <1>7, <1>14, <1>15, <1>16, <1>17

\* Where services are told apart, the plan goes no further than it should.
THEOREM PlansAreJustified == Spec => []PlanIsJustified
  <1>1. Inv => PlanIsJustified
    BY PlannedIsNear
  <1> QED
    BY <1>1, ImpactInvariant, PTL

-----------------------------------------------------------------------------
(* The verification                                                        *)

\* A path names one scenario, whichever services have it.
LEMMA ContentsAreOne ==
  ASSUME DInv, NEW s, NEW g \in Range(Files(s))
  PROVE  g \in ScenarioFiles /\ Contents(g.file) = g.scenario
  <1>1. repo \in Repos
    BY DEF DInv, Progress
  <1>2. g \in ScenarioFiles
    BY DEF ScenarioFiles, Files, Readable, Range
  <1>3. \A e \in ScenarioFiles : e.file = g.file => e = g
    BY <1>1, <1>2, ReposAssumption DEF ScenarioFiles
  <1>4. (CHOOSE e \in ScenarioFiles : e.file = g.file) = g
    BY <1>2, <1>3
  <1> QED
    BY <1>2, <1>4 DEF Contents

\* When all that was planned has passed, so have the scenarios that are near.
LEMMA GreenIsNear ==
  ASSUME Inv
  PROVE  GreenVerifyCoversNear
  <1> SUFFICES ASSUME Done, IsCommand, request.verify, exit = 0, NEW f \in FilesNear
               PROVE  \E g \in ScenarioFiles :
                        /\ g.scenario # Invalid
                        /\ g.scenario.name = f.scenario.name
                        /\ g.file \in Passed
                        /\ Range(g.scenario.steps) \ {NoName} \subseteq DeclaredNames
    BY DEF GreenVerifyCoversNear
  <1>1. DInv /\ Verifying /\ Exits
    BY DEF Inv
  <1>2. PICK s \in Range(services) : s.name \in Near /\ f \in Range(Files(s)) /\ f.scenario # Invalid
    BY DEF FilesNear
  <1>3. WorkflowId(f.scenario.name) \in Planned
    BY <1>2, NearIsPlanned DEF ChangedServicesVerified, WorkflowsNear, WorkflowsOf
  <1>4. /\ toRun # None /\ Len(results) = Len(toRun) /\ FALSE \notin Range(results)
        /\ toRun \in Seq(Paths) /\ Range(toRun) = {PlannedFile(wf) : wf \in Planned}
        /\ results \in Seq(BOOLEAN)
    <2>1. Planned # {}
      BY <1>3
    <2>2. toRun # None /\ Len(results) = Len(toRun) /\ FALSE \notin Range(results)
      BY <1>1, <2>1, Zenon DEF Exits
    <2> QED
      BY <1>1, <2>2, Zenon DEF Verifying
  <1>5. PICK t, g : /\ g \in Range(Files(t)) /\ g.scenario # Invalid /\ g.scenario.name = f.scenario.name
                    /\ PlannedFile(WorkflowId(f.scenario.name)) = g.file
    <2>1. PICK t \in Range(services) : \E g \in Range(Files(t)) :
            /\ g.scenario # Invalid /\ WorkflowId(f.scenario.name) = WorkflowId(g.scenario.name)
            /\ PlannedFile(WorkflowId(f.scenario.name)) = g.file
      BY <1>1, <1>3, PlannedIsScenario
    <2>2. PICK g \in Range(Files(t)) :
            /\ g.scenario # Invalid /\ WorkflowId(f.scenario.name) = WorkflowId(g.scenario.name)
            /\ PlannedFile(WorkflowId(f.scenario.name)) = g.file
      BY <2>1
    <2>3. g.scenario.name = f.scenario.name
      BY <2>2, IdsDiffer
    <2> QED
      BY <2>2, <2>3
  <1>6. g \in ScenarioFiles /\ Contents(g.file) = g.scenario
    BY <1>1, <1>5, ContentsAreOne
  <1>7. PICK k \in 1 .. Len(toRun) : toRun[k] = g.file
    BY <1>3, <1>4, <1>5 DEF Range
  <1>8. k \in DOMAIN results /\ results[k]
    <2>1. k \in DOMAIN results /\ results[k] \in BOOLEAN /\ results[k] \in Range(results)
      BY <1>4, <1>7 DEF Range
    <2>2. results[k] # FALSE
      BY <1>4, <2>1, Zenon
    <2> QED
      BY <2>1, <2>2, Zenon
  <1>9. g.file \in Passed
    BY <1>7, <1>8 DEF Passed
  <1>10. MayPass(g.scenario)
    <2>1. MayPass(Contents(toRun[k]))
      BY <1>1, <1>4, <1>7, <1>8 DEF Verifying
    <2> QED
      BY <1>6, <1>7, <2>1
  <1> QED
    BY <1>5, <1>6, <1>9, <1>10 DEF MayPass

\* A verification that exits with 0 has run what the change could break, and it
\* all passed.
THEOREM GreenCoversNear == Spec => []GreenVerifyCoversNear
  <1>1. Inv => GreenVerifyCoversNear
    BY GreenIsNear
  <1> QED
    BY <1>1, ImpactInvariant, PTL

-----------------------------------------------------------------------------
(* The selectors                                                           *)

\* How many of two are in a set.
LEMMA OfTwo ==
  ASSUME NEW a, NEW b, a # b, NEW G
  PROVE  /\ a \in G /\ b \in G => Cardinality({a, b} \cap G) = 2
         /\ a \in G /\ b \notin G => Cardinality({a, b} \cap G) = 1
         /\ a \notin G /\ b \in G => Cardinality({a, b} \cap G) = 1
         /\ a \notin G /\ b \notin G => Cardinality({a, b} \cap G) = 0
  <1>1. IsFiniteSet({a}) /\ Cardinality({a}) = 1 /\ IsFiniteSet({b}) /\ Cardinality({b}) = 1
    BY FS_Singleton
  <1>2. Cardinality({a, b}) = 2
    <2>1. {a} \cup {b} = {a, b}
      OBVIOUS
    <2>2. Cardinality({a} \cup {b}) = 1 + 1
      BY <1>1, FS_AddElement
    <2> QED
      BY <2>1, <2>2
  <1>3. Cardinality({}) = 0
    BY FS_EmptySet
  <1>4. CASE a \in G /\ b \in G
    <2>1. {a, b} \cap G = {a, b}
      BY <1>4
    <2> QED
      BY <1>2, <1>4, <2>1
  <1>5. CASE a \in G /\ b \notin G
    <2>1. {a, b} \cap G = {a}
      BY <1>5
    <2> QED
      BY <1>1, <1>5, <2>1
  <1>6. CASE a \notin G /\ b \in G
    <2>1. {a, b} \cap G = {b}
      BY <1>6
    <2> QED
      BY <1>1, <1>6, <2>1
  <1>7. CASE a \notin G /\ b \notin G
    <2>1. {a, b} \cap G = {}
      BY <1>7
    <2> QED
      BY <1>3, <1>7, <2>1
  <1> QED
    BY <1>4, <1>5, <1>6, <1>7

\* Whether more than one of three are in it.
LEMMA OfThree ==
  ASSUME NEW a, NEW b, NEW c, a # b, c \notin {a, b}, NEW G
  PROVE  Cardinality({a, b, c} \cap G) > 1 <=>
           (a \in G /\ b \in G) \/ (b \in G /\ c \in G) \/ (a \in G /\ c \in G)
  <1> DEFINE T == {a, b} \cap G
  <1>1. IsFiniteSet(T)
    <2>1. IsFiniteSet({a, b})
      <3>1. IsFiniteSet({a}) /\ {a} \cup {b} = {a, b}
        BY FS_Singleton
      <3> QED
        BY <3>1, FS_AddElement
    <2> QED
      BY <2>1, FS_Subset
  <1>2. c \notin T /\ Cardinality(T) \in Nat
    BY <1>1, FS_CardinalityType
  <1>3. CASE c \in G
    <2>1. {a, b, c} \cap G = T \cup {c}
      BY <1>3
    <2>2. Cardinality(T \cup {c}) = Cardinality(T) + 1
      BY <1>1, <1>2, FS_AddElement
    <2>3. Cardinality(T) > 0 <=> a \in G \/ b \in G
      BY OfTwo
    <2> HIDE DEF T
    <2>4. Cardinality({a, b, c} \cap G) = Cardinality(T) + 1
      BY <2>1, <2>2
    <2> QED
      BY <1>2, <1>3, <2>3, <2>4
  <1>4. CASE c \notin G
    <2>1. {a, b, c} \cap G = T
      BY <1>4
    <2> QED
      BY <1>2, <1>4, <2>1, OfTwo
  <1> QED
    BY <1>3, <1>4

\* When a request is refused for what it selects.
LEMMA WhatIsRefused ==
  ASSUME NEW r
  PROVE  LET commit == "commit" \in r.given
             base   == "base" \in r.given
             head   == "head" \in r.given
             pr     == "pr" \in r.given
             bad    == ~(base <=> head) \/ (commit /\ base) \/ (base /\ pr) \/ (commit /\ pr)
         IN /\ ToolRefuses(r) <=> bad
            /\ CommandRefuses(r) <=> r.format \notin {"text", "json"} \/ bad
  <1> DEFINE G == r.given
  <1>1. Cardinality({"commit", "base", "pr"} \cap G) > 1 <=>
          \/ "commit" \in G /\ "base" \in G
          \/ "base" \in G /\ "pr" \in G
          \/ "commit" \in G /\ "pr" \in G
    BY OfThree
  <1>2. Cardinality({"base", "head"} \cap G) = 1 <=> ~("base" \in G <=> "head" \in G)
    BY OfTwo
  <1>3. {"base", "head"} \cap G = {} <=> "base" \notin G /\ "head" \notin G
    OBVIOUS
  <1>4. /\ "commit" \in G /\ "pr" \in G => Cardinality({"commit", "pr"} \cap G) = 2
        /\ "commit" \in G /\ "pr" \notin G => Cardinality({"commit", "pr"} \cap G) = 1
        /\ "commit" \notin G /\ "pr" \in G => Cardinality({"commit", "pr"} \cap G) = 1
        /\ "commit" \notin G /\ "pr" \notin G => Cardinality({"commit", "pr"} \cap G) = 0
    BY OfTwo
  <1>5. CommandRefuses(r) <=>
          \/ r.format \notin {"text", "json"}
          \/ ~("base" \in G <=> "head" \in G)
          \/ Cardinality({"commit", "base", "pr"} \cap G) > 1
    BY DEF CommandRefuses
  <1>6. ToolRefuses(r) <=>
          \/ Cardinality({"commit", "pr"} \cap G) + (IF {"base", "head"} \cap G = {} THEN 0 ELSE 1) > 1
          \/ Cardinality({"base", "head"} \cap G) = 1
    BY DEF ToolRefuses
  <1> HIDE DEF G
  <1>7. ToolRefuses(r) <=> \/ ~("base" \in G <=> "head" \in G)
                           \/ "commit" \in G /\ "base" \in G
                           \/ "base" \in G /\ "pr" \in G
                           \/ "commit" \in G /\ "pr" \in G
    BY <1>2, <1>3, <1>4, <1>6
  <1>8. CommandRefuses(r) <=> \/ r.format \notin {"text", "json"}
                              \/ ~("base" \in G <=> "head" \in G)
                              \/ "commit" \in G /\ "base" \in G
                              \/ "base" \in G /\ "pr" \in G
                              \/ "commit" \in G /\ "pr" \in G
    BY <1>1, <1>5
  <1> QED
    BY <1>7, <1>8 DEF G

\* What is analyzed is what was asked for.
LEMMA SelectorsCount ==
  ASSUME Inv
  PROVE  NoSelectorIgnored
  <1>1. /\ request.given \subseteq {"commit", "base", "head", "pr"}
        /\ request.surface \in {"command", "tool"} /\ request.format \in {"text", "json", "yaml"}
    BY RequestsAssumption DEF Inv, Asked, Selectors
  <1>2. ASSUME source # None PROVE request.given = Selected(source)
    <2>1. source = SourceOf(request) /\ ~Refuses(request)
      BY <1>2 DEF Inv, Asked
    <2>2. /\ "base" \in request.given <=> "head" \in request.given
          /\ ~("commit" \in request.given /\ "base" \in request.given)
          /\ ~("base" \in request.given /\ "pr" \in request.given)
          /\ ~("commit" \in request.given /\ "pr" \in request.given)
      BY <2>1, WhatIsRefused DEF Refuses
    <2>3. CASE "commit" \in request.given
      <3>1. source = "commit" /\ request.given = {"commit"}
        BY <1>1, <2>1, <2>2, <2>3 DEF SourceOf
      <3> QED
        BY <3>1 DEF Selected
    <2>4. CASE "base" \in request.given
      <3>1. source = "range" /\ request.given = {"base", "head"}
        BY <1>1, <2>1, <2>2, <2>4 DEF SourceOf
      <3> QED
        BY <3>1 DEF Selected
    <2>5. CASE "pr" \in request.given
      <3>1. source = "pull request" /\ request.given = {"pr"}
        BY <1>1, <2>1, <2>2, <2>5 DEF SourceOf
      <3> QED
        BY <3>1 DEF Selected
    <2>6. CASE /\ "commit" \notin request.given /\ "base" \notin request.given
               /\ "pr" \notin request.given
      <3>1. source = "working tree" /\ request.given = {}
        BY <1>1, <2>1, <2>2, <2>6 DEF SourceOf
      <3> QED
        BY <3>1 DEF Selected
    <2> QED
      BY <2>3, <2>4, <2>5, <2>6
  <1>3. request.format # "yaml" => (CommandRefuses(request) <=> ToolRefuses(request))
    BY <1>1, WhatIsRefused
  <1> QED
    BY <1>2, <1>3 DEF NoSelectorIgnored

\* No selector is passed over, and the command refuses what the tools refuse.
THEOREM SelectorsAreHonoured == Spec => []NoSelectorIgnored
  <1>1. Inv => NoSelectorIgnored
    BY SelectorsCount
  <1> QED
    BY <1>1, ImpactInvariant, PTL
=============================================================================
