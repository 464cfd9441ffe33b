---------------------------- MODULE RunCommandProofs ----------------------------
(***************************************************************************)
(* What holds of kaktoos run for any scenarios, keys, tags and command     *)
(* lines, and whatever the runs of the scenarios come to: the exit code    *)
(* and the two reports that machines read tell the truth about them.       *)
(***************************************************************************)
EXTENDS RunCommand, FiniteSetTheorems, WellFoundedInduction, SequenceTheorems, TLAPS

-----------------------------------------------------------------------------
(* The scenarios that are selected                                         *)

\* A nonempty set of natural numbers has a least element.
LEMMA LeastElement ==
  ASSUME NEW T \in SUBSET Nat, T # {}
  PROVE  \E n \in T : \A m \in T : n <= m
  <1> DEFINE below == {ss \in Nat \X Nat : ss[1] < ss[2]}
  <1>1. IsWellFoundedOn(below, Nat)
    BY NatLessThanWellFounded DEF OpToRel
  <1> HIDE DEF below
  <1>2. PICK x \in T : \A y \in T : ~ (<<y, x>> \in below)
    BY <1>1, WFMin
  <1>3. ASSUME NEW y \in T PROVE x <= y
    <2>1. ~ (<<y, x>> \in below)
      BY <1>2
    <2> QED
      BY <2>1 DEF below
  <1> QED
    BY <1>3

\* Whether f is the list of the first n scenarios of i that match, as it grows.
Filters(f, n, i) ==
  f = [k \in 0 .. n |->
         IF k = 0 THEN <<>>
         ELSE IF Matches(i, i.given[k]) THEN Append(f[k - 1], i.given[k])
         ELSE f[k - 1]]

\* Its entries.
LEMMA FiltersStep ==
  ASSUME NEW i, NEW n, NEW f, Filters(f, n, i), NEW k \in 0 .. n
  PROVE  f[k] = IF k = 0 THEN <<>>
                ELSE IF Matches(i, i.given[k]) THEN Append(f[k - 1], i.given[k])
                ELSE f[k - 1]
  <1> DEFINE h == [j \in 0 .. n |->
                     IF j = 0 THEN <<>>
                     ELSE IF Matches(i, i.given[j]) THEN Append(f[j - 1], i.given[j])
                     ELSE f[j - 1]]
  <1>1. f = h
    BY DEF Filters
  <1>2. h[k] = IF k = 0 THEN <<>>
               ELSE IF Matches(i, i.given[k]) THEN Append(f[k - 1], i.given[k])
               ELSE f[k - 1]
    OBVIOUS
  <1> HIDE DEF h
  <1> QED
    BY <1>1, <1>2

\* The list can be grown to any length.
LEMMA FiltersExists ==
  ASSUME NEW i, NEW n \in Nat
  PROVE  \E f : Filters(f, n, i)
  <1> DEFINE missing == {m \in Nat : ~ \E f : Filters(f, m, i)}
  <1> SUFFICES ASSUME missing # {} PROVE FALSE
    OBVIOUS
  <1>1. PICK m \in missing : \A j \in missing : m <= j
    BY LeastElement
  <1>2. CASE m = 0
    <2>1. Filters([k \in 0 .. 0 |-> <<>>], 0, i)
      BY DEF Filters
    <2> QED
      BY <1>1, <1>2, <2>1
  <1>3. CASE m # 0
    <2>1. m - 1 \in Nat /\ m - 1 \notin missing
      BY <1>1, <1>3
    <2>2. PICK f : Filters(f, m - 1, i)
      BY <2>1
    <2> DEFINE last == IF Matches(i, i.given[m]) THEN Append(f[m - 1], i.given[m]) ELSE f[m - 1]
               g == [k \in 0 .. m |-> IF k = m THEN last ELSE f[k]]
    <2>3. ASSUME NEW k \in 0 .. m, k # 0, k # m PROVE
            f[k] = IF Matches(i, i.given[k]) THEN Append(f[k - 1], i.given[k]) ELSE f[k - 1]
      <3>1. k \in 0 .. m - 1
        BY <2>1, <2>3
      <3> QED
        BY <2>2, <2>3, <3>1, FiltersStep
    <2>4. f[0] = <<>>
      <3>1. 0 \in 0 .. m - 1
        BY <2>1
      <3> QED
        BY <2>2, <3>1, FiltersStep
    <2>5. ASSUME NEW k \in 0 .. m PROVE
            g[k] = IF k = 0 THEN <<>>
                   ELSE IF Matches(i, i.given[k]) THEN Append(g[k - 1], i.given[k])
                   ELSE g[k - 1]
      <3>1. CASE k = 0
        BY <1>3, <2>4, <3>1
      <3>2. CASE k # 0
        <4>1. k - 1 \in 0 .. m /\ k - 1 # m /\ g[k - 1] = f[k - 1]
          BY <2>1, <3>2
        <4> QED
          BY <2>3, <3>2, <4>1
      <3> QED
        BY <3>1, <3>2
    <2>6. Filters(g, m, i)
      <3>1. g = [k \in 0 .. m |-> g[k]]
        OBVIOUS
      <3> HIDE DEF g
      <3> QED
        BY <2>5, <3>1 DEF Filters
    <2> QED
      BY <1>1, <2>6
  <1> QED
    BY <1>2, <1>3

\* What is selected are scenarios that were given and match, and all of them.
LEMMA SelectionIsExact ==
  ASSUME NEW i \in Invocations
  PROVE  /\ Selection(i) \in Seq(Scenarios)
         /\ Range(Selection(i)) = {s \in Range(i.given) : Matches(i, s)}
  <1> DEFINE n == Len(i.given)
             F == CHOOSE f : Filters(f, n, i)
             Chosen(k) == {s \in Scenarios : Matches(i, s) /\ \E j \in 1 .. k : i.given[j] = s}
             Right(k) == F[k] \in Seq(Scenarios) /\ {F[k][j] : j \in 1 .. Len(F[k])} = Chosen(k)
  <1>1. i.given \in Seq(Scenarios)
    BY InvocationsAssumption
  <1>2. n \in Nat /\ \A k \in 1 .. n : i.given[k] \in Scenarios
    BY <1>1, LenProperties, ElementOfSeq
  <1>3. Selection(i) = F[n]
    BY DEF Selection, Filters
  <1>4. Filters(F, n, i)
    BY <1>2, FiltersExists
  <1> HIDE DEF F
  <1>5. F[0] = <<>>
    BY <1>2, <1>4, FiltersStep
  <1>6. ASSUME NEW k \in 1 .. n
        PROVE  F[k] = IF Matches(i, i.given[k]) THEN Append(F[k - 1], i.given[k]) ELSE F[k - 1]
    BY <1>2, <1>4, FiltersStep
  <1>7. Right(0)
    BY <1>5
  <1>8. ASSUME NEW k \in 1 .. n, Right(k - 1) PROVE Right(k)
    <2>1. Chosen(k) = IF Matches(i, i.given[k]) THEN Chosen(k - 1) \cup {i.given[k]} ELSE Chosen(k - 1)
      <3>1. 1 .. k = (1 .. k - 1) \cup {k}
        BY <1>2
      <3>2. ASSUME NEW s \in Scenarios
            PROVE  (\E j \in 1 .. k : i.given[j] = s) <=> (\E j \in 1 .. k - 1 : i.given[j] = s) \/ i.given[k] = s
        BY <3>1
      <3> QED
        BY <1>2, <3>2
    <2>2. CASE Matches(i, i.given[k])
      <3> DEFINE t == F[k - 1]
                 x == i.given[k]
      <3>1. F[k] = Append(t, x) /\ t \in Seq(Scenarios) /\ x \in Scenarios
        BY <1>2, <1>6, <1>8, <2>2
      <3> HIDE DEF t, x
      <3>2. /\ Append(t, x) \in Seq(Scenarios) /\ Len(t) \in Nat /\ Len(Append(t, x)) = Len(t) + 1
            /\ \A j \in 1 .. Len(t) : Append(t, x)[j] = t[j]
            /\ Append(t, x)[Len(t) + 1] = x
        BY <3>1, AppendProperties, LenProperties
      <3>3. {Append(t, x)[j] : j \in 1 .. Len(Append(t, x))} = {t[j] : j \in 1 .. Len(t)} \cup {x}
        <4>1. 1 .. Len(t) + 1 = (1 .. Len(t)) \cup {Len(t) + 1}
          BY <3>2
        <4> QED
          BY <3>2, <4>1
      <3>4. {t[j] : j \in 1 .. Len(t)} = Chosen(k - 1)
        BY <1>8 DEF t
      <3>5. Chosen(k) = Chosen(k - 1) \cup {x}
        BY <2>1, <2>2 DEF x
      <3> HIDE DEF Chosen
      <3> QED
        BY <3>1, <3>2, <3>3, <3>4, <3>5
    <2>3. CASE ~Matches(i, i.given[k])
      <3>1. F[k] = F[k - 1]
        BY <1>6, <2>3
      <3> QED
        BY <1>8, <2>1, <2>3, <3>1
    <2> QED
      BY <2>2, <2>3
  <1>9. Right(n)
    <2> DEFINE wrong == {k \in 0 .. n : ~Right(k)}
    <2> HIDE DEF Right
    <2>1. wrong \in SUBSET Nat
      OBVIOUS
    <2>2. ASSUME wrong # {} PROVE FALSE
      <3>1. PICK k \in wrong : \A j \in wrong : k <= j
        BY <2>1, <2>2, LeastElement
      <3>2. k # 0
        BY <1>7, <3>1
      <3>3. k \in 1 .. n /\ k - 1 \in 0 .. n /\ k - 1 \notin wrong
        BY <1>2, <3>1, <3>2
      <3> QED
        BY <1>8, <3>1, <3>3
    <2> QED
      BY <1>2, <2>2
  <1>10. Range(F[n]) = {F[n][j] : j \in 1 .. Len(F[n])}
    BY <1>9 DEF Range
  <1>11. Chosen(n) = {s \in Range(i.given) : Matches(i, s)}
    <2>1. DOMAIN i.given = 1 .. n
      BY <1>1, LenProperties
    <2> QED
      BY <1>2, <2>1 DEF Range
  <1> QED
    BY <1>3, <1>9, <1>10, <1>11

-----------------------------------------------------------------------------
(* The results of the runs                                                 *)

Executions == UNION {{ExecutionResult(s, o, Verdict(o)) : o \in Outcomes(s)} : s \in Scenarios}

Rejections == {ExecutionResult(s, <<>>, "FAILED") : s \in Scenarios}

Recalls == {Rebuilt(r) : r \in Executions}

Results == Executions \cup Rejections \cup Recalls

\* A step that failed has a category, and no other step has one.
LEMMA StepStatus ==
  ASSUME NEW kind, NEW x \in StepResults(kind)
  PROVE  /\ x.status \in Failures \cup {"PASSED", "SKIPPED"}
         /\ x.status \in Failures <=> x.cat # "none"
  BY DEF StepResults, Failed, StepResult, AnsweredCategories, Failures

\* An execution has a result for each step of its scenario.
LEMMA OutcomeType ==
  ASSUME NEW s \in Scenarios, NEW o \in Outcomes(s)
  PROVE  /\ Len(o) = Len(s.steps) /\ Len(o) \in Nat /\ DOMAIN o = 1 .. Len(o)
         /\ \A k \in DOMAIN o :
              /\ o[k].status \in Failures \cup {"PASSED", "SKIPPED"}
              /\ o[k].status \in Failures <=> o[k].cat # "none"
              /\ o[k].status = "SKIPPED" => FailedBefore(o, k)
  <1> DEFINE S == UNION {StepResults(kind) : kind \in {"http", "condition"}}
             T == [kind : {"http", "condition"}, always : BOOLEAN]
  <1>1. s.steps \in Seq(T)
    BY ScenariosAssumption
  <1> HIDE DEF T
  <1>2. DOMAIN s.steps = 1 .. Len(s.steps) /\ Len(s.steps) \in Nat
    BY <1>1, LenProperties
  <1>3. o \in [DOMAIN s.steps -> S]
        /\ \A k \in DOMAIN s.steps :
             /\ o[k] \in StepResults(s.steps[k].kind)
             /\ o[k].status = "SKIPPED" <=> FailedBefore(o, k) /\ ~s.steps[k].always
    BY DEF Outcomes
  <1> HIDE DEF S
  <1>4. o \in Seq(S) /\ DOMAIN o = 1 .. Len(s.steps)
    BY <1>2, <1>3
  <1>5. Len(o) = Len(s.steps)
    BY <1>2, <1>4, LenProperties
  <1> QED
    BY <1>2, <1>3, <1>4, <1>5, StepStatus

\* The verdict on a run is PASSED if and only if no step failed, and then no step
\* was skipped.
LEMMA VerdictIsRight ==
  ASSUME NEW s \in Scenarios, NEW o \in Outcomes(s)
  PROVE  /\ Verdict(o) = "PASSED" => \A k \in DOMAIN o : o[k].status = "PASSED"
         /\ Verdict(o) # "PASSED" => \E k \in DOMAIN o : o[k].status \in Failures
  <1>1. Len(o) \in Nat /\ DOMAIN o = 1 .. Len(o)
    BY OutcomeType
  <1>2. FailedBefore(o, Len(o) + 1) <=> \E k \in DOMAIN o : o[k].status \in Failures
    BY <1>1 DEF FailedBefore
  <1>3. ASSUME NEW k \in DOMAIN o, FailedBefore(o, k) PROVE FailedBefore(o, Len(o) + 1)
    BY <1>1, <1>3 DEF FailedBefore
  <1>4. Verdict(o) = "PASSED" <=> ~FailedBefore(o, Len(o) + 1)
    BY DEF Verdict
  <1> QED
    BY <1>2, <1>3, <1>4, OutcomeType

\* What a result is made of, whether it was executed, refused or recalled.
LEMMA ResultType ==
  ASSUME NEW r \in Results
  PROVE  /\ r.of \in Scenarios /\ r.passed \in BOOLEAN /\ r.replayed \in BOOLEAN
         /\ r.status = "TIMED_OUT" => ~r.passed
         /\ r.passed => /\ Len(r.steps) = Len(r.of.steps)
                        /\ \A k \in DOMAIN r.steps : r.steps[k].status = "PASSED"
         /\ ~r.replayed =>
              /\ r.steps = <<>> \/ (r.steps \in Outcomes(r.of) /\ r.passed = (Verdict(r.steps) = "PASSED"))
  <1>1. CASE r \in Executions
    <2>0. PICK s \in Scenarios : \E o \in Outcomes(s) : r = ExecutionResult(s, o, Verdict(o))
      BY <1>1 DEF Executions
    <2>1. PICK o \in Outcomes(s) : r = ExecutionResult(s, o, Verdict(o))
      BY <2>0
    <2>2. r.of = s /\ r.steps = o /\ r.status = Verdict(o) /\ r.passed = (Verdict(o) = "PASSED")
          /\ r.replayed = FALSE
      BY <2>1 DEF ExecutionResult
    <2>3. r.passed \in BOOLEAN /\ r.replayed \in BOOLEAN /\ (r.status = "TIMED_OUT" => ~r.passed)
      BY <2>2
    <2>4. ASSUME r.passed
          PROVE  Len(r.steps) = Len(r.of.steps) /\ \A k \in DOMAIN r.steps : r.steps[k].status = "PASSED"
      <3>1. Verdict(o) = "PASSED"
        BY <2>2, <2>4
      <3> QED
        BY <2>2, <3>1, OutcomeType, VerdictIsRight
    <2>5. r.steps \in Outcomes(r.of) /\ r.passed = (Verdict(r.steps) = "PASSED")
      BY <2>2
    <2> QED
      BY <2>2, <2>3, <2>4, <2>5
  <1>2. CASE r \in Rejections
    <2>1. PICK s \in Scenarios : r = ExecutionResult(s, <<>>, "FAILED")
      BY <1>2 DEF Rejections
    <2>2. r.of = s /\ r.steps = <<>> /\ r.status = "FAILED" /\ r.passed = FALSE /\ r.replayed = FALSE
      BY <2>1 DEF ExecutionResult
    <2> QED
      BY <2>2
  <1>3. CASE r \in Recalls
    <2>0. PICK s \in Scenarios : \E o \in Outcomes(s) : r = Rebuilt(ExecutionResult(s, o, Verdict(o)))
      BY <1>3 DEF Recalls, Executions
    <2>1. PICK o \in Outcomes(s) : r = Rebuilt(ExecutionResult(s, o, Verdict(o)))
      BY <2>0
    <2> DEFINE p == [k \in DOMAIN o |-> StepResult(o[k].status, "none", "none", o[k].says, FALSE)]
    <2>2. r.of = s /\ r.steps = p /\ r.status = Verdict(o) /\ r.passed = (Verdict(o) = "PASSED")
          /\ r.replayed = TRUE
      BY <2>1 DEF ExecutionResult, Rebuilt
    <2>3. DOMAIN p = DOMAIN o /\ \A k \in DOMAIN o : p[k].status = o[k].status
      BY DEF StepResult
    <2>4. Len(p) = Len(o)
      <3>1. Len(o) \in Nat /\ DOMAIN o = 1 .. Len(o)
        BY OutcomeType
      <3>2. p = [k \in 1 .. Len(o) |-> p[k]]
        BY <2>3, <3>1
      <3> HIDE DEF p
      <3>3. p \in Seq({p[k] : k \in 1 .. Len(o)})
        BY <3>1, <3>2
      <3> QED
        BY <2>3, <3>1, <3>3, LenProperties
    <2> HIDE DEF p
    <2>5. r.passed \in BOOLEAN /\ r.replayed \in BOOLEAN /\ (r.status = "TIMED_OUT" => ~r.passed)
      BY <2>2
    <2>6. ASSUME r.passed
          PROVE  Len(r.steps) = Len(r.of.steps) /\ \A k \in DOMAIN r.steps : r.steps[k].status = "PASSED"
      <3>1. Verdict(o) = "PASSED"
        BY <2>2, <2>6
      <3> QED
        BY <2>2, <2>3, <2>4, <3>1, OutcomeType, VerdictIsRight
    <2> QED
      BY <2>2, <2>5, <2>6
  <1> QED
    BY <1>1, <1>2, <1>3 DEF Results

\* A result has the steps its run had, each passed, skipped or failed, and one
\* failed unless the run passed or had no steps; an executed one has categories.
LEMMA StepsOfResult ==
  ASSUME NEW r \in Results
  PROVE  /\ Len(r.steps) \in Nat /\ DOMAIN r.steps = 1 .. Len(r.steps)
         /\ \A k \in DOMAIN r.steps : r.steps[k].status \in Failures \cup {"PASSED", "SKIPPED"}
         /\ (\A k \in DOMAIN r.steps : r.steps[k].status \notin Failures) => r.passed \/ r.steps = <<>>
         /\ ~r.replayed => \A k \in DOMAIN r.steps :
                             r.steps[k].status \in Failures => r.steps[k].cat # "none"
  <1>1. CASE r \in Executions
    <2>0. PICK s \in Scenarios : \E o \in Outcomes(s) : r = ExecutionResult(s, o, Verdict(o))
      BY <1>1 DEF Executions
    <2>1. PICK o \in Outcomes(s) : r = ExecutionResult(s, o, Verdict(o))
      BY <2>0
    <2>2. r.steps = o /\ r.passed = (Verdict(o) = "PASSED")
      BY <2>1 DEF ExecutionResult
    <2> QED
      BY <2>2, OutcomeType, VerdictIsRight
  <1>2. CASE r \in Rejections
    <2>1. PICK s \in Scenarios : r = ExecutionResult(s, <<>>, "FAILED")
      BY <1>2 DEF Rejections
    <2>2. r.steps = <<>> /\ Len(<<>>) = 0
      BY <2>1, EmptySeq DEF ExecutionResult
    <2> QED
      BY <2>2
  <1>3. CASE r \in Recalls
    <2>0. PICK s \in Scenarios : \E o \in Outcomes(s) : r = Rebuilt(ExecutionResult(s, o, Verdict(o)))
      BY <1>3 DEF Recalls, Executions
    <2>1. PICK o \in Outcomes(s) : r = Rebuilt(ExecutionResult(s, o, Verdict(o)))
      BY <2>0
    <2> DEFINE p == [k \in DOMAIN o |-> StepResult(o[k].status, "none", "none", o[k].says, FALSE)]
    <2>2. r.steps = p /\ r.passed = (Verdict(o) = "PASSED") /\ r.replayed = TRUE
      BY <2>1 DEF ExecutionResult, Rebuilt
    <2>3. DOMAIN p = DOMAIN o /\ \A k \in DOMAIN o : p[k].status = o[k].status
      BY DEF StepResult
    <2>4. Len(o) \in Nat /\ DOMAIN o = 1 .. Len(o)
      BY OutcomeType
    <2>5. Len(p) = Len(o)
      <3>1. p = [k \in 1 .. Len(o) |-> p[k]]
        BY <2>3, <2>4
      <3> HIDE DEF p
      <3>2. p \in Seq({p[k] : k \in 1 .. Len(o)})
        BY <2>4, <3>1
      <3> QED
        BY <2>3, <2>4, <3>2, LenProperties
    <2> HIDE DEF p
    <2> QED
      BY <2>2, <2>3, <2>4, <2>5, OutcomeType, VerdictIsRight
  <1> QED
    BY <1>1, <1>2, <1>3 DEF Results

-----------------------------------------------------------------------------
(* The loop over the scenarios                                             *)

\* The k-th result is of the k-th scenario, or of another one with its key.
ResultOf(k) ==
  \/ results[k].of = selected[k]
  \/ results[k].replayed /\ results[k].of.key = selected[k].key

RunTypes ==
  /\ inv \in Invocations
  /\ stage \in {"start", "run", "report", "exited"}
  /\ selected \in Seq(Scenarios)
  /\ results \in Seq(Results)
  /\ memory \in [Keys -> Executions \cup {None}]

\* What is recorded for a key is a run of a scenario with that key.
KeysRemembered == \A key \in Keys : memory[key] # None => memory[key].of.key = key

\* The results are those of the selected scenarios so far, and of all of them
\* once they are reported or the exit code speaks for them.
RunSoFar ==
  /\ Len(results) <= Len(selected)
  /\ \A k \in 1 .. Len(results) : ResultOf(k)
  /\ stage = "start" => results = <<>>
  /\ stage = "run" \/ results # <<>> => selected = Selection(inv)
  /\ stage = "report" => results # <<>> /\ Len(results) = Len(selected)
  /\ stage # "exited" => exit = None
  /\ stage = "exited" /\ results = <<>> => exit # 0
  /\ stage = "exited" /\ results # <<>> =>
       Len(results) = Len(selected) /\ exit = ExitCode(results)

RunInv == RunTypes /\ KeysRemembered /\ RunSoFar

\* An execution is remembered and returned for the scenario whose turn it is.
LEMMA AppendResult ==
  ASSUME RunTypes, RunSoFar, MoreToRun, NEW r \in Results, Return(r),
         r.of = Scenario \/ (r.replayed /\ r.of.key = Scenario.key)
  PROVE  /\ results' \in Seq(Results) /\ RunSoFar'
         /\ inv' = inv /\ stage' = stage /\ selected' = selected
  <1>1. results \in Seq(Results) /\ selected \in Seq(Scenarios)
    BY DEF RunTypes
  <1>2. Len(results) \in Nat /\ Len(selected) \in Nat /\ Len(results) < Len(selected) /\ stage = "run"
    BY <1>1, LenProperties DEF MoreToRun
  <1>3. /\ results' \in Seq(Results) /\ Len(results') = Len(results) + 1
        /\ \A k \in 1 .. Len(results) : results'[k] = results[k]
        /\ results'[Len(results) + 1] = r
    BY <1>1, AppendProperties DEF Return
  <1>4. inv' = inv /\ stage' = stage /\ selected' = selected /\ exit' = exit
    BY DEF Return
  <1>5. ASSUME NEW k \in 1 .. Len(results') PROVE ResultOf(k)'
    <2>1. CASE k = Len(results) + 1
      BY <1>3, <1>4, <2>1 DEF ResultOf, Scenario
    <2>2. CASE k # Len(results) + 1
      <3>1. k \in 1 .. Len(results)
        BY <1>2, <1>3, <2>2
      <3> QED
        BY <1>3, <1>4, <3>1 DEF ResultOf, RunSoFar
    <2> QED
      BY <2>1, <2>2
  <1>6. selected' = Selection(inv')
    BY <1>2, <1>4 DEF RunSoFar
  <1>7. Len(results') <= Len(selected') /\ exit' = None
    BY <1>2, <1>3, <1>4 DEF RunSoFar
  <1> QED
    BY <1>2, <1>3, <1>4, <1>5, <1>6, <1>7 DEF RunSoFar

\* Every step keeps the invariant.
LEMMA RunInductive ==
  ASSUME RunInv, [Next]_vars
  PROVE  RunInv'
  <1>1. RunTypes /\ KeysRemembered /\ RunSoFar
    BY DEF RunInv
  <1>2. ASSUME UNCHANGED <<inv, selected, memory, results>>
        PROVE  /\ stage' \in {"start", "run", "report", "exited"} => RunTypes'
               /\ KeysRemembered'
               /\ Len(results') <= Len(selected') /\ \A k \in 1 .. Len(results') : ResultOf(k)'
    BY <1>1, <1>2 DEF RunTypes, KeysRemembered, RunSoFar, ResultOf
  <1>3. ASSUME NEW n, Exit(n), results = <<>>, n # 0 PROVE RunInv'
    BY <1>1, <1>2, <1>3 DEF Exit, RunInv, RunSoFar
  <1>4. CASE RejectFlags \/ FailToLoad
    BY <1>1, <1>3, <1>4 DEF RejectFlags, FailToLoad, RunSoFar
  <1>5. CASE Select
    <2>1. inv' = inv /\ stage' = "run" /\ results' = results /\ memory' = memory /\ exit' = exit
          /\ selected' = Selection(inv) /\ stage = "start"
      BY <1>5 DEF Select
    <2>2. selected' \in Seq(Scenarios)
      BY <1>1, <2>1, SelectionIsExact DEF RunTypes
    <2>3. results = <<>> /\ Len(results) = 0 /\ Len(selected') \in Nat
      BY <1>1, <2>1, <2>2, LenProperties, EmptySeq DEF RunSoFar
    <2>4. RunTypes' /\ KeysRemembered'
      BY <1>1, <2>1, <2>2 DEF RunTypes, KeysRemembered
    <2>5. RunSoFar'
      BY <1>1, <2>1, <2>3 DEF RunSoFar
    <2> QED
      BY <2>4, <2>5 DEF RunInv
  <1>6. CASE NothingSelected
    <2>1. Len(selected) = 0 /\ results \in Seq(Results) /\ Len(results) <= Len(selected)
      BY <1>1, <1>6, EmptySeq DEF NothingSelected, RunTypes, RunSoFar
    <2>2. results = <<>>
      BY <2>1, EmptySeq
    <2> QED
      BY <1>3, <1>6, <2>2 DEF NothingSelected
  <1>7. CASE RejectKey \/ Replay \/ Execute
    <2>1. MoreToRun
      BY <1>7 DEF RejectKey, Replay, Execute
    <2>2. Scenario \in Scenarios
      <3>1. selected \in Seq(Scenarios) /\ results \in Seq(Results)
        BY <1>1 DEF RunTypes
      <3>2. Len(results) + 1 \in 1 .. Len(selected)
        BY <2>1, <3>1, LenProperties DEF MoreToRun
      <3> QED
        BY <3>1, <3>2, ElementOfSeq DEF Scenario
    <2>3. CASE RejectKey
      <3> DEFINE r == ExecutionResult(Scenario, <<>>, "FAILED")
      <3>1. r \in Results /\ r.of = Scenario
        BY <2>2 DEF Results, Rejections, ExecutionResult
      <3>2. Return(r) /\ memory' = memory
        BY <2>3 DEF RejectKey
      <3> HIDE DEF r
      <3> QED
        BY <1>1, <2>1, <3>1, <3>2, AppendResult DEF RunInv, RunTypes, KeysRemembered
    <2>4. CASE Replay
      <3> DEFINE q == memory[Scenario.key]
      <3>1. Scenario.key \in Keys /\ q # None
        BY <2>4 DEF Replay, Replayable
      <3>2. q \in Executions /\ q.of.key = Scenario.key
        BY <1>1, <3>1 DEF RunTypes, KeysRemembered
      <3>3. Return(Rebuilt(q)) /\ memory' = memory
        BY <2>4 DEF Replay
      <3> HIDE DEF q
      <3>4. Rebuilt(q) \in Results
        BY <3>2 DEF Results, Recalls
      <3>5. Rebuilt(q).of = q.of /\ Rebuilt(q).replayed = TRUE
        BY <3>2 DEF Executions, ExecutionResult, Rebuilt
      <3> QED
        BY <1>1, <2>1, <3>2, <3>3, <3>4, <3>5, AppendResult DEF RunInv, RunTypes, KeysRemembered
    <2>5. CASE Execute
      <3>1. PICK o \in Outcomes(Scenario) :
              LET x == ExecutionResult(Scenario, o, Verdict(o))
              IN /\ Return(x)
                 /\ memory' = [k \in Keys |->
                                 IF k = Scenario.key /\ k # EmptyKey THEN x ELSE memory[k]]
        BY <2>5 DEF Execute
      <3> DEFINE r == ExecutionResult(Scenario, o, Verdict(o))
      <3>2. r \in Executions /\ r.of = Scenario
        <4>1. r \in {ExecutionResult(Scenario, x, Verdict(x)) : x \in Outcomes(Scenario)}
          OBVIOUS
        <4>2. r \in Executions
          BY <2>2, <4>1 DEF Executions
        <4> QED
          BY <4>2 DEF ExecutionResult
      <3>3. Return(r) /\ memory' = [k \in Keys |->
                                     IF k = Scenario.key /\ k # EmptyKey THEN r ELSE memory[k]]
        BY <3>1
      <3> HIDE DEF r
      <3>4. memory' \in [Keys -> Executions \cup {None}] /\ KeysRemembered'
        BY <1>1, <3>2, <3>3 DEF RunTypes, KeysRemembered
      <3>5. r \in Results
        BY <3>2 DEF Results
      <3> QED
        BY <1>1, <2>1, <3>2, <3>3, <3>4, <3>5, AppendResult DEF RunInv, RunTypes
    <2> QED
      BY <1>7, <2>3, <2>4, <2>5
  <1>8. CASE StartReport
    <2>1. UNCHANGED <<inv, selected, memory, results, exit>> /\ stage' = "report"
          /\ stage = "run" /\ selected # <<>> /\ Len(results) = Len(selected)
      BY <1>8 DEF StartReport
    <2>2. results # <<>>
      BY <1>1, <2>1, EmptySeq DEF RunTypes
    <2> QED
      BY <1>1, <1>2, <2>1, <2>2 DEF RunInv, RunSoFar
  <1>9. CASE ReportResult
    <2>1. UNCHANGED <<inv, stage, selected, memory, results, exit>>
      BY <1>9 DEF ReportResult
    <2> QED
      BY <1>1, <1>2, <2>1 DEF RunInv, RunTypes, RunSoFar
  <1>10. CASE Finish
    <2>1. UNCHANGED <<inv, selected, memory, results>> /\ stage' = "exited"
          /\ stage = "report" /\ exit' = ExitCode(results)
      BY <1>10 DEF Finish, Exit
    <2>2. ExitCode(results)' = ExitCode(results)
      BY <2>1 DEF ExitCode
    <2> QED
      BY <1>1, <1>2, <2>1, <2>2 DEF RunInv, RunSoFar
  <1>11. CASE Exited \/ UNCHANGED vars
    <2>1. UNCHANGED <<inv, stage, selected, memory, results, exit>>
      BY <1>11 DEF Exited, vars
    <2>2. ExitCode(results)' = ExitCode(results)
      BY <2>1 DEF ExitCode
    <2> QED
      BY <1>1, <1>2, <2>1, <2>2 DEF RunInv, RunTypes, RunSoFar
  <1> QED
    BY <1>4, <1>5, <1>6, <1>7, <1>8, <1>9, <1>10, <1>11 DEF Next

\* The invariant holds at every moment.
LEMMA RunInvariant == Spec => []RunInv
  <1>1. Init => RunInv
    <2> SUFFICES ASSUME Init PROVE RunInv
      OBVIOUS
    <2>1. results = <<>> /\ selected = <<>> /\ Len(results) = 0 /\ Len(selected) = 0
          /\ <<>> \in Seq(Scenarios) /\ <<>> \in Seq(Results)
      BY EmptySeq DEF Init
    <2> QED
      BY <2>1 DEF Init, RunInv, RunTypes, KeysRemembered, RunSoFar
  <1> QED
    BY <1>1, RunInductive, PTL DEF Spec

\* kaktoos exits with 0 only if every scenario it was given and that matches the
\* filters passed in every step, now or in a run of its key.
THEOREM GreenIsEarned == Spec => []GreenMeansAllPassed
  <1>1. RunInv => GreenMeansAllPassed
    <2> SUFFICES ASSUME RunTypes, RunSoFar, exit = 0 PROVE
                   /\ results # <<>> /\ Len(results) = Len(selected)
                   /\ Range(selected) = {s \in Range(inv.given) : Matches(inv, s)}
                   /\ \A k \in DOMAIN results :
                        /\ ResultOf(k)
                        /\ Len(results[k].steps) = Len(results[k].of.steps)
                        /\ \A j \in DOMAIN results[k].steps : results[k].steps[j].status = "PASSED"
      BY DEF RunInv, GreenMeansAllPassed, ResultOf
    <2>1. stage = "exited" /\ results # <<>> /\ Len(results) = Len(selected) /\ ExitCode(results) = 0
      BY NoneAssumption DEF RunTypes, RunSoFar
    <2>2. Range(selected) = {s \in Range(inv.given) : Matches(inv, s)}
      BY <2>1, SelectionIsExact DEF RunTypes, RunSoFar
    <2>3. results \in Seq(Results) /\ DOMAIN results = 1 .. Len(results)
      BY LenProperties DEF RunTypes
    <2>4. ASSUME NEW k \in DOMAIN results
          PROVE  /\ ResultOf(k)
                 /\ Len(results[k].steps) = Len(results[k].of.steps)
                 /\ \A j \in DOMAIN results[k].steps : results[k].steps[j].status = "PASSED"
      <3>1. results[k] \in Results /\ results[k].passed /\ ResultOf(k)
        BY <2>1, <2>3, ElementOfSeq DEF ExitCode, RunSoFar
      <3> QED
        BY <3>1, ResultType
    <2> QED
      BY <2>1, <2>2, <2>4
  <1> QED
    BY <1>1, RunInvariant, PTL

-----------------------------------------------------------------------------
(* The reports                                                             *)

\* The loop of the report goes over the results once.
Reporting ==
  /\ at \in 1 .. Len(results) + 1
  /\ stage \in {"start", "run"} => at = 1
  /\ stage = "exited" /\ results # <<>> => at = Len(results) + 1

\* The summary counts the results reported so far.
Summed ==
  /\ summary \in [total : Nat, passed : Nat, failed : Nat, timedOut : Nat]
  /\ inv.format = "json" =>
       /\ summary.total = at - 1 /\ summary.passed + summary.failed = at - 1
       /\ summary.timedOut <= summary.failed
       /\ summary.failed = 0 <=> \A k \in 1 .. at - 1 : results[k].passed

Suites == {Suite(r) : r \in Results}

\* There is a suite for each result reported so far.
Suited ==
  /\ suites \in Seq(Suites)
  /\ inv.format = "junit" =>
       Len(suites) = at - 1 /\ \A k \in 1 .. at - 1 : suites[k] = Suite(results[k])

ReportInv == Reporting /\ Summed /\ Suited

\* The reports of a command that has not run are empty.
LEMMA ReportInitial == Init => ReportInv
  <1> SUFFICES ASSUME Init PROVE ReportInv
    OBVIOUS
  <1>1. suites \in Seq(Suites) /\ Len(suites) = 0 /\ Len(results) = 0
    BY EmptySeq DEF Init
  <1> QED
    BY <1>1 DEF Init, ReportInv, Reporting, Summed, Suited

\* Every step keeps them: they count what has been run, once each.
LEMMA ReportInductive ==
  ASSUME RunInv, ReportInv, [Next]_vars
  PROVE  ReportInv'
  <1>1. RunTypes /\ RunSoFar /\ Reporting /\ Summed /\ Suited
    BY DEF RunInv, ReportInv
  <1>2. results \in Seq(Results) /\ Len(results) \in Nat /\ at \in Nat
    BY <1>1, LenProperties DEF RunTypes, Reporting
  <1>3. \A k \in 1 .. Len(results) : results[k] \in Results
    BY <1>2, ElementOfSeq
  <1>4. ASSUME UNCHANGED <<inv, results, at, summary, suites>>,
               stage' \in {"start", "run"} => stage \in {"start", "run"},
               stage' = "exited" /\ results # <<>> => at = Len(results) + 1
        PROVE  ReportInv'
    BY <1>1, <1>4 DEF ReportInv, Reporting, Summed, Suited
  <1>5. CASE RejectFlags \/ FailToLoad
    BY <1>1, <1>4, <1>5 DEF RejectFlags, FailToLoad, Exit, RunSoFar
  <1>6. CASE Select
    BY <1>1, <1>4, <1>6 DEF Select, RunSoFar
  <1>7. CASE NothingSelected
    <2>1. Len(selected) = 0
      BY <1>7, EmptySeq DEF NothingSelected
    <2>2. results = <<>>
      BY <1>1, <1>2, <2>1, EmptySeq DEF RunSoFar
    <2> QED
      BY <1>4, <1>7, <2>2 DEF NothingSelected, Exit
  <1>8. CASE RejectKey \/ Replay \/ Execute
    <2>1. UNCHANGED <<inv, stage, at, summary, suites>> /\ stage = "run"
      BY <1>8 DEF RejectKey, Replay, Execute, Return, MoreToRun
    <2>2. at = 1 /\ 1 .. at - 1 = {}
      BY <1>1, <2>1 DEF Reporting
    <2>3. results' \in Seq(Results)
      BY RunInductive DEF RunInv, RunTypes
    <2>4. at' \in 1 .. Len(results') + 1
      BY <2>1, <2>2, <2>3, LenProperties
    <2> QED
      BY <1>1, <2>1, <2>2, <2>4 DEF ReportInv, Reporting, Summed, Suited
  <1>9. CASE StartReport
    BY <1>1, <1>4, <1>9 DEF StartReport
  <1>10. CASE ReportResult
    <2> DEFINE r == results[at]
    <2>1. /\ UNCHANGED <<inv, stage, results>> /\ stage = "report" /\ at' = at + 1
          /\ at \in 1 .. Len(results) /\ at' \in 1 .. Len(results) + 1
          /\ summary' = IF inv.format = "json" THEN Counted(summary, r) ELSE summary
          /\ suites' = IF inv.format = "junit" THEN Append(suites, Suite(r)) ELSE suites
      BY <1>1, <1>2, <1>10 DEF ReportResult, Reporting
    <2>2. r \in Results /\ r.passed \in BOOLEAN /\ (r.status = "TIMED_OUT" => ~r.passed)
      BY <1>3, <2>1, ResultType
    <2>3. Reporting'
      BY <2>1 DEF Reporting
    <2>4. 1 .. at' - 1 = (1 .. at - 1) \cup {at}
      BY <1>2, <2>1
    <2>5. Summed'
      <3>1. CASE inv.format # "json"
        BY <1>1, <2>1, <3>1 DEF Summed
      <3>2. CASE inv.format = "json"
        <4>1. (\A k \in 1 .. at' - 1 : results'[k].passed) <=>
                (\A k \in 1 .. at - 1 : results[k].passed) /\ r.passed
          BY <2>1, <2>4
        <4>2. summary' = Counted(summary, r)
          BY <2>1, <3>2
        <4> HIDE DEF r
        <4>3. /\ summary'.total = summary.total + 1
              /\ summary'.passed = summary.passed + (IF r.passed THEN 1 ELSE 0)
              /\ summary'.failed = summary.failed + (IF r.passed THEN 0 ELSE 1)
              /\ summary'.timedOut = summary.timedOut + (IF r.status = "TIMED_OUT" THEN 1 ELSE 0)
              /\ summary' \in [total : Nat, passed : Nat, failed : Nat, timedOut : Nat]
          BY <1>1, <4>2 DEF Summed, Counted
        <4>4. /\ summary.total \in Nat /\ summary.passed \in Nat
              /\ summary.failed \in Nat /\ summary.timedOut \in Nat
              /\ summary.total = at - 1 /\ summary.passed + summary.failed = at - 1
              /\ summary.timedOut <= summary.failed
              /\ summary.failed = 0 <=> \A k \in 1 .. at - 1 : results[k].passed
          BY <1>1, <3>2 DEF Summed
        <4>5. /\ summary'.total = at' - 1 /\ summary'.passed + summary'.failed = at' - 1
              /\ summary'.timedOut <= summary'.failed
          <5>1. r.status = "TIMED_OUT" => ~r.passed
            BY <2>2 DEF r
          <5>2. at' = at + 1 /\ at \in Nat
            BY <1>2, <2>1
          <5>3. CASE r.passed
            BY <4>3, <4>4, <5>1, <5>2, <5>3
          <5>4. CASE ~r.passed
            BY <4>3, <4>4, <5>2, <5>4
          <5> QED
            BY <5>3, <5>4
        <4>6. summary'.failed = 0 <=> \A k \in 1 .. at' - 1 : results'[k].passed
          <5>1. CASE r.passed
            BY <4>1, <4>3, <4>4, <5>1
          <5>2. CASE ~r.passed
            <6>1. summary'.failed # 0
              BY <4>3, <4>4, <5>2
            <6> QED
              BY <4>1, <5>2, <6>1
          <5> QED
            BY <5>1, <5>2
        <4> QED
          BY <2>1, <4>3, <4>5, <4>6 DEF Summed
      <3> QED
        BY <3>1, <3>2
    <2>6. Suited'
      <3>1. CASE inv.format # "junit"
        BY <1>1, <2>1, <3>1 DEF Suited
      <3>2. CASE inv.format = "junit"
        <4>1. suites \in Seq(Suites) /\ Suite(r) \in Suites /\ Len(suites) = at - 1
          BY <1>1, <2>2, <3>2 DEF Suited, Suites
        <4>2. suites' = Append(suites, Suite(r))
          BY <2>1, <3>2
        <4>3. /\ suites' \in Seq(Suites) /\ Len(suites') = at
              /\ \A k \in 1 .. at - 1 : suites'[k] = suites[k]
              /\ suites'[at] = Suite(r)
          BY <1>2, <4>1, <4>2, AppendProperties
        <4>4. \A k \in 1 .. at' - 1 : suites'[k] = Suite(results'[k])
          BY <1>1, <2>1, <2>4, <3>2, <4>3 DEF Suited
        <4> QED
          BY <1>2, <2>1, <4>3, <4>4 DEF Suited
      <3> QED
        BY <3>1, <3>2
    <2> QED
      BY <2>3, <2>5, <2>6 DEF ReportInv
  <1>11. CASE Finish
    <2>1. UNCHANGED <<inv, results, at, summary, suites>> /\ stage' = "exited" /\ at > Len(results)
      BY <1>11 DEF Finish, Exit
    <2>2. at = Len(results) + 1
      BY <1>1, <1>2, <2>1 DEF Reporting
    <2> QED
      BY <1>4, <2>1, <2>2
  <1>12. CASE Exited \/ UNCHANGED vars
    <2>1. UNCHANGED <<inv, stage, results, at, summary, suites>>
      BY <1>12 DEF Exited, vars
    <2> QED
      BY <1>1, <2>1 DEF ReportInv, Reporting, Summed, Suited
  <1> QED
    BY <1>5, <1>6, <1>7, <1>8, <1>9, <1>10, <1>11, <1>12 DEF Next

\* The reports are those of the results at every moment.
LEMMA ReportInvariant == Spec => [](RunInv /\ ReportInv)
  BY ReportInitial, ReportInductive, RunInvariant, PTL DEF Spec

\* The JSON summary and the exit code, which go over the results apart, agree.
THEOREM SummaryIsHonest == Spec => []SummaryAgreesWithExit
  <1>1. RunInv /\ ReportInv => SummaryAgreesWithExit
    <2> SUFFICES ASSUME RunTypes, RunSoFar, Reporting, Summed,
                        stage = "exited", results # <<>>, inv.format = "json"
                 PROVE  /\ summary.total = Len(selected)
                        /\ summary.total = summary.passed + summary.failed
                        /\ summary.timedOut <= summary.failed
                        /\ summary.failed = 0 <=> exit = 0
      BY DEF RunInv, ReportInv, SummaryAgreesWithExit, Reported
    <2>1. results \in Seq(Results) /\ Len(results) \in Nat /\ DOMAIN results = 1 .. Len(results)
      BY LenProperties DEF RunTypes
    <2>2. at - 1 = Len(results) /\ Len(results) = Len(selected) /\ exit = ExitCode(results)
      BY <2>1 DEF Reporting, RunSoFar
    <2>3. exit = 0 <=> \A k \in 1 .. at - 1 : results[k].passed
      BY <2>1, <2>2 DEF ExitCode
    <2> QED
      BY <2>2, <2>3 DEF Summed
  <1> QED
    BY <1>1, ReportInvariant, PTL

FailedSteps(steps) == {n \in DOMAIN steps : steps[n].status \in Failures}

\* The steps of an execution that both texts make a failure, and those that
\* neither does.
Red(steps) == {n \in FailedSteps(steps) : RedByCategory(steps[n]) /\ RedByComment(steps[n])}
Blue(steps) == {n \in FailedSteps(steps) : ~RedByCategory(steps[n]) /\ ~RedByComment(steps[n])}

\* A suite counts each failed step once, of a run executed or recalled, and
\* there are none only if the run passed or had no steps; what the texts agree
\* about is routed as they say if the run was executed.
LEMMA SuiteOfResult ==
  ASSUME NEW r \in Results
  PROVE  /\ Suite(r).failures + Suite(r).errors = Cardinality(FailedSteps(r.steps))
         /\ FailedSteps(r.steps) = {} => r.passed \/ r.steps = <<>>
         /\ ~r.replayed => /\ Suite(r).failures >= Cardinality(Red(r.steps))
                           /\ Suite(r).errors >= Cardinality(Blue(r.steps))
  <1> DEFINE o == r.steps
             U == FailedSteps(o)
             F == {k \in U : IsAssertionFailure(o[k])}
  <1>1. /\ Len(o) \in Nat /\ DOMAIN o = 1 .. Len(o)
        /\ \A k \in DOMAIN o : o[k].status \in Failures \cup {"PASSED", "SKIPPED"}
        /\ (\A k \in DOMAIN o : o[k].status \notin Failures) => r.passed \/ o = <<>>
    BY StepsOfResult
  <1>2. ASSUME ~r.replayed PROVE \A k \in U : o[k].cat # "none"
    BY <1>2, StepsOfResult DEF FailedSteps
  <1> HIDE DEF o
  <1>3. JUnitFailed(o) = U
    <2>1. ASSUME NEW k \in DOMAIN o
          PROVE  o[k].status \notin {"PASSED", "SKIPPED"} <=> o[k].status \in Failures
      BY <1>1 DEF Failures
    <2> QED
      BY <2>1 DEF JUnitFailed, FailedSteps
  <1>4. Suite(r).failures = Cardinality(F) /\ Suite(r).errors = Cardinality(U \ F)
    BY <1>3 DEF Suite, o
  <1>5. IsFiniteSet(U)
    <2>1. IsFiniteSet(DOMAIN o)
      BY <1>1, FS_Interval
    <2> QED
      BY <2>1, FS_Subset DEF FailedSteps
  <1>6. F \subseteq U
    OBVIOUS
  <1>7. ASSUME ~r.replayed PROVE Red(o) \subseteq F /\ Blue(o) \subseteq U \ F
    BY <1>2, <1>7 DEF Red, Blue, RedByCategory, IsAssertionFailure
  <1>8. U = {} => r.passed \/ o = <<>>
    BY <1>1 DEF FailedSteps
  <1> HIDE DEF U, F
  <1>9. /\ IsFiniteSet(F) /\ IsFiniteSet(U \ F)
        /\ Cardinality(F) + Cardinality(U \ F) = Cardinality(U)
    <2>1. U \cap F = F
      BY <1>6
    <2>2. IsFiniteSet(U \ F) /\ Cardinality(U \ F) = Cardinality(U) - Cardinality(U \cap F)
      BY <1>5, FS_Difference
    <2>3. IsFiniteSet(F)
      BY <1>5, <1>6, FS_Subset
    <2>4. Cardinality(F) \in Nat /\ Cardinality(U) \in Nat /\ Cardinality(U \ F) \in Nat
      BY <1>5, <2>2, <2>3, FS_CardinalityType
    <2> DEFINE f == Cardinality(F)
               u == Cardinality(U)
               rest == Cardinality(U \ F)
    <2>5. rest = u - f /\ f \in Nat /\ u \in Nat /\ rest \in Nat
      BY <2>1, <2>2, <2>4
    <2> HIDE DEF f, u, rest
    <2>6. f + rest = u
      BY <2>5
    <2> QED
      BY <2>2, <2>3, <2>6 DEF f, u, rest
  <1>10. ASSUME ~r.replayed
         PROVE  Cardinality(F) >= Cardinality(Red(o)) /\ Cardinality(U \ F) >= Cardinality(Blue(o))
    <2>1. /\ IsFiniteSet(Red(o)) /\ Cardinality(Red(o)) <= Cardinality(F)
          /\ IsFiniteSet(Blue(o)) /\ Cardinality(Blue(o)) <= Cardinality(U \ F)
      BY <1>7, <1>9, <1>10, FS_Subset
    <2>2. /\ Cardinality(Red(o)) \in Nat /\ Cardinality(Blue(o)) \in Nat
          /\ Cardinality(F) \in Nat /\ Cardinality(U \ F) \in Nat
      BY <1>9, <2>1, FS_CardinalityType
    <2> QED
      BY <2>1, <2>2
  <1> QED
    BY <1>4, <1>8, <1>9, <1>10 DEF o, U

\* The JUnit report counts every failed step once, executed or recalled, and of
\* what was executed it routes each step the documentation agrees about by what
\* the step came to, whatever the wording of its error is.
THEOREM SuitesAreRouted == Spec => []JUnitRoutesByCategory
  <1>1. RunInv /\ ReportInv => JUnitRoutesByCategory
    <2> SUFFICES ASSUME RunTypes, RunSoFar, Reporting, Suited,
                        stage = "exited", results # <<>>, inv.format = "junit"
                 PROVE  JUnitRoutesByCategory
      BY DEF RunInv, ReportInv, JUnitRoutesByCategory, Reported
    <2>1. results \in Seq(Results) /\ Len(results) \in Nat /\ DOMAIN results = 1 .. Len(results)
      BY LenProperties DEF RunTypes
    <2>2. at - 1 = Len(results) /\ Len(suites) = Len(results)
          /\ \A k \in 1 .. Len(results) : suites[k] = Suite(results[k])
      BY <2>1 DEF Reporting, Suited
    <2>3. ASSUME NEW k \in DOMAIN results
          PROVE  LET steps  == results[k].steps
                     failed == {n \in DOMAIN steps : steps[n].status \in Failures}
                 IN /\ suites[k].failures + suites[k].errors = Cardinality(failed)
                    /\ failed = {} => results[k].passed \/ steps = <<>>
                    /\ ~results[k].replayed =>
                         /\ suites[k].failures >=
                              Cardinality({n \in failed : RedByCategory(steps[n]) /\ RedByComment(steps[n])})
                         /\ suites[k].errors >=
                              Cardinality({n \in failed : ~RedByCategory(steps[n]) /\ ~RedByComment(steps[n])})
      <3>1. results[k] \in Results /\ suites[k] = Suite(results[k])
        BY <2>1, <2>2, ElementOfSeq
      <3> QED
        BY <3>1, SuiteOfResult DEF Red, Blue, FailedSteps
    <2> QED
      BY <2>2, <2>3, Zenon DEF JUnitRoutesByCategory
  <1> QED
    BY <1>1, ReportInvariant, PTL
=============================================================================
