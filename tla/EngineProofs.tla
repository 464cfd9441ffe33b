---------------------------- MODULE EngineProofs ----------------------------
(***************************************************************************)
(* What holds of every run of the engine: for every set of scenarios, of   *)
(* status codes, of variables and values, whatever the target answers and  *)
(* wherever the deadlines fall.                                            *)
(*                                                                         *)
(* First the discipline of steps (IInv), the deadline of the workflow and  *)
(* the refinement of ScenarioRun.tla.  Then what a run does with its       *)
(* requests (AInv) and its variables (VInv): AttemptsJustified and         *)
(* VariablesFlow speak of the recorded results only, and what has to be    *)
(* true of the attempts of the step in hand, so that it still is when they *)
(* are recorded, is said there.                                            *)
(***************************************************************************)
EXTENDS Engine, SequenceTheorems, FiniteSetTheorems, TLAPS

-----------------------------------------------------------------------------
(* The types of what the actions build                                     *)

\* The last element of a sequence is one of its elements.
LEMMA LastInSeq ==
  ASSUME NEW S, NEW q \in Seq(S), q # <<>>
  PROVE  q[Len(q)] \in S
  OBVIOUS

\* Classify always names a category: no failed attempt goes unclassified.
LEMMA ClassifyType == ASSUME NEW in PROVE Classify(in) \in Categories
  BY DEF Classify, Categories

\* A failed attempt is an attempt.
LEMMA FailedAttemptType ==
  ASSUME NEW c \in Codes \cup {0}, NEW built \in BOOLEAN, NEW transport,
         NEW badExtract, NEW violated
  PROVE  FailedAttempt(c, built, transport, badExtract, violated) \in Attempts
  <1> DEFINE in == [status    |-> c,
                    violated  |-> violated,
                    transport |-> transport,
                    timedOut  |-> FALSE,
                    config    |-> (c = 0 /\ transport = "nil") \/ badExtract]
  <1>1. Classify(in) \in Categories
    BY ClassifyType
  <1> HIDE DEF in
  <1>2. [passed |-> FALSE, code |-> c, cat |-> Classify(in), built |-> built] \in Attempts
    BY <1>1 DEF Attempts
  <1> QED
    BY <1>2 DEF FailedAttempt, in

\* A passed attempt is an attempt.
LEMMA PassedAttemptType ==
  ASSUME NEW c \in Codes \cup {0} PROVE PassedAttempt(c) \in Attempts
  BY DEF PassedAttempt, Attempts

\* The results the engine appends are results: a failure has a category, and
\* nothing else has one.
LEMMA ResultTypes ==
  /\ SkippedResult \in Results
  /\ \A s : ConditionResult(s) \in Results
  /\ \A tries \in Seq(Attempts) : TimeoutResult(tries) \in Results
  /\ \A tries \in Seq(Attempts) : tries # <<>> => FinalResult(tries) \in Results
  <1>1. <<>> \in Seq(Attempts)
    OBVIOUS
  <1>2. SkippedResult \in Results
    BY <1>1 DEF SkippedResult, Results
  <1>3. ASSUME NEW s PROVE ConditionResult(s) \in Results
    BY <1>1 DEF ConditionResult, ConditionCategory, Results, Failures, Categories
  <1>4. ASSUME NEW tries \in Seq(Attempts) PROVE TimeoutResult(tries) \in Results
    <2>1. (tries # <<>> /\ Traced(tries[Len(tries)])) \in BOOLEAN
      OBVIOUS
    <2> QED
      BY <2>1 DEF TimeoutResult, Results, Failures, Categories
  <1>5. ASSUME NEW tries \in Seq(Attempts), tries # <<>> PROVE FinalResult(tries) \in Results
    <2> DEFINE a == tries[Len(tries)]
    <2>1. a \in Attempts
      BY <1>5, LastInSeq
    <2> HIDE DEF a
    <2>2. CASE a.passed
      BY <2>1, <2>2 DEF FinalResult, Results, Attempts, a
    <2>3. CASE ~a.passed
      <3>1. a.cat \in Categories /\ a.built \in BOOLEAN
        BY <2>1, <2>3 DEF Attempts
      <3> QED
        BY <2>3, <3>1 DEF FinalResult, Results, Failures, a
    <2> QED
      BY <2>2, <2>3
  <1> QED
    BY <1>2, <1>3, <1>4, <1>5

-----------------------------------------------------------------------------
(* The type invariant                                                      *)

\* While a step is being executed it is one of the scenario's.
LEMMA StepType ==
  ASSUME TypeOK, cur <= Len(run.steps)
  PROVE  /\ cur \in 1 .. Len(run.steps)
         /\ Step \in HttpSteps \cup ConditionSteps
  <1>1. run.steps \in Seq(HttpSteps \cup ConditionSteps)
    BY RunsAssumption DEF TypeOK
  <1>2. Len(results) \in Nat
    BY LenProperties DEF TypeOK
  <1>3. Len(run.steps) \in Nat
    BY <1>1, LenProperties
  <1>4. cur \in 1 .. Len(run.steps)
    BY <1>2, <1>3 DEF cur
  <1> QED
    BY <1>1, <1>4, ElementOfSeq DEF Step

\* Recording a result keeps the types.
LEMMA DecideType ==
  ASSUME TypeOK, cur <= Len(run.steps), NEW r \in Results, Decide(r)
  PROVE  TypeOK'
  <1>1. results' \in Seq(Results) /\ Len(results') = Len(results) + 1
    BY DEF TypeOK, Decide
  <1>2. Len(results') <= Len(run.steps)
    BY <1>1 DEF cur
  <1>3. stepFailed' \in BOOLEAN
    BY DEF TypeOK, Decide
  <1>4. attempts' \in Seq(Attempts)
    BY EmptySeq DEF Decide
  <1> QED
    BY <1>1, <1>2, <1>3, <1>4 DEF TypeOK, Decide, Locations

\* Ending an attempt keeps the types, if the store keeps its own.
LEMMA EndAttemptType ==
  ASSUME TypeOK, NEW a \in Attempts, EndAttempt(a),
         store' \in [Vars -> Values \cup {Absent}],
         writer' \in [Vars -> 0 .. Len(run.steps)]
  PROVE  TypeOK'
  BY DEF TypeOK, EndAttempt, Recorded, Locations

\* So does moving on within executeStep.
LEMMA GotoType ==
  ASSUME TypeOK, NEW l \in Locations, Goto(l)
  PROVE  TypeOK'
  BY DEF TypeOK, Goto

\* A run starts with every variable in its type.
LEMMA TypeInitial == Init => TypeOK
  <1> SUFFICES ASSUME Init PROVE TypeOK
    OBVIOUS
  <1>1. run.steps \in Seq(HttpSteps \cup ConditionSteps)
    BY RunsAssumption DEF Init
  <1>2. Len(run.steps) \in Nat
    BY <1>1, LenProperties
  <1>3. /\ results \in Seq(Results) /\ Len(results) <= Len(run.steps)
        /\ attempts \in Seq(Attempts)
    BY <1>2, EmptySeq DEF Init
  <1>4. /\ sent \in [1 .. Len(run.steps) -> Nat]
        /\ writer \in [Vars -> 0 .. Len(run.steps)]
    BY <1>2 DEF Init
  <1>5. store \in [Vars -> Values \cup {Absent}]
    BY SeedsAssumption DEF Init
  <1> QED
    BY <1>3, <1>4, <1>5 DEF Init, TypeOK, Locations

\* Every action keeps the types; what Bookkeeping says of the location is
\* needed where a step is decided or an attempt recorded.
LEMMA TypeInductive ==
  ASSUME TypeOK, Bookkeeping, [Next]_vars
  PROVE  TypeOK'
  <1>1. ASSUME pc \notin {"loop", "done"} PROVE cur <= Len(run.steps)
    BY <1>1 DEF Bookkeeping
  <1>2. /\ store \in [Vars -> Values \cup {Absent}]
        /\ writer \in [Vars -> 0 .. Len(run.steps)]
        /\ code \in Codes \cup {0}
        /\ attempts \in Seq(Attempts)
    BY DEF TypeOK
  <1>3. ASSUME NEW a \in Attempts, EndAttempt(a), UNCHANGED <<store, writer>>
        PROVE  TypeOK'
    BY <1>2, <1>3, EndAttemptType
  <1>4. CASE SkipStep
    BY <1>4, DecideType, ResultTypes DEF SkipStep, AtStep
  <1>5. CASE ConditionStep
    BY <1>5, DecideType, ResultTypes DEF ConditionStep, AtStep
  <1>6. CASE StartStep
    BY <1>6 DEF StartStep, TypeOK, Locations
  <1>7. CASE Conclude
    BY <1>7 DEF Conclude, RunStatus, TypeOK, Locations
  <1>8. CASE Admitted
    BY <1>8, GotoType DEF Admitted, Locations
  <1>9. CASE Refused
    BY <1>9, <1>1, <1>2, DecideType, ResultTypes DEF Refused
  <1>10. CASE GiveUp
    BY <1>10, <1>1, <1>2, DecideType, ResultTypes DEF GiveUp
  <1>11. CASE Return
    <2>1. attempts # <<>>
      BY <1>11 DEF Return, Bookkeeping
    <2> QED
      BY <1>11, <2>1, <1>1, <1>2, DecideType, ResultTypes DEF Return
  <1>12. CASE Retry
    BY <1>12, GotoType DEF Retry, Locations
  <1>13. CASE DelayOver
    BY <1>13, GotoType DEF DelayOver, Locations
  <1>14. CASE RejectRequest
    BY <1>14, <1>3, FailedAttemptType DEF RejectRequest
  <1>15. CASE SendTooLate
    BY <1>15, <1>3, FailedAttemptType DEF SendTooLate
  <1>16. CASE Send
    <2>1. cur \in 1 .. Len(run.steps)
      BY <1>16, <1>1, StepType DEF Send
    <2>2. sent \in [1 .. Len(run.steps) -> Nat] /\ sent' = [sent EXCEPT ![cur] = @ + 1]
      BY <1>16 DEF Send, TypeOK
    <2>3. sent' \in [1 .. Len(run.steps) -> Nat]
      BY <2>1, <2>2
    <2> QED
      BY <1>16, <2>3 DEF Send, TypeOK, Locations
  <1>17. CASE AbandonRequest
    BY <1>17, <1>2, <1>3, FailedAttemptType DEF AbandonRequest
  <1>18. CASE Answer
    BY <1>18 DEF Answer, TypeOK, Locations
  <1>19. CASE ConnectionLost
    BY <1>19, <1>2, <1>3, FailedAttemptType DEF ConnectionLost
  <1>20. CASE Evaluate
    <2>1. PICK found \in SUBSET Step.extracts, violated \in BOOLEAN, passed \in BOOLEAN :
            /\ \E vals \in [found -> Values] :
                 store' = [v \in Vars |-> IF v \in found THEN vals[v] ELSE store[v]]
            /\ writer' = [v \in Vars |-> IF v \in found THEN cur ELSE writer[v]]
            /\ EndAttempt(
                 IF ExtractionFailed(Step, found)
                   THEN FailedAttempt(code, TRUE, "nil", TRUE, violated)
                 ELSE IF passed THEN PassedAttempt(code)
                 ELSE FailedAttempt(code, TRUE, "nil", FALSE, violated))
      BY <1>20 DEF Evaluate
    <2>2. store' \in [Vars -> Values \cup {Absent}]
      BY <2>1, <1>2
    <2>3. cur \in 1 .. Len(run.steps)
      BY <1>20, <1>1, StepType DEF Evaluate
    <2>4. writer' \in [Vars -> 0 .. Len(run.steps)]
      BY <2>1, <2>3, <1>2
    <2>5. PICK a \in Attempts : EndAttempt(a)
      BY <2>1, <1>2, FailedAttemptType, PassedAttemptType
    <2> QED
      BY <2>2, <2>4, <2>5, EndAttemptType
  <1>21. CASE WorkflowDeadline
    BY <1>21 DEF WorkflowDeadline, TypeOK
  <1>22. CASE StepDeadline
    BY <1>22 DEF StepDeadline, TypeOK
  <1>23. CASE UNCHANGED vars
    BY <1>23 DEF vars, TypeOK
  <1> QED
    BY <1>4, <1>5, <1>6, <1>7, <1>8, <1>9, <1>10, <1>11, <1>12, <1>13, <1>14,
       <1>15, <1>16, <1>17, <1>18, <1>19, <1>20, <1>21, <1>22, <1>23
       DEF Next, EngineStep, TargetStep, Returned

-----------------------------------------------------------------------------
(* The inductive invariant                                                 *)

\* Which steps may be skipped depends on stepFailed, and stepFailed on the
\* results: the two are proved together.
IInv == TypeOK /\ Bookkeeping /\ SkipDiscipline

\* The invariant holds when a run starts: nothing is decided, nothing sent.
LEMMA InvariantInitial == Init => IInv
  <1> SUFFICES ASSUME Init PROVE IInv
    OBVIOUS
  <1>1. TypeOK
    BY TypeInitial
  <1>2. Len(results) = 0
    BY EmptySeq DEF Init
  <1>3. Bookkeeping
    BY <1>2 DEF Init, Bookkeeping, Decided, cur
  <1>4. SkipDiscipline
    BY <1>2 DEF SkipDiscipline, Decided
  <1> QED
    BY <1>1, <1>3, <1>4 DEF IInv

\* Recording a result: the earlier ones stay, and what a reader of the results
\* may conclude changes only by the new one.
LEMMA DecideAppends ==
  ASSUME TypeOK, cur <= Len(run.steps), NEW r \in Results, Decide(r)
  PROVE  /\ Len(results) \in Nat
         /\ Len(results') = cur
         /\ results'[cur] = r
         /\ \A k \in 1 .. Len(results) : results'[k] = results[k]
         /\ run' = run /\ sent' = sent
  BY DEF TypeOK, Decide, cur

\* A result that is SKIPPED exactly if the step was to be skipped, for a step
\* that then has sent nothing, keeps the invariant.
LEMMA DecideInvariant ==
  ASSUME IInv, cur <= Len(run.steps), pc # "done", NEW r \in Results, Decide(r),
         r.status = "SKIPPED" <=> Skipped,
         Skipped => pc = "loop"
  PROVE  Bookkeeping' /\ SkipDiscipline'
  <1>1. TypeOK /\ Bookkeeping /\ SkipDiscipline
    BY DEF IInv
  <1>2. /\ Len(results) \in Nat
        /\ Len(results') = cur
        /\ results'[cur] = r
        /\ \A k \in 1 .. Len(results) : results'[k] = results[k]
        /\ run' = run /\ sent' = sent
    BY <1>1, DecideAppends
  <1>3. cur = Len(results) + 1
    BY DEF cur
  <1>4. cur \in 1 .. Len(run.steps)
    BY <1>1, StepType
  <1>5. stepFailed' <=> \E k \in Decided' : results'[k].status \in Failures
    <2>1. stepFailed' <=> stepFailed \/ r.status \in Failures
      BY DEF Decide, Stops
    <2>2. stepFailed <=> \E k \in 1 .. Len(results) : results[k].status \in Failures
      BY <1>1 DEF Bookkeeping, Decided
    <2> QED
      BY <2>1, <2>2, <1>2, <1>3 DEF Decided
  <1>6. \A j \in 1 .. Len(run'.steps) :
          j > cur' \/ (j = cur' /\ pc' = "loop") => sent'[j] = 0
    BY <1>1, <1>2, <1>3, <1>4 DEF Bookkeeping, cur
  <1>7. Bookkeeping'
    BY <1>1, <1>5, <1>6 DEF Bookkeeping, Decide
  <1>8. FailedBefore(cur) <=> stepFailed
    BY <1>1, <1>2, <1>3 DEF FailedBefore, Bookkeeping, Decided
  <1>9. ASSUME NEW j \in Decided'
        PROVE  /\ results'[j].status = "SKIPPED" <=> FailedBefore(j)' /\ ~run'.steps[j].always
               /\ results'[j].status = "SKIPPED" => sent'[j] = 0
    <2>1. FailedBefore(j)' <=> FailedBefore(j)
      BY <1>2, <1>3, <1>9 DEF FailedBefore, Decided
    <2>2. CASE j = cur
      <3>1. Skipped <=> FailedBefore(j) /\ ~run.steps[j].always
        BY <1>8, <2>2 DEF Skipped, Step
      <3>2. Skipped => sent[j] = 0
        BY <1>1, <1>4, <2>2 DEF Bookkeeping
      <3> QED
        BY <1>2, <2>1, <2>2, <3>1, <3>2
    <2>3. CASE j \in Decided
      BY <1>1, <1>2, <2>1, <2>3 DEF SkipDiscipline, Decided
    <2> QED
      BY <2>2, <2>3, <1>2, <1>3, <1>9 DEF Decided
  <1> QED
    BY <1>7, <1>9 DEF SkipDiscipline

\* A step that leaves the results, the requests and stepFailed alone, and moves
\* only between locations of executeStep, keeps the invariant.
LEMMA WithinStepInvariant ==
  ASSUME IInv, pc \notin {"loop", "done"}, pc' \in Locations \ {"loop", "done"},
         pc' \in {"check", "delay"} => attempts' # <<>>,
         UNCHANGED <<run, results, stepFailed, status, sent>>
  PROVE  Bookkeeping' /\ SkipDiscipline'
  <1>1. TypeOK /\ Bookkeeping /\ SkipDiscipline
    BY DEF IInv
  <1>2. SkipDiscipline'
    BY <1>1 DEF SkipDiscipline, FailedBefore, Decided
  <1>3. (\E k \in Decided : results[k].status \in Failures)'
        <=> \E k \in Decided : results[k].status \in Failures
    BY DEF Decided
  <1>4. cur' = cur /\ Step' = Step /\ Skipped' = Skipped
    BY DEF cur, Step, Skipped
  <1>5. Bookkeeping'
    BY <1>1, <1>3, <1>4 DEF Bookkeeping
  <1> QED
    BY <1>2, <1>5

\* So does a step of time, or no step at all.
LEMMA TimeInvariant ==
  ASSUME IInv,
         UNCHANGED <<run, pc, results, stepFailed, attempts, status, sent>>
  PROVE  Bookkeeping' /\ SkipDiscipline'
  BY DEF IInv, Bookkeeping, SkipDiscipline, FailedBefore, Decided, cur, Step, Skipped

\* Every step of the engine, the target and the clock keeps the invariant.
LEMMA InvariantInductive ==
  ASSUME IInv, [Next]_vars
  PROVE  IInv'
  <1>1. TypeOK /\ Bookkeeping /\ SkipDiscipline
    BY DEF IInv
  <1>2. TypeOK'
    BY <1>1, TypeInductive
  <1> SUFFICES Bookkeeping' /\ SkipDiscipline'
    BY <1>2 DEF IInv
  <1>3. ASSUME pc \notin {"loop", "done"} PROVE cur <= Len(run.steps) /\ ~Skipped
    BY <1>1, <1>3 DEF Bookkeeping
  <1>4. attempts \in Seq(Attempts)
    BY <1>1 DEF TypeOK
  <1>5. TimeoutResult(attempts) \in Results /\ TimeoutResult(attempts).status = "TIMED_OUT"
    BY <1>4, ResultTypes DEF TimeoutResult
  <1>6. ASSUME NEW a \in Attempts, EndAttempt(a), pc \notin {"loop", "done"}
        PROVE  Bookkeeping' /\ SkipDiscipline'
    <2>1. attempts' # <<>>
      BY <1>4, <1>6 DEF EndAttempt, Recorded
    <2> QED
      BY <2>1, <1>6, WithinStepInvariant DEF EndAttempt, Locations
  <1>7. CASE SkipStep
    BY <1>7, DecideInvariant, ResultTypes DEF SkipStep, AtStep, SkippedResult
  <1>8. CASE ConditionStep
    <2>1. ConditionResult(Step).status # "SKIPPED"
      BY DEF ConditionResult
    <2> QED
      BY <1>8, <2>1, DecideInvariant, ResultTypes DEF ConditionStep, AtStep
  <1>9. CASE StartStep
    <2>1. SkipDiscipline'
      BY <1>1, <1>9 DEF StartStep, SkipDiscipline, FailedBefore, Decided
    <2>2. Bookkeeping'
      BY <1>1, <1>9 DEF StartStep, AtStep, Bookkeeping, Decided, cur, Step, Skipped
    <2> QED
      BY <2>1, <2>2
  <1>10. CASE Conclude
    <2>1. SkipDiscipline'
      BY <1>1, <1>10 DEF Conclude, SkipDiscipline, FailedBefore, Decided
    <2>2. Bookkeeping'
      BY <1>1, <1>10 DEF Conclude, RunStatus, Bookkeeping, Decided, cur
    <2> QED
      BY <2>1, <2>2
  <1>11. CASE Admitted
    BY <1>11, WithinStepInvariant DEF Admitted, Goto, Locations
  <1>12. CASE Refused
    BY <1>12, <1>3, <1>5, DecideInvariant DEF Refused
  <1>13. CASE GiveUp
    BY <1>13, <1>3, <1>5, DecideInvariant DEF GiveUp
  <1>14. CASE Return
    <2>1. attempts # <<>>
      BY <1>1, <1>14 DEF Return, Bookkeeping
    <2>2. FinalResult(attempts) \in Results /\ FinalResult(attempts).status # "SKIPPED"
      BY <1>4, <2>1, ResultTypes DEF FinalResult
    <2> QED
      BY <1>14, <2>2, <1>3, DecideInvariant DEF Return
  <1>15. CASE Retry
    BY <1>15, <1>1, WithinStepInvariant DEF Retry, Goto, Locations, Bookkeeping
  <1>16. CASE DelayOver
    BY <1>16, WithinStepInvariant DEF DelayOver, Goto, Locations
  <1>17. CASE RejectRequest
    BY <1>17, <1>6, FailedAttemptType DEF RejectRequest
  <1>18. CASE SendTooLate
    BY <1>18, <1>6, FailedAttemptType DEF SendTooLate
  <1>19. CASE Send
    <2>1. SkipDiscipline'
      BY <1>1, <1>19 DEF Send, SkipDiscipline, FailedBefore, Decided, cur, TypeOK
    <2>2. Bookkeeping'
      BY <1>1, <1>19 DEF Send, Bookkeeping, Decided, cur, Step, Skipped, TypeOK
    <2> QED
      BY <2>1, <2>2
  <1>20. CASE AbandonRequest
    BY <1>20, <1>1, <1>6, FailedAttemptType DEF AbandonRequest, TypeOK
  <1>21. CASE Answer
    BY <1>21, WithinStepInvariant DEF Answer, Locations
  <1>22. CASE ConnectionLost
    BY <1>22, <1>1, <1>6, FailedAttemptType DEF ConnectionLost, TypeOK
  <1>23. CASE Evaluate
    <2>1. PICK a : EndAttempt(a)
      BY <1>23 DEF Evaluate
    <2>2. attempts' # <<>>
      BY <1>4, <2>1 DEF EndAttempt, Recorded
    <2> QED
      BY <1>23, <2>1, <2>2, WithinStepInvariant DEF EndAttempt, Evaluate, Locations
  <1>24. CASE WorkflowDeadline
    BY <1>24, TimeInvariant DEF WorkflowDeadline
  <1>25. CASE StepDeadline
    BY <1>25, TimeInvariant DEF StepDeadline
  <1>26. CASE UNCHANGED vars
    BY <1>26, TimeInvariant DEF vars
  <1> QED
    BY <1>7, <1>8, <1>9, <1>10, <1>11, <1>12, <1>13, <1>14, <1>15, <1>16, <1>17,
       <1>18, <1>19, <1>20, <1>21, <1>22, <1>23, <1>24, <1>25, <1>26
       DEF Next, EngineStep, TargetStep, Returned

\* The invariant holds throughout every run.
THEOREM Invariant == SafeSpec => []IInv
  BY InvariantInitial, InvariantInductive, PTL DEF SafeSpec

\* Every variable always has its type: in particular each failed or timed-out
\* step carries exactly one failure category and no other step carries any.
THEOREM TypeCorrect == Spec => []TypeOK
  <1>1. IInv => TypeOK
    BY DEF IInv
  <1> QED
    BY <1>1, Invariant, PTL DEF Spec

\* After a failure the ordinary steps, and only they, are skipped, and a
\* skipped step has sent nothing.
THEOREM SkippingIsExact == Spec => []SkipDiscipline
  <1>1. IInv => SkipDiscipline
    BY DEF IInv
  <1> QED
    BY <1>1, Invariant, PTL DEF Spec

\* A run reported PASSED has executed and passed every one of its steps.
THEOREM PassedIsEarned == Spec => []PassedMeansAllPassed
  <1>1. ASSUME IInv PROVE PassedMeansAllPassed
    <2> SUFFICES ASSUME status = "PASSED", NEW j \in 1 .. Len(run.steps)
                 PROVE  j \in Decided /\ results[j].status = "PASSED"
      BY DEF PassedMeansAllPassed
    <2>1. /\ Len(results) = Len(run.steps) /\ ~stepFailed
          /\ \A k \in Decided : results[k].status \notin Failures
      BY <1>1 DEF IInv, Bookkeeping
    <2>2. j \in Decided /\ results[j] \in Results
      BY <1>1, <2>1, ElementOfSeq DEF Decided, IInv, TypeOK
    <2>3. results[j].status # "SKIPPED"
      BY <1>1, <2>1, <2>2 DEF IInv, SkipDiscipline, FailedBefore, Decided
    <2> QED
      BY <2>1, <2>2, <2>3 DEF Results
  <1> QED
    BY <1>1, Invariant, PTL DEF Spec

-----------------------------------------------------------------------------
(* The workflow deadline                                                   *)

\* Every step of a run leaves the results alone or appends one to them; what it
\* appends and from where is all that the two theorems below need of it.  (The
\* run ends in a step of its own.)
LEMMA StepsOfARun ==
  ASSUME IInv, [Next]_vars
  PROVE  \/ /\ UNCHANGED <<run, results>>
            /\ UNCHANGED status \/ Conclude
         \/ SkipStep
         \/ ConditionStep
         \/ /\ pc \notin {"loop", "done"}
            /\ \/ Decide(TimeoutResult(attempts))
               \/ ~Expired /\ attempts # <<>> /\ Decide(FinalResult(attempts))
  <1>1. CASE Return
    BY <1>1 DEF Return, IInv, Bookkeeping
  <1>2. CASE Refused \/ GiveUp
    BY <1>2 DEF Refused, GiveUp
  <1>3. CASE SkipStep \/ ConditionStep
    BY <1>3
  <1>4. CASE Conclude
    BY <1>4 DEF Conclude
  <1>5. CASE StartStep \/ Admitted \/ Retry \/ DelayOver
    BY <1>5 DEF StartStep, Admitted, Retry, DelayOver, Goto
  <1>6. CASE RejectRequest \/ SendTooLate \/ AbandonRequest \/ ConnectionLost \/ Evaluate
    BY <1>6 DEF RejectRequest, SendTooLate, AbandonRequest, ConnectionLost, Evaluate, EndAttempt
  <1>7. CASE Send \/ Answer \/ WorkflowDeadline \/ StepDeadline \/ UNCHANGED vars
    BY <1>7 DEF Send, Answer, WorkflowDeadline, StepDeadline, vars
  <1> QED
    BY <1>1, <1>2, <1>3, <1>4, <1>5, <1>6, <1>7
       DEF Next, EngineStep, TargetStep, Returned

\* The requests change in one action only.
LEMMA OnlySendSends ==
  ASSUME [Next]_vars, sent' # sent
  PROVE  Send
  BY DEF Next, EngineStep, TargetStep, Returned, vars, SkipStep, ConditionStep,
         StartStep, Conclude, Admitted, Refused, GiveUp, Return, Retry, DelayOver,
         RejectRequest, SendTooLate, AbandonRequest, Answer, ConnectionLost,
         Evaluate, WorkflowDeadline, StepDeadline, Decide, Goto, EndAttempt

\* Once the workflow deadline has passed no request is sent, and no operation
\* step is recorded as passed, not even one whose attempt had already succeeded.
THEOREM DeadlineIsFinal == Spec => WorkflowDeadlineHolds
  <1> DEFINE Late ==
        wfExpired =>
          /\ sent' = sent
          /\ results' # results /\ Step.kind = "http" => results'[cur].status # "PASSED"
  <1>1. ASSUME IInv, Next PROVE Late
    <2> SUFFICES ASSUME wfExpired PROVE Late
      OBVIOUS
    <2>1. sent' = sent
      BY <1>1, OnlySendSends DEF Send, Expired
    <2>2. ASSUME NEW r, Decide(r) PROVE results'[cur] = r
      BY <1>1, <2>2 DEF Decide, cur, IInv, TypeOK
    <2>3. CASE SkipStep
      BY <2>1, <2>2, <2>3 DEF SkipStep, SkippedResult
    <2>4. CASE ConditionStep
      BY <2>1, <2>4 DEF ConditionStep
    <2>5. CASE Decide(TimeoutResult(attempts))
      BY <2>1, <2>2, <2>5 DEF TimeoutResult
    <2> QED
      BY <1>1, <2>1, <2>3, <2>4, <2>5, StepsOfARun DEF Expired
  <1>2. ASSUME IInv, [Next]_vars PROVE [Late]_vars
    BY <1>1, <1>2
  <1> QED
    BY <1>2, Invariant, PTL DEF Spec, SafeSpec, WorkflowDeadlineHolds

-----------------------------------------------------------------------------
(* The refinement                                                          *)

\* Deciding a step appends its outcome to those the abstract run has seen.
LEMMA DecideMapped ==
  ASSUME TypeOK, cur <= Len(run.steps), NEW r \in Results, Decide(r)
  PROVE  [j \in 1 .. Len(results') |-> results'[j].status]
           = Append([j \in 1 .. Len(results) |-> results[j].status], r.status)
  <1> DEFINE o == [j \in 1 .. Len(results) |-> results[j].status]
             p == [j \in 1 .. Len(results') |-> results'[j].status]
  <1>1. /\ Len(results) \in Nat
        /\ Len(results') = Len(results) + 1
        /\ results'[Len(results) + 1] = r
        /\ \A k \in 1 .. Len(results) : results'[k] = results[k]
    BY DecideAppends DEF cur
  <1>2. DOMAIN o = 1 .. Len(results) /\ Len(o) = Len(results)
    BY <1>1
  <1> QED
    BY <1>1, <1>2

\* A failure among the outcomes is what stepFailed remembers.
LEMMA FailureMapped ==
  ASSUME TypeOK, Bookkeeping
  PROVE  LET o == [j \in 1 .. Len(results) |-> results[j].status]
         IN /\ Len(o) = Len(results)
            /\ Abstract!FailedAmong(o) <=> stepFailed
  <1> DEFINE o == [j \in 1 .. Len(results) |-> results[j].status]
  <1>1. Len(results) \in Nat
    BY DEF TypeOK
  <1>2. Len(o) = Len(results)
    BY <1>1
  <1>3. stepFailed <=> \E k \in 1 .. Len(results) : o[k] \in Failures
    BY DEF Bookkeeping, Decided
  <1> QED
    BY <1>2, <1>3 DEF Abstract!FailedAmong, Abstract!Failures, Failures

\* A run is a run as ScenarioRun promises it: each step is decided once and in
\* order, skipped exactly after a failure, and the one verdict is the one its
\* outcomes determine, whatever the attempts, the deadlines and the target did
\* in between.  (That it is always reached is for the model checker.)
THEOREM ImplementsScenarioRunSafely == Spec => Abstract!SafeSpec
  <1> DEFINE plan == [j \in 1 .. Len(run.steps) |-> run.steps[j].always]
             o    == [j \in 1 .. Len(results) |-> results[j].status]
  <1>1. ASSUME Init PROVE Abstract!Init
    <2>1. plan \in {[j \in 1 .. Len(r.steps) |-> r.steps[j].always] : r \in Runs}
      BY <1>1 DEF Init
    <2>2. o = <<>>
      BY <1>1 DEF Init
    <2> QED
      BY <1>1, <2>1, <2>2 DEF Init, Abstract!Init
  <1>2. ASSUME IInv, [Next]_vars PROVE [Abstract!Next]_(Abstract!vars)
    <2>1. TypeOK /\ Bookkeeping
      BY <1>2 DEF IInv
    <2>2. Len(results) \in Nat /\ Len(run.steps) \in Nat /\ Len(plan) = Len(run.steps)
      BY <2>1, RunsAssumption DEF TypeOK
    <2>3. Len(o) = Len(results) /\ (Abstract!FailedAmong(o) <=> stepFailed)
      BY <2>1, FailureMapped
    <2>4. ASSUME NEW r \in Results, cur <= Len(run.steps), Decide(r)
          PROVE  /\ o' = Append(o, r.status)
                 /\ plan' = plan /\ status' = status
                 /\ Len(o) < Len(plan)
                 /\ plan[Len(o) + 1] = Step.always
      <3>1. o' = Append(o, r.status)
        BY <2>1, <2>4, DecideMapped
      <3> QED
        BY <2>2, <2>3, <2>4, <3>1 DEF Decide, cur, Step
    <2>5. CASE SkipStep
      <3>1. o' = Append(o, "SKIPPED")
        BY <2>4, <2>5, ResultTypes DEF SkipStep, AtStep, SkippedResult
      <3> QED
        BY <2>3, <2>4, <2>5, <3>1, ResultTypes
           DEF SkipStep, AtStep, Skipped, Abstract!Next, Abstract!Skip
    <2>6. ASSUME NEW r \in Results, cur <= Len(run.steps), Decide(r),
                 r.status # "SKIPPED", ~Skipped
          PROVE  Abstract!Try
      <3>1. r.status \in Abstract!Failures \cup {"PASSED"}
        BY <2>6 DEF Results, Failures, Abstract!Failures
      <3> QED
        BY <2>3, <2>4, <2>6, <3>1 DEF Skipped, Abstract!Try
    <2>7. CASE ConditionStep
      <3>1. ConditionResult(Step) \in Results /\ ConditionResult(Step).status # "SKIPPED"
        BY ResultTypes DEF ConditionResult
      <3> QED
        BY <2>6, <2>7, <3>1 DEF ConditionStep, AtStep, Abstract!Next
    <2>8. ASSUME pc \notin {"loop", "done"},
                 \/ Decide(TimeoutResult(attempts))
                 \/ attempts # <<>> /\ Decide(FinalResult(attempts))
          PROVE  Abstract!Try
      <3>1. cur <= Len(run.steps) /\ ~Skipped /\ attempts \in Seq(Attempts)
        BY <2>1, <2>8 DEF Bookkeeping, TypeOK
      <3>2. TimeoutResult(attempts) \in Results /\ TimeoutResult(attempts).status # "SKIPPED"
        BY <3>1, ResultTypes DEF TimeoutResult
      <3>3. ASSUME attempts # <<>>
            PROVE  FinalResult(attempts) \in Results /\ FinalResult(attempts).status # "SKIPPED"
        BY <3>1, <3>3, ResultTypes DEF FinalResult
      <3> QED
        BY <2>6, <2>8, <3>1, <3>2, <3>3
    <2>9. CASE Conclude
      <3>1. status = "RUNNING"
        BY <2>1, <2>9 DEF Conclude, Bookkeeping
      <3>2. status' = Abstract!Verdict(o)
        <4>1. (\E k \in 1 .. Len(o) : o[k] = "TIMED_OUT")
              <=> \E k \in 1 .. Len(results) : results[k].status = "TIMED_OUT"
          BY <2>3
        <4> QED
          BY <2>3, <2>9, <4>1 DEF Conclude, RunStatus, Abstract!Verdict
      <3> QED
        BY <2>2, <2>3, <2>9, <3>1, <3>2 DEF Conclude, Abstract!Next, Abstract!Conclude
    <2>10. CASE UNCHANGED <<run, results, status>>
      BY <2>10 DEF Abstract!vars
    <2> QED
      BY <1>2, <2>5, <2>7, <2>8, <2>9, <2>10, StepsOfARun DEF Abstract!Next
  <1> QED
    BY <1>1, <1>2, Invariant, PTL DEF Spec, SafeSpec, Abstract!SafeSpec

-----------------------------------------------------------------------------
(* The attempts of the step in hand                                        *)

Answered(tries) == {k \in 1 .. Len(tries) : tries[k].code # 0}

Built(tries) == {k \in 1 .. Len(tries) : tries[k].built}

\* The request that has been sent and not yet become an attempt.
Pending == IF pc \in {"flight", "body"} THEN 1 ELSE 0

\* The attempt the engine is preparing or executing is one more than recorded.
AnotherIsDue == pc \in {"wait", "ready", "flight", "body", "delay"}

\* The attempt may be followed by another one.
Justified(s, a) ==
  IF a.code = 0 THEN s.netErr ELSE a.code \in s.codes

\* The requests of the step in hand are between its answered and its built
\* attempts, the one in flight apart; there is room for the attempt that is
\* due; and each attempt that another follows was a reason to repeat it.
AttemptsSoFar ==
  pc \notin {"loop", "done"} =>
    /\ Cardinality(Answered(attempts)) + Pending <= sent[cur]
    /\ sent[cur] <= Cardinality(Built(attempts)) + Pending
    /\ Len(attempts) <= Step.max
    /\ AnotherIsDue => Len(attempts) < Step.max
    /\ \A k \in 1 .. Len(attempts) :
         k < Len(attempts) \/ AnotherIsDue => Justified(Step, attempts[k])

\* A step starts with no attempts.
FreshStart == pc \in {"loop", "done"} => attempts = <<>>

\* The inductive invariant of the attempts, on top of IInv.
AInv == FreshStart /\ AttemptsSoFar /\ AttemptsJustified

\* One more element that a count takes or not.
LEMMA CountOneMore ==
  ASSUME NEW n \in Nat, NEW S \in SUBSET (1 .. n), NEW T, T = S \/ T = S \cup {n + 1}
  PROVE  /\ IsFiniteSet(S) /\ IsFiniteSet(T)
         /\ Cardinality(S) \in Nat /\ Cardinality(T) \in Nat
         /\ Cardinality(T) = Cardinality(S) + (IF T = S THEN 0 ELSE 1)
  <1>1. IsFiniteSet(1 .. n)
    BY FS_Interval
  <1>2. IsFiniteSet(S)
    BY <1>1, FS_Subset
  <1>3. n + 1 \notin S
    OBVIOUS
  <1>4. IsFiniteSet(T) /\ Cardinality(T) = Cardinality(S) + (IF T = S THEN 0 ELSE 1)
    <2>1. CASE T = S
      <3>1. Cardinality(S) \in Nat
        BY <1>2, FS_CardinalityType
      <3> QED
        BY <1>2, <2>1, <3>1
    <2>2. CASE T = S \cup {n + 1}
      BY <1>2, <1>3, <2>2, FS_AddElement
    <2> QED
      BY <2>1, <2>2
  <1> QED
    BY <1>2, <1>4, FS_CardinalityType

\* The counts of a sequence of attempts that has got one more.
LEMMA CountAttempt ==
  ASSUME NEW tries \in Seq(Attempts), NEW a \in Attempts
  PROVE  LET more == Append(tries, a)
         IN /\ Cardinality(Answered(tries)) \in Nat /\ Cardinality(Built(tries)) \in Nat
            /\ Cardinality(Answered(more)) =
                 Cardinality(Answered(tries)) + (IF a.code # 0 THEN 1 ELSE 0)
            /\ Cardinality(Built(more)) =
                 Cardinality(Built(tries)) + (IF a.built THEN 1 ELSE 0)
  <1> DEFINE more == Append(tries, a)
  <1>1. /\ Len(tries) \in Nat
        /\ Len(more) = Len(tries) + 1
        /\ more[Len(tries) + 1] = a
        /\ \A k \in 1 .. Len(tries) : more[k] = tries[k]
    BY AppendProperties
  <1> HIDE DEF more
  <1>2. /\ Answered(tries) \in SUBSET (1 .. Len(tries))
        /\ Answered(more) = IF a.code # 0 THEN Answered(tries) \cup {Len(tries) + 1}
                            ELSE Answered(tries)
        /\ Len(tries) + 1 \notin Answered(tries)
    BY <1>1 DEF Answered
  <1>3. /\ Built(tries) \in SUBSET (1 .. Len(tries))
        /\ Built(more) = IF a.built THEN Built(tries) \cup {Len(tries) + 1}
                         ELSE Built(tries)
        /\ Len(tries) + 1 \notin Built(tries)
    BY <1>1 DEF Built
  <1>4. /\ Cardinality(Answered(tries)) \in Nat
        /\ Cardinality(Answered(more)) =
             Cardinality(Answered(tries)) + (IF a.code # 0 THEN 1 ELSE 0)
    BY <1>1, <1>2, CountOneMore
  <1>5. /\ Cardinality(Built(tries)) \in Nat
        /\ Cardinality(Built(more)) =
             Cardinality(Built(tries)) + (IF a.built THEN 1 ELSE 0)
    BY <1>1, <1>3, CountOneMore
  <1> QED
    BY <1>4, <1>5 DEF more

\* A step's requests and attempts, as AttemptsJustified has them.
Accounted(s, n, tries) ==
  /\ Cardinality(Answered(tries)) <= n
  /\ n <= Cardinality(Built(tries))
  /\ s.kind = "http" => Len(tries) <= s.max
  /\ \A k \in 1 .. (Len(tries) - 1) : Justified(s, tries[k])

\* AttemptsJustified once more, one step at a time.
AllAccounted ==
  \A j \in Decided : Accounted(run.steps[j], sent[j], results[j].attempts)

\* The two say the same.
LEMMA AttemptsJustifiedByStep == AttemptsJustified <=> AllAccounted
  <1>1. ASSUME NEW j \in Decided
        PROVE  Accounted(run.steps[j], sent[j], results[j].attempts)
               <=> LET tries == results[j].attempts
                   IN /\ sent[j] >= Cardinality({k \in 1 .. Len(tries) : tries[k].code # 0})
                      /\ sent[j] <= Cardinality({k \in 1 .. Len(tries) : tries[k].built})
                      /\ run.steps[j].kind = "http" => Len(tries) <= run.steps[j].max
                      /\ \A k \in 1 .. (Len(tries) - 1) :
                           IF tries[k].code = 0 THEN run.steps[j].netErr
                           ELSE tries[k].code \in run.steps[j].codes
    BY DEF Accounted, Answered, Built, Justified
  <1> QED
    BY <1>1 DEF AllAccounted, AttemptsJustified, RequestAccounting, RetriesJustified

\* No attempts account for no requests.
LEMMA NothingAccounted ==
  ASSUME NEW s \in HttpSteps \cup ConditionSteps
  PROVE  Accounted(s, 0, <<>>)
  <1>1. Answered(<<>>) = {} /\ Built(<<>>) = {} /\ Len(<<>>) = 0
    BY DEF Answered, Built
  <1>2. Cardinality({}) = 0
    BY FS_EmptySet
  <1>3. s.kind = "http" => s.max \in 1 .. 10
    BY DEF HttpSteps, ConditionSteps
  <1>4. Cardinality(Answered(<<>>)) = 0 /\ Cardinality(Built(<<>>)) = 0
    BY <1>1, <1>2
  <1>5. 1 .. (Len(<<>>) - 1) = {}
    BY <1>1
  <1>6. s.kind = "http" => Len(<<>>) <= s.max
    BY <1>1, <1>3
  <1> QED
    BY <1>4, <1>5, <1>6 DEF Accounted

\* What the executor of a step may rely on.
LEMMA StepInHand ==
  ASSUME IInv, pc \notin {"loop", "done"}
  PROVE  /\ cur \in 1 .. Len(run.steps) /\ cur = Len(results) + 1
         /\ Len(results) \in Nat
         /\ Step \in HttpSteps /\ Step.max \in 1 .. 10 /\ Step.codes \subseteq Codes
         /\ sent \in [1 .. Len(run.steps) -> Nat] /\ sent[cur] \in Nat
         /\ attempts \in Seq(Attempts) /\ Len(attempts) \in Nat
  <1>1. TypeOK /\ Bookkeeping
    BY DEF IInv
  <1>2. cur \in 1 .. Len(run.steps) /\ Step \in HttpSteps \cup ConditionSteps /\ Step.kind = "http"
    BY <1>1, StepType DEF Bookkeeping
  <1>3. Step \in HttpSteps
    BY <1>2 DEF ConditionSteps
  <1> QED
    BY <1>1, <1>2, <1>3 DEF TypeOK, cur, HttpSteps

\* Recording an attempt: of a request that was sent, or of one that never was.
LEMMA EndAttemptAccounted ==
  ASSUME IInv, AInv, NEW a \in Attempts, EndAttempt(a),
         \/ pc \in {"flight", "body"} /\ a.built
         \/ pc = "ready" /\ a.code = 0
  PROVE  AInv'
  <1>1. /\ cur \in 1 .. Len(run.steps) /\ Step.max \in 1 .. 10
        /\ sent[cur] \in Nat /\ attempts \in Seq(Attempts) /\ Len(attempts) \in Nat
    BY StepInHand
  <1>2. /\ attempts' = Append(attempts, a) /\ pc' = "check"
        /\ run' = run /\ results' = results /\ sent' = sent
    BY DEF EndAttempt, Recorded
  <1>3. cur' = cur /\ Step' = Step /\ Decided' = Decided
    BY <1>2 DEF cur, Step, Decided
  <1>4. AttemptsJustified'
    BY <1>2 DEF AInv, AttemptsJustified, RequestAccounting, RetriesJustified, Decided
  <1>5. AttemptsSoFar /\ AnotherIsDue
    BY DEF AInv, AnotherIsDue
  <1>6. /\ Cardinality(Answered(attempts)) + Pending <= sent[cur]
        /\ sent[cur] <= Cardinality(Built(attempts)) + Pending
        /\ Len(attempts) < Step.max
        /\ \A k \in 1 .. Len(attempts) : Justified(Step, attempts[k])
    BY <1>5 DEF AttemptsSoFar
  <1>7. /\ Cardinality(Answered(attempts)) \in Nat /\ Cardinality(Built(attempts)) \in Nat
        /\ Cardinality(Answered(attempts')) =
             Cardinality(Answered(attempts)) + (IF a.code # 0 THEN 1 ELSE 0)
        /\ Cardinality(Built(attempts')) =
             Cardinality(Built(attempts)) + (IF a.built THEN 1 ELSE 0)
    BY <1>1, <1>2, CountAttempt
  <1>8. /\ Cardinality(Answered(attempts')) <= sent[cur]
        /\ sent[cur] <= Cardinality(Built(attempts'))
    BY <1>1, <1>6, <1>7 DEF Pending
  <1>9. /\ Len(attempts') = Len(attempts) + 1
        /\ \A k \in 1 .. Len(attempts) : attempts'[k] = attempts[k]
    BY <1>1, <1>2, AppendProperties
  <1>10. AttemptsSoFar'
    <2>1. ~AnotherIsDue' /\ Pending' = 0
      BY <1>2 DEF AnotherIsDue, Pending
    <2>2. Answered(attempts)' = Answered(attempts') /\ Built(attempts)' = Built(attempts')
      BY DEF Answered, Built
    <2>3. Cardinality(Answered(attempts)') + 0 = Cardinality(Answered(attempts'))
          /\ Cardinality(Built(attempts)') + 0 = Cardinality(Built(attempts'))
      BY <1>7, <2>2
    <2>4. \A k \in 1 .. Len(attempts') :
            k < Len(attempts') => Justified(Step, attempts'[k])
      BY <1>1, <1>6, <1>9
    <2>5. Len(attempts') <= Step.max
      BY <1>1, <1>6, <1>9
    <2> QED
      BY <1>2, <1>3, <1>8, <2>1, <2>3, <2>4, <2>5 DEF AttemptsSoFar, Justified
  <1>11. FreshStart'
    BY <1>2 DEF FreshStart
  <1> QED
    BY <1>4, <1>10, <1>11 DEF AInv

\* Recording a result: with the attempts of the step in hand once none of its
\* requests is in flight, or with none if it has sent nothing.
LEMMA DecideAccounted ==
  ASSUME IInv, AInv, cur <= Len(run.steps), NEW r \in Results, Decide(r),
         \/ pc \in {"wait", "check", "delay"} /\ r.attempts = attempts
         \/ pc = "loop" /\ r.attempts = <<>>
  PROVE  AInv'
  <1>1. TypeOK /\ Bookkeeping
    BY DEF IInv
  <1>2. /\ Len(results) \in Nat
        /\ Len(results') = cur
        /\ results'[cur] = r
        /\ \A k \in 1 .. Len(results) : results'[k] = results[k]
        /\ run' = run /\ sent' = sent
        /\ pc' = "loop" /\ attempts' = <<>>
    BY <1>1, DecideAppends DEF Decide
  <1>3. cur \in 1 .. Len(run.steps) /\ Step \in HttpSteps \cup ConditionSteps
    BY <1>1, StepType
  <1>4. Accounted(Step, sent[cur], r.attempts)
    <2>1. CASE pc = "loop" /\ r.attempts = <<>>
      <3>1. sent[cur] = 0
        BY <1>1, <1>3, <2>1 DEF Bookkeeping
      <3> QED
        BY <1>3, <2>1, <3>1, NothingAccounted
    <2>2. CASE pc \in {"wait", "check", "delay"} /\ r.attempts = attempts
      <3>1. AttemptsSoFar /\ Pending = 0 /\ pc \notin {"loop", "done"}
        BY <2>2 DEF AInv, Pending
      <3>2. sent[cur] \in Nat /\ attempts \in Seq(Attempts) /\ Len(attempts) \in Nat
        BY <3>1, StepInHand
      <3>3. Cardinality(Answered(attempts)) \in Nat /\ Cardinality(Built(attempts)) \in Nat
        <4>1. Answered(attempts) \in SUBSET (1 .. Len(attempts))
              /\ Built(attempts) \in SUBSET (1 .. Len(attempts))
          BY DEF Answered, Built
        <4> QED
          BY <3>2, <4>1, CountOneMore
      <3> QED
        BY <2>2, <3>1, <3>2, <3>3 DEF AttemptsSoFar, Accounted
    <2> QED
      BY <2>1, <2>2
  <1>5. \A j \in Decided : Accounted(run.steps[j], sent[j], results[j].attempts)
    BY AttemptsJustifiedByStep DEF AInv, AllAccounted
  <1>6. \A j \in Decided' : Accounted(run'.steps[j], sent'[j], results'[j].attempts)
    <2> SUFFICES ASSUME NEW j \in 1 .. cur
                 PROVE  Accounted(run.steps[j], sent[j], results'[j].attempts)
      BY <1>2 DEF Decided
    <2>1. CASE j = cur
      BY <1>2, <1>4, <2>1 DEF Step
    <2>2. CASE j \in Decided
      BY <1>2, <1>5, <2>2 DEF Decided
    <2> QED
      BY <1>2, <2>1, <2>2 DEF Decided, cur
  <1>7. AttemptsJustified'
    <2>1. AttemptsJustified' <=> AllAccounted'
      BY AttemptsJustifiedByStep, PTL
    <2> QED
      BY <1>6, <2>1 DEF AllAccounted
  <1>8. FreshStart' /\ AttemptsSoFar'
    BY <1>2 DEF FreshStart, AttemptsSoFar
  <1> QED
    BY <1>7, <1>8 DEF AInv

\* A move that sends and records nothing: the engine goes on within an attempt,
\* the target's headers arrive, time passes.
LEMMA MoveAccounted ==
  ASSUME AInv, UNCHANGED <<run, results, attempts, sent>>,
         pc' \in {"loop", "done"} <=> pc \in {"loop", "done"},
         Pending' = Pending, AnotherIsDue' => AnotherIsDue
  PROVE  AInv'
  <1>1. cur' = cur /\ Step' = Step /\ Decided' = Decided
    BY DEF cur, Step, Decided
  <1>2. AttemptsJustified'
    BY <1>1 DEF AInv, AttemptsJustified, RequestAccounting, RetriesJustified
  <1>3. FreshStart'
    BY DEF AInv, FreshStart
  <1>4. Answered(attempts)' = Answered(attempts) /\ Built(attempts)' = Built(attempts)
    BY DEF Answered, Built
  <1>5. AttemptsSoFar'
    BY <1>1, <1>4 DEF AInv, AttemptsSoFar, Justified
  <1> QED
    BY <1>2, <1>3, <1>5 DEF AInv

\* Every step keeps the accounts.
LEMMA AccountsInductive ==
  ASSUME IInv, AInv, [Next]_vars
  PROVE  AInv'
  <1>1. TypeOK /\ Bookkeeping /\ AttemptsJustified
    BY DEF IInv, AInv
  <1>2. code \in Codes \cup {0} /\ attempts \in Seq(Attempts)
    BY <1>1 DEF TypeOK
  <1>3. CASE SkipStep
    BY <1>3, DecideAccounted, ResultTypes DEF SkipStep, AtStep, SkippedResult
  <1>4. CASE ConditionStep
    <2>1. ConditionResult(Step) \in Results /\ ConditionResult(Step).attempts = <<>>
      BY ResultTypes DEF ConditionResult
    <2> QED
      BY <1>4, <2>1, DecideAccounted DEF ConditionStep, AtStep
  <1>5. CASE StartStep
    <2>1. cur \in 1 .. Len(run.steps) /\ Step \in HttpSteps
      BY <1>1, <1>5, StepType DEF StartStep, AtStep, ConditionSteps
    <2>2. sent[cur] = 0 /\ attempts = <<>>
      BY <1>1, <1>5, <2>1 DEF StartStep, AtStep, Bookkeeping, AInv, FreshStart
    <2>3. cur' = cur /\ Step' = Step /\ attempts' = <<>> /\ sent' = sent /\ pc' = "wait"
      BY <1>5, <2>2 DEF StartStep, cur, Step
    <2>4. Pending' = 0
      BY <2>3 DEF Pending
    <2>5. Len(attempts') = 0 /\ Step'.max \in 1 .. 10 /\ sent'[cur'] = 0
      BY <2>1, <2>2, <2>3 DEF HttpSteps
    <2>6. Answered(attempts)' = {} /\ Built(attempts)' = {}
      BY <2>5 DEF Answered, Built
    <2>7. Cardinality(Answered(attempts)') = 0 /\ Cardinality(Built(attempts)') = 0
      BY <2>6, FS_EmptySet
    <2>8. AttemptsSoFar'
      BY <2>4, <2>5, <2>7 DEF AttemptsSoFar
    <2>9. AttemptsJustified' /\ FreshStart'
      BY <1>1, <1>5 DEF StartStep, FreshStart, AttemptsJustified, RequestAccounting,
                       RetriesJustified, Decided
    <2> QED
      BY <2>8, <2>9 DEF AInv
  <1>6. CASE Conclude
    BY <1>1, <1>6 DEF Conclude, AInv, FreshStart, AttemptsSoFar, AttemptsJustified,
                      RequestAccounting, RetriesJustified, Decided
  <1>7. CASE Admitted \/ DelayOver
    BY <1>7, MoveAccounted DEF Admitted, DelayOver, Goto, Pending, AnotherIsDue
  <1>8. CASE Refused \/ GiveUp
    <2>1. TimeoutResult(attempts) \in Results /\ TimeoutResult(attempts).attempts = attempts
      BY <1>2, ResultTypes DEF TimeoutResult
    <2>2. cur <= Len(run.steps)
      BY <1>1, <1>8 DEF Refused, GiveUp, Bookkeeping
    <2> QED
      BY <1>8, <2>1, <2>2, DecideAccounted DEF Refused, GiveUp
  <1>9. CASE Return
    <2>1. attempts # <<>> /\ cur <= Len(run.steps)
      BY <1>1, <1>9 DEF Return, Bookkeeping
    <2>2. FinalResult(attempts) \in Results /\ FinalResult(attempts).attempts = attempts
      BY <1>2, <2>1, ResultTypes DEF FinalResult
    <2> QED
      BY <1>9, <2>1, <2>2, DecideAccounted DEF Return
  <1>10. CASE Retry
    <2>1. /\ Step.max \in 1 .. 10 /\ Step.codes \subseteq Codes
          /\ Len(attempts) \in Nat
      BY <1>10, StepInHand DEF Retry
    <2>2. cur' = cur /\ Step' = Step /\ attempts' = attempts /\ sent' = sent /\ pc' = "delay"
      BY <1>10 DEF Retry, Goto, cur, Step
    <2>3. AttemptsSoFar /\ Pending = 0
      BY <1>10 DEF AInv, Retry, Pending
    <2>4. Len(attempts) < Step.max
      BY <1>10, <2>1, <2>3 DEF Retry, Again, Exhausted, AttemptsSoFar
    <2>5. Justified(Step, attempts[Len(attempts)])
      BY <1>10, <2>1, CodesAssumption DEF Retry, Again, Retryable, Justified
    <2>6. \A k \in 1 .. Len(attempts) : Justified(Step, attempts[k])
      BY <1>10, <2>1, <2>3, <2>5 DEF Retry, AttemptsSoFar
    <2>7. /\ Answered(attempts)' = Answered(attempts) /\ Built(attempts)' = Built(attempts)
          /\ Pending' = Pending
      BY <2>2, <2>3 DEF Answered, Built, Pending
    <2>8. AttemptsSoFar'
      BY <1>10, <2>2, <2>3, <2>4, <2>6, <2>7 DEF Retry, AttemptsSoFar, Justified
    <2>9. AttemptsJustified' /\ FreshStart'
      BY <1>1, <1>10 DEF Retry, Goto, FreshStart, AttemptsJustified, RequestAccounting,
                       RetriesJustified, Decided
    <2> QED
      BY <2>8, <2>9 DEF AInv
  <1>11. CASE RejectRequest
    <2>1. FailedAttempt(0, FALSE, "nil", FALSE, FALSE).code = 0
      BY DEF FailedAttempt
    <2> QED
      BY <1>11, <2>1, FailedAttemptType, EndAttemptAccounted DEF RejectRequest
  <1>12. CASE SendTooLate
    <2>1. FailedAttempt(0, TRUE, "deadline", FALSE, FALSE).code = 0
      BY DEF FailedAttempt
    <2> QED
      BY <1>12, <2>1, FailedAttemptType, EndAttemptAccounted DEF SendTooLate
  <1>13. CASE Send
    <2>1. /\ cur \in 1 .. Len(run.steps) /\ cur = Len(results) + 1 /\ Len(results) \in Nat
          /\ sent \in [1 .. Len(run.steps) -> Nat] /\ sent[cur] \in Nat
          /\ attempts \in Seq(Attempts) /\ Len(attempts) \in Nat
      BY <1>13, StepInHand DEF Send
    <2>2. /\ cur' = cur /\ Step' = Step /\ attempts' = attempts /\ pc' = "flight"
          /\ sent' = [sent EXCEPT ![cur] = @ + 1]
      BY <1>13 DEF Send, cur, Step
    <2>3. sent'[cur] = sent[cur] + 1 /\ \A j \in Decided : sent'[j] = sent[j]
      BY <2>1, <2>2 DEF Decided
    <2>4. AttemptsSoFar /\ Pending = 0 /\ Pending' = 1
      BY <1>13, <2>2 DEF AInv, Send, Pending
    <2>5. Answered(attempts)' = Answered(attempts) /\ Built(attempts)' = Built(attempts)
      BY <2>2 DEF Answered, Built
    <2>6. Cardinality(Answered(attempts)) \in Nat /\ Cardinality(Built(attempts)) \in Nat
      <3>1. Answered(attempts) \in SUBSET (1 .. Len(attempts))
            /\ Built(attempts) \in SUBSET (1 .. Len(attempts))
        BY DEF Answered, Built
      <3> QED
        BY <2>1, <3>1, CountOneMore
    <2>7. AttemptsSoFar'
      BY <1>13, <2>1, <2>2, <2>3, <2>4, <2>5, <2>6
         DEF Send, AttemptsSoFar, AnotherIsDue, Justified
    <2>8. AttemptsJustified' /\ FreshStart'
      BY <1>1, <1>13, <2>3 DEF Send, FreshStart, AttemptsJustified, RequestAccounting,
                       RetriesJustified, Decided
    <2> QED
      BY <2>7, <2>8 DEF AInv
  <1>14. CASE Answer
    BY <1>14, MoveAccounted DEF Answer, Pending, AnotherIsDue
  <1>15. CASE AbandonRequest \/ ConnectionLost
    <2>1. ASSUME NEW transport PROVE FailedAttempt(code, TRUE, transport, FALSE, FALSE).built
      BY DEF FailedAttempt
    <2> QED
      BY <1>2, <1>15, <2>1, FailedAttemptType, EndAttemptAccounted
         DEF AbandonRequest, ConnectionLost
  <1>16. CASE Evaluate
    <2>1. /\ PassedAttempt(code).built
          /\ \A badExtract, violated : FailedAttempt(code, TRUE, "nil", badExtract, violated).built
      BY DEF PassedAttempt, FailedAttempt
    <2>2. PICK a \in Attempts : EndAttempt(a) /\ a.built
      BY <1>2, <1>16, <2>1, FailedAttemptType, PassedAttemptType DEF Evaluate
    <2> QED
      BY <1>16, <2>2, EndAttemptAccounted DEF Evaluate
  <1>17. CASE WorkflowDeadline \/ StepDeadline \/ UNCHANGED vars
    BY <1>17, MoveAccounted DEF WorkflowDeadline, StepDeadline, vars, Pending, AnotherIsDue
  <1> QED
    BY <1>3, <1>4, <1>5, <1>6, <1>7, <1>8, <1>9, <1>10, <1>11, <1>12, <1>13, <1>14,
       <1>15, <1>16, <1>17 DEF Next, EngineStep, TargetStep, Returned

\* The accounts of a run that starts are empty.
LEMMA AccountsInitial == Init => AInv
  <1> SUFFICES ASSUME Init PROVE AInv
    OBVIOUS
  <1>1. Len(results) = 0 /\ attempts = <<>> /\ pc = "loop"
    BY EmptySeq DEF Init
  <1> QED
    BY <1>1 DEF AInv, FreshStart, AttemptsSoFar, AttemptsJustified, RequestAccounting,
                RetriesJustified, Decided

\* For every retry policy: what a step sends is accounted for by its attempts,
\* never more than the policy allows, and a request is repeated only after no
\* answer at all under network_errors or after an answer with a listed status.
THEOREM RequestsAreAccounted == Spec => []AttemptsJustified
  <1>1. AInv => AttemptsJustified
    BY DEF AInv
  <1> QED
    BY <1>1, AccountsInitial, AccountsInductive, Invariant, PTL DEF Spec, SafeSpec

-----------------------------------------------------------------------------
(* The variables                                                           *)

\* Nothing removes a variable from the store, and none is written ahead of the
\* step in hand.
StoreGrows ==
  /\ \A v \in Vars : (\A s \in Seeds : s[v] # Absent) => store[v] # Absent
  /\ \A v \in Vars : writer[v] <= cur
  /\ pc \in {"loop", "done"} => \A v \in Vars : writer[v] # cur

\* A response that is being processed has a status.
AnsweredHasCode == pc = "body" => code # 0

\* An attempt that passed has just written all that its step extracts.
PassedAttemptExtracted ==
  pc = "check" /\ attempts[Len(attempts)].passed =>
    \A v \in Step.extracts : store[v] # Absent /\ writer[v] = cur

\* WellFedNeverStarves, of the attempts of the step in hand.
NeverStarvedSoFar ==
  WellFed /\ pc \notin {"loop", "done"} /\ ~Step.always =>
    \A k \in 1 .. Len(attempts) :
      attempts[k].cat = "config_error" => attempts[k].code # 0

\* The inductive invariant of the variables, on top of IInv and AInv.
VInv ==
  /\ StoreGrows
  /\ AnsweredHasCode
  /\ PassedAttemptExtracted
  /\ NeverStarvedSoFar
  /\ PassedStepsExtract
  /\ WellFedNeverStarves

\* An ordinary step that is not skipped comes after steps that passed only.
LEMMA OrdinaryAfterPassed ==
  ASSUME IInv, cur <= Len(run.steps), ~Skipped, ~Step.always
  PROVE  \A j \in Decided : results[j].status = "PASSED"
  <1> SUFFICES ASSUME NEW j \in Decided PROVE results[j].status = "PASSED"
    OBVIOUS
  <1>1. TypeOK /\ Bookkeeping /\ SkipDiscipline
    BY DEF IInv
  <1>2. \A k \in Decided : results[k].status \notin Failures
    BY <1>1 DEF Bookkeeping, Skipped
  <1>3. results[j] \in Results
    BY <1>1, ElementOfSeq DEF TypeOK, Decided
  <1>4. ~FailedBefore(j)
    BY <1>1, <1>2 DEF FailedBefore, Decided, TypeOK
  <1>5. results[j].status # "SKIPPED"
    BY <1>1, <1>4 DEF SkipDiscipline
  <1> QED
    BY <1>2, <1>3, <1>5 DEF Results

\* So the variables it reads were seeded, written by a step that passed, or
\* written by its own earlier attempt.
LEMMA ReadsJustified ==
  ASSUME IInv, VInv
  PROVE  ReadsFromPassedSteps
  <1> SUFFICES ASSUME Executing, ~Step.always, NEW v \in ReadBy(Step)
               PROVE  writer[v] \in {0, cur} \/ results[writer[v]].status = "PASSED"
    BY DEF ReadsFromPassedSteps
  <1>1. TypeOK /\ Bookkeeping
    BY DEF IInv
  <1>2. cur <= Len(run.steps) /\ ~Skipped
    BY <1>1 DEF Executing, AtStep, Bookkeeping
  <1>3. Step \in HttpSteps \cup ConditionSteps
    BY <1>1, <1>2, StepType
  <1>4. v \in Vars
    BY <1>3 DEF ReadBy, HttpSteps, ConditionSteps
  <1>5. writer[v] \in Nat /\ writer[v] <= cur
    BY <1>1, <1>4 DEF VInv, StoreGrows, TypeOK
  <1>6. writer[v] \in {0, cur} \cup Decided
    BY <1>1, <1>5 DEF Decided, cur, TypeOK
  <1> QED
    BY <1>2, <1>6, OrdinaryAfterPassed

\* An ordinary step of a well-fed scenario finds all it needs.
LEMMA WellFedResolves ==
  ASSUME IInv, VInv, WellFed, pc \notin {"loop", "done"}, ~Step.always
  PROVE  Step.sound /\ Resolves(Step.needs)
  <1>1. TypeOK /\ Bookkeeping
    BY DEF IInv
  <1>2. /\ cur \in 1 .. Len(run.steps) /\ cur = Len(results) + 1 /\ Len(results) \in Nat
        /\ Step \in HttpSteps
    BY StepInHand
  <1>3. Step.kind = "http" /\ ~Skipped
    BY <1>1 DEF Bookkeeping
  <1>4. \A j \in Decided : results[j].status = "PASSED"
    BY <1>2, <1>3, OrdinaryAfterPassed
  <1>5. Step.sound /\ Step.needs \subseteq Provided(cur)
    BY <1>2, <1>3 DEF WellFed, Step
  <1>6. ASSUME NEW v \in Step.needs PROVE store[v] # Absent
    <2>1. v \in Vars
      BY <1>2, <1>6 DEF HttpSteps
    <2>2. CASE \A s \in Seeds : s[v] # Absent
      BY <2>1, <2>2 DEF VInv, StoreGrows
    <2>3. CASE \E k \in 1 .. (cur - 1) : run.steps[k].kind = "http" /\ v \in run.steps[k].extracts
      BY <1>2, <1>4, <2>3 DEF VInv, PassedStepsExtract, Decided
    <2> QED
      BY <1>5, <1>6, <2>2, <2>3 DEF Provided
  <1> QED
    BY <1>5, <1>6 DEF Resolves

\* Recording a result: of a step that passed with all its extracts written, and
\* without a config_error for want of a variable.
LEMMA DecideFlow ==
  ASSUME IInv, VInv, cur <= Len(run.steps), NEW r \in Results, Decide(r),
         Step.kind = "http" /\ r.status = "PASSED" =>
           \A v \in Step.extracts : store[v] # Absent /\ writer[v] = cur,
         WellFed /\ Step.kind = "http" /\ ~Step.always /\ r.cat = "config_error" =>
           r.attempts[Len(r.attempts)].code # 0
  PROVE  VInv'
  <1>1. TypeOK
    BY DEF IInv
  <1>2. /\ Len(results) \in Nat
        /\ Len(results') = cur
        /\ results'[cur] = r
        /\ \A k \in 1 .. Len(results) : results'[k] = results[k]
        /\ run' = run /\ store' = store /\ writer' = writer /\ pc' = "loop"
    BY <1>1, DecideAppends DEF Decide
  <1>3. cur \in Nat /\ cur' = cur + 1 /\ Decided' = Decided \cup {cur}
    BY <1>2 DEF cur, Decided
  <1>4. StoreGrows'
    <2>1. \A v \in Vars : writer[v] \in Nat
      BY <1>1 DEF TypeOK
    <2> QED
      BY <1>2, <1>3, <2>1 DEF VInv, StoreGrows
  <1>5. PassedStepsExtract'
    <2> SUFFICES ASSUME NEW j \in Decided', results'[j].status = "PASSED", run.steps[j].kind = "http",
                        NEW v \in run.steps[j].extracts
                 PROVE  store[v] # Absent /\ writer[v] >= j
      BY <1>2 DEF PassedStepsExtract
    <2>1. CASE j = cur
      BY <1>2, <1>3, <2>1 DEF Step
    <2>2. CASE j \in Decided
      BY <1>2, <2>2 DEF VInv, PassedStepsExtract, Decided
    <2> QED
      BY <1>3, <2>1, <2>2
  <1>6. WellFed' <=> WellFed
    BY <1>2 DEF WellFed, Provided
  <1>7. WellFedNeverStarves'
    <2> SUFFICES ASSUME WellFed, NEW j \in Decided', run.steps[j].kind = "http",
                        ~run.steps[j].always, results'[j].cat = "config_error"
                 PROVE  results'[j].attempts[Len(results'[j].attempts)].code # 0
      BY <1>2, <1>6 DEF WellFedNeverStarves
    <2>1. CASE j = cur
      BY <1>2, <2>1 DEF Step
    <2>2. CASE j \in Decided
      BY <1>2, <2>2 DEF VInv, WellFedNeverStarves, Decided
    <2> QED
      BY <1>3, <2>1, <2>2
  <1>8. AnsweredHasCode' /\ PassedAttemptExtracted' /\ NeverStarvedSoFar'
    BY <1>2 DEF AnsweredHasCode, PassedAttemptExtracted, NeverStarvedSoFar
  <1> QED
    BY <1>4, <1>5, <1>7, <1>8 DEF VInv

\* Recording an attempt: the store has kept what it had, a passed attempt has
\* written all extracts, and a failed one did not want for a variable.
LEMMA EndAttemptFlow ==
  ASSUME IInv, VInv, pc \notin {"loop", "done"}, NEW a \in Attempts, EndAttempt(a),
         \A v \in Vars : store[v] # Absent => store'[v] # Absent,
         \A v \in Vars : writer'[v] \in {writer[v], cur},
         a.passed => \A v \in Step.extracts : store'[v] # Absent /\ writer'[v] = cur,
         WellFed /\ ~Step.always /\ a.cat = "config_error" => a.code # 0
  PROVE  VInv'
  <1>1. /\ cur \in 1 .. Len(run.steps) /\ cur = Len(results) + 1 /\ Len(results) \in Nat
        /\ attempts \in Seq(Attempts) /\ Len(attempts) \in Nat
    BY StepInHand
  <1>2. /\ attempts' = Append(attempts, a) /\ pc' = "check"
        /\ run' = run /\ results' = results
    BY DEF EndAttempt, Recorded
  <1>3. cur' = cur /\ Step' = Step /\ Decided' = Decided
    BY <1>2 DEF cur, Step, Decided
  <1>4. /\ Len(attempts') = Len(attempts) + 1 /\ attempts'[Len(attempts')] = a
        /\ \A k \in 1 .. Len(attempts) : attempts'[k] = attempts[k]
    BY <1>1, <1>2, AppendProperties
  <1>5. StoreGrows'
    BY <1>1, <1>2, <1>3 DEF VInv, StoreGrows
  <1>6. AnsweredHasCode' /\ PassedAttemptExtracted'
    BY <1>2, <1>3, <1>4 DEF AnsweredHasCode, PassedAttemptExtracted
  <1>7. WellFed' <=> WellFed
    BY <1>2 DEF WellFed, Provided
  <1>8. NeverStarvedSoFar'
    <2> SUFFICES ASSUME WellFed, ~Step.always, NEW k \in 1 .. Len(attempts'),
                        attempts'[k].cat = "config_error"
                 PROVE  attempts'[k].code # 0
      BY <1>3, <1>7 DEF NeverStarvedSoFar
    <2>1. CASE k = Len(attempts')
      BY <1>4, <2>1
    <2>2. CASE k \in 1 .. Len(attempts)
      BY <1>4, <2>2 DEF VInv, NeverStarvedSoFar
    <2> QED
      BY <1>1, <1>4, <2>1, <2>2
  <1>9. PassedStepsExtract'
    <2> SUFFICES ASSUME NEW j \in Decided, results[j].status = "PASSED", run.steps[j].kind = "http",
                        NEW v \in run.steps[j].extracts
                 PROVE  store'[v] # Absent /\ writer'[v] >= j
      BY <1>2, <1>3 DEF PassedStepsExtract
    <2>1. store[v] # Absent /\ writer[v] >= j
      BY DEF VInv, PassedStepsExtract
    <2>2. run.steps \in Seq(HttpSteps \cup ConditionSteps)
      BY RunsAssumption DEF IInv, TypeOK
    <2>3. run.steps[j] \in HttpSteps
      <3>1. Len(run.steps) \in Nat
        BY <2>2, LenProperties
      <3>2. j \in 1 .. Len(run.steps)
        BY <1>1, <3>1 DEF Decided
      <3>3. run.steps[j] \in HttpSteps \cup ConditionSteps
        BY <2>2, <3>2, ElementOfSeq
      <3>4. run.steps[j].kind = "http"
        OBVIOUS
      <3> QED
        BY <3>3, <3>4 DEF ConditionSteps
    <2>4. v \in Vars
      BY <2>3 DEF HttpSteps
    <2> QED
      BY <1>1, <2>1, <2>4 DEF Decided
  <1>10. WellFedNeverStarves'
    BY <1>2, <1>3, <1>7 DEF VInv, WellFedNeverStarves
  <1> QED
    BY <1>5, <1>6, <1>8, <1>9, <1>10 DEF VInv

\* A move that writes and records nothing.
LEMMA MoveFlow ==
  ASSUME VInv, UNCHANGED <<run, results, attempts, store, writer>>,
         pc' \in {"loop", "done"} => pc \in {"loop", "done"},
         pc' \notin {"loop", "done"} => pc \notin {"loop", "done"} \/ attempts = <<>>,
         pc' = "check" => pc = "check",
         pc' = "body" => code' # 0
  PROVE  VInv'
  <1>1. cur' = cur /\ Step' = Step /\ Decided' = Decided
    BY DEF cur, Step, Decided
  <1>2. WellFed' <=> WellFed
    BY DEF WellFed, Provided
  <1>3. StoreGrows' /\ AnsweredHasCode' /\ PassedAttemptExtracted'
    BY <1>1 DEF VInv, StoreGrows, AnsweredHasCode, PassedAttemptExtracted
  <1>4. NeverStarvedSoFar'
    <2>1. attempts = <<>> => 1 .. Len(attempts) = {}
      OBVIOUS
    <2> QED
      BY <1>1, <1>2, <2>1 DEF VInv, NeverStarvedSoFar
  <1>5. PassedStepsExtract' /\ WellFedNeverStarves'
    BY <1>1, <1>2 DEF VInv, PassedStepsExtract, WellFedNeverStarves
  <1> QED
    BY <1>3, <1>4, <1>5 DEF VInv

\* A request that was rejected because the network or a deadline got in the way
\* is not a config_error.
LEMMA TransportIsNoConfigError ==
  ASSUME NEW c, NEW built, NEW transport \in {"deadline", "other"}
  PROVE  LET a == FailedAttempt(c, built, transport, FALSE, FALSE)
         IN ~a.passed /\ a.cat # "config_error"
  BY DEF FailedAttempt, Classify

\* Every step keeps the flow of the variables.
LEMMA FlowInductive ==
  ASSUME IInv, AInv, VInv, [Next]_vars
  PROVE  VInv'
  <1>1. TypeOK /\ Bookkeeping
    BY DEF IInv
  <1>2. code \in Codes \cup {0} /\ attempts \in Seq(Attempts)
    BY <1>1 DEF TypeOK
  <1>3. ASSUME NEW a \in Attempts, EndAttempt(a), UNCHANGED <<store, writer>>,
               pc \notin {"loop", "done"}, ~a.passed,
               WellFed /\ ~Step.always /\ a.cat = "config_error" => a.code # 0
        PROVE  VInv'
    BY <1>3, EndAttemptFlow
  <1>4. CASE SkipStep
    BY <1>4, DecideFlow, ResultTypes DEF SkipStep, AtStep, SkippedResult
  <1>5. CASE ConditionStep
    BY <1>5, DecideFlow, ResultTypes DEF ConditionStep, AtStep
  <1>6. CASE StartStep \/ Conclude
    BY <1>6, MoveFlow DEF StartStep, Conclude, AtStep, AInv, FreshStart
  <1>7. CASE Admitted \/ DelayOver \/ Retry
    BY <1>7, MoveFlow DEF Admitted, DelayOver, Retry, Goto
  <1>8. CASE Refused \/ GiveUp
    <2>1. /\ TimeoutResult(attempts) \in Results
          /\ TimeoutResult(attempts).status = "TIMED_OUT" /\ TimeoutResult(attempts).cat = "timeout"
      BY <1>2, ResultTypes DEF TimeoutResult
    <2>2. cur <= Len(run.steps)
      BY <1>1, <1>8 DEF Refused, GiveUp, Bookkeeping
    <2> QED
      BY <1>8, <2>1, <2>2, DecideFlow DEF Refused, GiveUp
  <1>9. CASE Return
    <2>1. attempts # <<>> /\ cur <= Len(run.steps) /\ pc = "check" /\ pc \notin {"loop", "done"}
      BY <1>1, <1>9 DEF Return, Bookkeeping
    <2>2. FinalResult(attempts) \in Results
      BY <1>2, <2>1, ResultTypes
    <2>3. FinalResult(attempts).status = "PASSED" =>
            \A v \in Step.extracts : store[v] # Absent /\ writer[v] = cur
      BY <2>1 DEF FinalResult, VInv, PassedAttemptExtracted
    <2>4. Len(attempts) \in 1 .. Len(attempts)
      BY <1>2, <2>1
    <2>5. WellFed /\ ~Step.always /\ FinalResult(attempts).cat = "config_error" =>
            FinalResult(attempts).attempts[Len(FinalResult(attempts).attempts)].code # 0
      BY <2>1, <2>4 DEF FinalResult, VInv, NeverStarvedSoFar
    <2> QED
      BY <1>9, <2>1, <2>2, <2>3, <2>5, DecideFlow DEF Return
  <1>10. CASE RejectRequest
    <2>1. ~(WellFed /\ ~Step.always)
      BY <1>10, WellFedResolves DEF RejectRequest
    <2>2. ~FailedAttempt(0, FALSE, "nil", FALSE, FALSE).passed
      BY DEF FailedAttempt
    <2> QED
      BY <1>3, <1>10, <2>1, <2>2, FailedAttemptType DEF RejectRequest
  <1>11. CASE SendTooLate
    BY <1>3, <1>11, FailedAttemptType, TransportIsNoConfigError DEF SendTooLate
  <1>12. CASE Send
    BY <1>12, MoveFlow DEF Send
  <1>13. CASE Answer
    BY <1>13, MoveFlow, CodesAssumption DEF Answer
  <1>14. CASE AbandonRequest \/ ConnectionLost
    BY <1>2, <1>3, <1>14, FailedAttemptType, TransportIsNoConfigError
       DEF AbandonRequest, ConnectionLost
  <1>15. CASE Evaluate
    <2>1. PICK found \in SUBSET Step.extracts, violated \in BOOLEAN, passed \in BOOLEAN :
            /\ \E vals \in [found -> Values] :
                 store' = [v \in Vars |-> IF v \in found THEN vals[v] ELSE store[v]]
            /\ writer' = [v \in Vars |-> IF v \in found THEN cur ELSE writer[v]]
            /\ EndAttempt(
                 IF ExtractionFailed(Step, found)
                   THEN FailedAttempt(code, TRUE, "nil", TRUE, violated)
                 ELSE IF passed THEN PassedAttempt(code)
                 ELSE FailedAttempt(code, TRUE, "nil", FALSE, violated))
      BY <1>15 DEF Evaluate
    <2>2. code # 0 /\ pc \notin {"loop", "done"} /\ Step.extracts \subseteq Vars
      <3>1. Step \in HttpSteps
        BY <1>15, StepInHand DEF Evaluate
      <3> QED
        BY <1>15, <3>1 DEF Evaluate, VInv, AnsweredHasCode, HttpSteps
    <2>3. \A v \in Vars : /\ store[v] # Absent => store'[v] # Absent
                          /\ writer'[v] \in {writer[v], cur}
                          /\ v \in found => store'[v] # Absent /\ writer'[v] = cur
      BY <2>1, ValuesAssumption
    <2>4. /\ PassedAttempt(code).code = code
          /\ \A bad : /\ FailedAttempt(code, TRUE, "nil", bad, violated).code = code
                      /\ ~FailedAttempt(code, TRUE, "nil", bad, violated).passed
      BY DEF PassedAttempt, FailedAttempt
    <2>5. PICK a \in Attempts :
            EndAttempt(a) /\ a.code = code /\ (a.passed => found = Step.extracts)
      BY <1>2, <2>1, <2>4, FailedAttemptType, PassedAttemptType DEF ExtractionFailed
    <2> QED
      BY <2>2, <2>3, <2>5, EndAttemptFlow
  <1>16. CASE WorkflowDeadline \/ StepDeadline \/ UNCHANGED vars
    BY <1>16, MoveFlow DEF WorkflowDeadline, StepDeadline, vars, VInv, AnsweredHasCode
  <1> QED
    BY <1>4, <1>5, <1>6, <1>7, <1>8, <1>9, <1>10, <1>11, <1>12, <1>13, <1>14, <1>15,
       <1>16 DEF Next, EngineStep, TargetStep, Returned

\* A run starts with its seeds and nothing written.
LEMMA FlowInitial == Init => VInv
  <1> SUFFICES ASSUME Init PROVE VInv
    OBVIOUS
  <1>1. Len(results) = 0 /\ pc = "loop"
    BY EmptySeq DEF Init
  <1>2. StoreGrows
    BY <1>1 DEF Init, StoreGrows, cur
  <1> QED
    BY <1>1, <1>2 DEF VInv, AnsweredHasCode, PassedAttemptExtracted, NeverStarvedSoFar,
                      PassedStepsExtract, WellFedNeverStarves, Decided

\* For every scenario, whatever the target answers and wherever a deadline
\* falls: an ordinary step reads nothing that a failed step left behind, what a
\* passed step extracted stays, and a scenario whose steps read only what is
\* seeded or extracted before never runs into an unresolved variable.
THEOREM ValuesFlow == Spec => []VariablesFlow
  <1>1. ASSUME IInv, VInv PROVE VariablesFlow
    BY <1>1, ReadsJustified DEF VariablesFlow, VInv
  <1>2. SafeSpec => []AInv
    BY AccountsInitial, AccountsInductive, Invariant, PTL DEF SafeSpec
  <1> QED
    BY <1>1, <1>2, FlowInitial, FlowInductive, Invariant, PTL DEF Spec, SafeSpec
=============================================================================
