------------------------ MODULE IdempotentRunsProofs ------------------------
(***************************************************************************)
(* What holds of overlapping runs that share an idempotency store, however *)
(* many there are: a replay is faithful, a key is settled once the runs    *)
(* that raced for it are over, and a settled key stays settled.  And of    *)
(* runs that do not overlap: they are deduplicated by their keys.          *)
(***************************************************************************)
EXTENDS IdempotentRuns, TLAPS

\* A run is answered once, when it is done, and has an outcome when it has run.
AnsweredWhenDone ==
  \A r \in Requests :
    /\ answer[r] # None => pc[r] = "done"
    /\ pc[r] = "ran" => outcome[r] # None

\* A request whose own run ended, was answered, and had this status.
Returned(q, status) ==
  /\ q \in Requests
  /\ outcome[q] # None
  /\ answer[q] # None
  /\ answer[q].exec = q
  /\ answer[q].status = status

\* What a completed record says is what the run it names returned.
RecordsAreReal ==
  \A k \in Keys : Replayable(memory[k]) =>
    /\ Returned(memory[k].exec, memory[k].status)
    /\ KeyOf[memory[k].exec] = k

\* What an answer that is another run's says is what that run returned.
AnswersAreReal ==
  \A r \in Requests : answer[r] # None /\ answer[r].exec # r =>
    /\ Returned(answer[r].exec, answer[r].status)
    /\ KeyOf[answer[r].exec] = KeyOf[r]

\* Of a key with a run that ended, the result is stored, or some run has claimed
\* the key and will store its own.
KeysAreKept ==
  \A k \in Keys \ {EmptyKey} :
    (\E r \in executed : KeyOf[r] = k /\ pc[r] = "done") =>
      \/ Replayable(memory[k])
      \/ \E q \in Requests : KeyOf[q] = k /\ pc[q] \in {"claimed", "ran"}

IInv == TypeOK /\ AnsweredWhenDone /\ RecordsAreReal /\ AnswersAreReal /\ KeysAreKept

LEMMA ResultsAreAnswers ==
  ASSUME NEW e \in Requests, NEW sc \in Scenarios, NEW st \in Statuses \cup {"FAILED"}, NEW c \in Categories
  PROVE  /\ Result(e, sc, st, c) \in Answers
         /\ Result(e, sc, st, c) # None
         /\ Result(e, sc, st, c).exec = e
         /\ Result(e, sc, st, c).status = st
<1>1. Result(e, sc, st, c) \in Answers
  BY DEF Result, Answers
<1> QED
  BY <1>1, NoneAssumption DEF Result

LEMMA InitInvariant == Init => IInv
<1> SUFFICES ASSUME Init PROVE IInv
  OBVIOUS
<1>1. TypeOK
  BY ModeAssumption DEF Init, TypeOK
<1>2. \A k \in Keys : ~Replayable(memory[k])
  BY DEF Init, Replayable
<1>3. AnsweredWhenDone /\ AnswersAreReal /\ KeysAreKept
  BY DEF Init, AnsweredWhenDone, AnswersAreReal, KeysAreKept
<1> QED
  BY <1>1, <1>2, <1>3 DEF IInv, RecordsAreReal

LEMMA InProgressIsNoResult == InProgress \in Records /\ ~Replayable(InProgress)
BY DEF InProgress, Record, Records, Replayable

LEMMA StepInvariant == IInv /\ [Next]_vars => IInv'
<1> SUFFICES ASSUME IInv, [Next]_vars PROVE IInv'
  OBVIOUS
<1> USE DEF IInv
<1>1. CASE Restart
  <2>1. TypeOK'
    BY <1>1, ModeAssumption DEF Restart, TypeOK
  <2>2. \A k \in Keys : ~Replayable(memory'[k])
    BY <1>1 DEF Restart, Replayable
  <2>3. AnsweredWhenDone'
    BY <1>1 DEF Restart, AnsweredWhenDone, TypeOK, InFlight
  <2>4. AnswersAreReal' /\ KeysAreKept'
    BY <1>1 DEF Restart, AnswersAreReal, KeysAreKept, Returned
  <2> QED
    BY <2>1, <2>2, <2>3, <2>4 DEF RecordsAreReal
<1>2. CASE UNCHANGED vars
  BY <1>2 DEF vars, TypeOK, AnsweredWhenDone, RecordsAreReal, AnswersAreReal, KeysAreKept, Returned
<1>3. ASSUME NEW r \in Requests, Begin(r) PROVE IInv'
  <2>1. TypeOK'
    BY <1>3 DEF Begin, TypeOK, Answered
  <2> QED
    BY <1>3, <2>1 DEF Begin, TypeOK, AnsweredWhenDone, RecordsAreReal, AnswersAreReal, KeysAreKept, Returned
<1>4. ASSUME NEW r \in Requests, RejectKey(r) PROVE IInv'
  <2>1. Result(r, ScenarioOf[r], "FAILED", "none") \in Answers
        /\ Result(r, ScenarioOf[r], "FAILED", "none").exec = r
    BY ResultsAreAnswers, RequestsAssumption DEF Categories
  <2>2. TypeOK'
    BY <1>4, <2>1 DEF RejectKey, TypeOK
  <2>3. answer[r] = None
    BY <1>4 DEF RejectKey, AnsweredWhenDone
  <2> QED
    BY <1>4, <2>1, <2>2, <2>3, KeysAssumption
    DEF RejectKey, TypeOK, AnsweredWhenDone, RecordsAreReal, AnswersAreReal, KeysAreKept, Returned
<1>5. ASSUME NEW r \in Requests, SkipStore(r) \/ Miss(r) PROVE IInv'
  <2>1. TypeOK'
    BY <1>5 DEF SkipStore, Miss, TypeOK
  <2> QED
    BY <1>5, <2>1 DEF SkipStore, Miss, TypeOK, AnsweredWhenDone, RecordsAreReal, AnswersAreReal, KeysAreKept, Returned
<1>6. ASSUME NEW r \in Requests, Replay(r) PROVE IInv'
  <2> DEFINE k == KeyOf[r]
             rec == memory[k]
  <2>1. k \in Keys /\ Replayable(rec) /\ Returned(rec.exec, rec.status) /\ KeyOf[rec.exec] = k
    BY <1>6 DEF Replay, RecordsAreReal
  <2>2. rec \in [state : {"completed"}, exec : Requests, scenario : Scenarios, status : Statuses]
    BY <2>1 DEF TypeOK, Records, Replayable, InProgress, Record
  <2>3. Rebuilt(rec) \in Answers /\ Rebuilt(rec) # None
        /\ Rebuilt(rec).exec = rec.exec /\ Rebuilt(rec).status = rec.status
    BY <2>2, ResultsAreAnswers DEF Rebuilt, Categories
  <2>4. answer[r] = None
    BY <1>6 DEF Replay, AnsweredWhenDone
  <2>5. /\ answer' = [answer EXCEPT ![r] = Rebuilt(rec)]
        /\ pc' = [pc EXCEPT ![r] = "done"]
        /\ UNCHANGED <<memory, outcome, restarts, executed, before>>
    BY <1>6 DEF Replay
  <2>6. TypeOK'
    BY <2>3, <2>5 DEF TypeOK
  <2>7. \A q \in Requests : \A s : Returned(q, s) => Returned(q, s)'
    BY <2>4, <2>5 DEF Returned, TypeOK
  <2>8. AnsweredWhenDone'
    BY <2>5 DEF AnsweredWhenDone, TypeOK
  <2>9. RecordsAreReal'
    BY <2>5, <2>7 DEF RecordsAreReal, Returned
  <2>10. AnswersAreReal'
    <3> SUFFICES ASSUME NEW p \in Requests, answer'[p] # None, answer'[p].exec # p
                 PROVE  (Returned(answer[p].exec, answer[p].status) /\ KeyOf[answer[p].exec] = KeyOf[p])'
      BY DEF AnswersAreReal
    <3>1. CASE p = r
      BY <3>1, <2>1, <2>3, <2>5, <2>7 DEF TypeOK, Returned
    <3>2. CASE p # r
      <4>1. answer'[p] = answer[p]
        BY <3>2, <2>5 DEF TypeOK
      <4> QED
        BY <4>1, <2>7 DEF AnswersAreReal, Returned
    <3> QED
      BY <3>1, <3>2
  <2>11. KeysAreKept'
    BY <2>1, <2>5 DEF KeysAreKept, TypeOK
  <2> QED
    BY <2>6, <2>8, <2>9, <2>10, <2>11
<1>7. ASSUME NEW r \in Requests, Claim(r) PROVE IInv'
  <2>1. /\ memory' = [memory EXCEPT ![KeyOf[r]] = InProgress]
        /\ pc[r] = "missed"
        /\ pc' = [pc EXCEPT ![r] = "claimed"]
        /\ UNCHANGED <<outcome, answer, restarts, executed, before>>
    BY <1>7 DEF Claim
  <2>2. TypeOK'
    BY <2>1, InProgressIsNoResult DEF TypeOK
  <2>3. AnsweredWhenDone' /\ AnswersAreReal'
    BY <2>1 DEF AnsweredWhenDone, AnswersAreReal, Returned, TypeOK
  <2>4. \A k \in Keys : memory'[k] = memory[k] \/ (memory'[k] = InProgress /\ KeyOf[r] = k)
    BY <2>1 DEF TypeOK
  <2>5. RecordsAreReal'
    BY <2>1, <2>4, InProgressIsNoResult DEF RecordsAreReal, Returned
  <2>6. KeysAreKept'
    BY <2>1, <2>4 DEF KeysAreKept, TypeOK
  <2> QED
    BY <2>2, <2>3, <2>5, <2>6
<1>8. ASSUME NEW r \in Requests, Run(r) PROVE IInv'
  <2>1. PICK s \in Statuses : outcome' = [outcome EXCEPT ![r] = [status |-> s, cat |-> CategoryOf(s)]]
    BY <1>8 DEF Run
  <2>2. [status |-> s, cat |-> CategoryOf(s)] \in Outcomes
    BY StatusesAssumption DEF Outcomes, CategoryOf, Categories
  <2>3. [status |-> s, cat |-> CategoryOf(s)] # None
    BY <2>2, NoneAssumption
  <2>4. TypeOK'
    BY <1>8, <2>1, <2>2 DEF Run, TypeOK
  <2>5. \A q \in Requests : \A st : Returned(q, st) => Returned(q, st)'
    BY <1>8, <2>1, <2>3 DEF Run, Returned, TypeOK
  <2>6. AnsweredWhenDone'
    BY <1>8, <2>1, <2>3 DEF Run, AnsweredWhenDone, TypeOK
  <2>7. RecordsAreReal' /\ AnswersAreReal'
    BY <1>8, <2>5 DEF Run, RecordsAreReal, AnswersAreReal, Returned
  <2>8. KeysAreKept'
    BY <1>8 DEF Run, KeysAreKept, TypeOK
  <2> QED
    BY <2>4, <2>6, <2>7, <2>8
<1>9. ASSUME NEW r \in Requests, Finish(r) PROVE IInv'
  <2> DEFINE res == Result(r, ScenarioOf[r], outcome[r].status, outcome[r].cat)
  <2>1. outcome[r] \in Outcomes /\ outcome[r] # None /\ pc[r] = "ran" /\ answer[r] = None
    BY <1>9 DEF Finish, AnsweredWhenDone, TypeOK
  <2>2. res \in Answers /\ res # None /\ res.exec = r /\ res.status = outcome[r].status
    BY <2>1, ResultsAreAnswers, RequestsAssumption DEF Outcomes
  <2>3. /\ Completed(r) \in Records
        /\ Replayable(Completed(r))
        /\ Completed(r).exec = r
        /\ Completed(r).status = outcome[r].status
    BY <2>1, RequestsAssumption, NoneAssumption DEF Completed, Record, Records, Replayable, Outcomes
  <2>4. /\ answer' = [answer EXCEPT ![r] = res]
        /\ pc' = [pc EXCEPT ![r] = "done"]
        /\ UNCHANGED <<outcome, restarts, executed, before>>
    BY <1>9 DEF Finish
  <2>5. \/ memory' = memory /\ KeyOf[r] \notin Keys \ {EmptyKey}
        \/ memory' = [memory EXCEPT ![KeyOf[r]] = Completed(r)] /\ KeyOf[r] \in Keys \ {EmptyKey}
    BY <1>9 DEF Finish, Remembers
  <2>6. TypeOK'
    BY <2>2, <2>3, <2>4, <2>5 DEF TypeOK
  <2>7. \A q \in Requests : \A st : Returned(q, st) => Returned(q, st)'
    BY <2>1, <2>4 DEF Returned, TypeOK
  <2>8. Returned(r, outcome[r].status)'
    BY <2>1, <2>2, <2>4 DEF Returned, TypeOK
  <2>9. AnsweredWhenDone'
    BY <2>1, <2>4 DEF AnsweredWhenDone, TypeOK
  <2>10. \A k \in Keys : memory'[k] = memory[k] \/ (memory'[k] = Completed(r) /\ KeyOf[r] = k)
    BY <2>5 DEF TypeOK
  <2>11. RecordsAreReal'
    <3> SUFFICES ASSUME NEW k \in Keys, Replayable(memory'[k])
                 PROVE  (Returned(memory[k].exec, memory[k].status) /\ KeyOf[memory[k].exec] = k)'
      BY DEF RecordsAreReal
    <3>1. CASE memory'[k] = memory[k]
      BY <3>1, <2>7 DEF RecordsAreReal, Returned
    <3>2. CASE memory'[k] = Completed(r) /\ KeyOf[r] = k
      BY <3>2, <2>3, <2>8, <2>4
    <3> QED
      BY <3>1, <3>2, <2>10
  <2>12. AnswersAreReal'
    <3> SUFFICES ASSUME NEW p \in Requests, answer'[p] # None, answer'[p].exec # p
                 PROVE  (Returned(answer[p].exec, answer[p].status) /\ KeyOf[answer[p].exec] = KeyOf[p])'
      BY DEF AnswersAreReal
    <3>1. p # r /\ answer'[p] = answer[p]
      BY <2>2, <2>4 DEF TypeOK
    <3> QED
      BY <3>1, <2>7 DEF AnswersAreReal, Returned
  <2>13. KeysAreKept'
    <3> SUFFICES ASSUME NEW k \in Keys \ {EmptyKey}, NEW p \in executed', KeyOf[p] = k, pc'[p] = "done"
                 PROVE  \/ Replayable(memory'[k])
                        \/ \E q \in Requests : KeyOf[q] = k /\ pc'[q] \in {"claimed", "ran"}
      BY DEF KeysAreKept
    <3>1. CASE KeyOf[r] = k
      BY <3>1, <2>3, <2>5 DEF TypeOK
    <3>2. CASE KeyOf[r] # k
      BY <3>2, <2>4, <2>5 DEF TypeOK, KeysAreKept
    <3> QED
      BY <3>1, <3>2
  <2> QED
    BY <2>6, <2>9, <2>11, <2>12, <2>13
<1> QED
  BY <1>1, <1>2, <1>3, <1>4, <1>5, <1>6, <1>7, <1>8, <1>9 DEF Next, RunStep

THEOREM Invariance == SafeSpec => []IInv
<1> QED
  BY InitInvariant, StepInvariant, PTL DEF SafeSpec

\* Every variable has its type, in every interleaving of any number of runs.
THEOREM TypeCorrect == SafeSpec => []TypeOK
<1>1. IInv => TypeOK
  BY DEF IInv
<1> QED
  BY <1>1, Invariance, PTL

\* A replayed answer is that of an executed and answered run of the same key
\* (runner.go's Get, Set and Set), never half of one.
THEOREM ReplaysFaithful == SafeSpec => []ReplaysAreFaithful
<1>1. IInv => ReplaysAreFaithful
  BY DEF IInv, AnswersAreReal, ReplaysAreFaithful, Returned, Answered
<1> QED
  BY <1>1, Invariance, PTL

\* However the runs of a key raced, when they are over its result is stored.
THEOREM QuietKeysSettled == SafeSpec => []QuietKeysAreSettled
<1>1. IInv => QuietKeysAreSettled
  BY DEF IInv, KeysAreKept, QuietKeysAreSettled, Settled, Busy
<1> QED
  BY <1>1, Invariance, PTL

\* Nothing but a restart makes a settled key run again.
THEOREM SettledStay == SafeSpec => SettledKeysStaySettled
<1>1. IInv /\ [Next]_vars => [\A k \in Keys : Settled(k) => Settled(k)' \/ restarts' # restarts]_vars
  <2> SUFFICES ASSUME IInv, Next, NEW k \in Keys, Settled(k)
               PROVE  Settled(k)' \/ restarts' # restarts
    OBVIOUS
  <2>1. TypeOK /\ Replayable(memory[k]) /\ \A r \in Requests : KeyOf[r] = k => pc[r] \notin {"missed", "claimed", "ran"}
    BY DEF IInv, Settled, Busy
  <2>2. CASE Restart
    BY <2>2, <2>1, ModeAssumption DEF Restart, TypeOK
  <2>3. ASSUME NEW r \in Requests, Begin(r) \/ RejectKey(r) \/ SkipStore(r) \/ Replay(r)
        PROVE  Settled(k)'
    BY <2>3, <2>1, KeysAssumption DEF Begin, RejectKey, SkipStore, Replay, Settled, Busy, TypeOK
  <2>4. ASSUME NEW r \in Requests, Miss(r) PROVE Settled(k)'
    BY <2>4, <2>1 DEF Miss, Missed, Settled, Busy, TypeOK
  <2>5. ASSUME NEW r \in Requests, Claim(r) \/ Run(r) \/ Finish(r) PROVE Settled(k)'
    BY <2>5, <2>1 DEF Claim, Run, Finish, Settled, Busy, TypeOK
  <2> QED
    BY <2>2, <2>3, <2>4, <2>5 DEF Next, RunStep
<1> QED
  BY <1>1, Invariance, PTL DEF SafeSpec, SettledKeysStaySettled

-----------------------------------------------------------------------------
(* Runs that do not overlap                                                *)

\* What is in flight is the only run that is; a run that was executed is over or
\* about to be; those in before[r] are over.
OneAtATime ==
  /\ \A p, q \in InFlight : p = q
  /\ \A r \in executed : pc[r] \in {"ran", "done"}
  /\ \A r \in Requests : \A q \in before[r] : KeyOf[q] = KeyOf[r] /\ pc[q] = "done"

\* A run is executed under a key only while no result is stored for it, and from
\* then on one is; the empty key has none.
StoredOnce ==
  /\ \A r \in Requests : pc[r] \in {"missed", "claimed", "ran"} /\ KeyOf[r] \in Keys => ~Replayable(memory[KeyOf[r]])
  /\ \A r \in executed : pc[r] = "done" /\ KeyOf[r] \in Keys \ {EmptyKey} => Replayable(memory[KeyOf[r]])
  /\ ~Replayable(memory[EmptyKey])

SeqInv == OneAtATime /\ StoredOnce /\ RepeatRunsDeduped

LEMMA InitSequential == Init => SeqInv
BY KeysAssumption
DEF Init, SeqInv, OneAtATime, StoredOnce, RepeatRunsDeduped, InFlight, Replayable

LEMMA SequentialStep ==
  ASSUME ~Concurrent, IInv, SeqInv, [Next]_vars
  PROVE  SeqInv'
<1>1. TypeOK /\ AnsweredWhenDone /\ OneAtATime /\ StoredOnce /\ RepeatRunsDeduped
  BY DEF IInv, SeqInv
<1>2. CASE UNCHANGED vars
  BY <1>2, <1>1 DEF vars, SeqInv, OneAtATime, StoredOnce, RepeatRunsDeduped, InFlight
<1>3. CASE Restart
  <2>1. OneAtATime'
    BY <1>3, <1>1 DEF Restart, OneAtATime, InFlight, TypeOK
  <2>2. StoredOnce' /\ RepeatRunsDeduped'
    BY <1>3, KeysAssumption DEF Restart, StoredOnce, RepeatRunsDeduped, Replayable
  <2> QED
    BY <2>1, <2>2 DEF SeqInv
<1>4. ASSUME NEW r \in Requests, Begin(r) PROVE SeqInv'
  <2>1. InFlight = {} /\ pc[r] = "new" /\ r \notin executed
    BY <1>4, <1>1 DEF Begin, MayBegin, OneAtATime
  <2>2. /\ pc' = [pc EXCEPT ![r] = "begun"]
        /\ before' = [before EXCEPT ![r] = {q \in Answered : KeyOf[q] = KeyOf[r]}]
        /\ UNCHANGED <<memory, executed>>
    BY <1>4 DEF Begin
  <2>3. \A q \in Answered : q \in Requests /\ pc[q] = "done"
    BY <1>1 DEF Answered, AnsweredWhenDone
  <2>4. OneAtATime'
    BY <1>1, <2>1, <2>2, <2>3 DEF OneAtATime, InFlight, TypeOK
  <2>5. StoredOnce'
    BY <1>1, <2>1, <2>2 DEF StoredOnce, TypeOK
  <2>6. RepeatRunsDeduped'
    BY <1>1, <2>1, <2>2 DEF RepeatRunsDeduped, TypeOK
  <2> QED
    BY <2>4, <2>5, <2>6 DEF SeqInv
<1>5. ASSUME NEW r \in Requests, RejectKey(r) \/ SkipStore(r) \/ Replay(r) \/ Miss(r) PROVE SeqInv'
  <2>1. /\ pc[r] = "begun"
        /\ pc' \in {[pc EXCEPT ![r] = "done"], [pc EXCEPT ![r] = "claimed"], [pc EXCEPT ![r] = "missed"]}
        /\ UNCHANGED <<memory, executed, before>>
    BY <1>5 DEF RejectKey, SkipStore, Replay, Miss
  <2>2. r \notin executed
    BY <1>1, <2>1 DEF OneAtATime
  <2>3. pc'[r] \in {"missed", "claimed"} /\ KeyOf[r] \in Keys => ~Replayable(memory[KeyOf[r]])
    BY <1>5, <1>1, KeysAssumption DEF RejectKey, SkipStore, Replay, Miss, Missed, TypeOK
  <2>4. OneAtATime'
    BY <1>1, <2>1, <2>2 DEF OneAtATime, InFlight, TypeOK
  <2>5. StoredOnce'
    BY <1>1, <2>1, <2>2, <2>3 DEF StoredOnce, TypeOK
  <2>6. RepeatRunsDeduped'
    BY <1>1, <2>1 DEF RepeatRunsDeduped
  <2> QED
    BY <2>4, <2>5, <2>6 DEF SeqInv
<1>6. ASSUME NEW r \in Requests, Claim(r) PROVE SeqInv'
  <2>1. /\ pc[r] = "missed"
        /\ pc' = [pc EXCEPT ![r] = "claimed"]
        /\ memory' = [memory EXCEPT ![KeyOf[r]] = InProgress]
        /\ UNCHANGED <<executed, before>>
    BY <1>6 DEF Claim
  <2>2. r \notin executed
    BY <1>1, <2>1 DEF OneAtATime
  <2>3. \A k \in Keys : memory'[k] = memory[k] \/ (memory'[k] = InProgress /\ KeyOf[r] = k)
    BY <1>1, <2>1 DEF TypeOK
  <2>4. OneAtATime'
    BY <1>1, <2>1, <2>2 DEF OneAtATime, InFlight, TypeOK
  <2>5. StoredOnce'
    BY <1>1, <2>1, <2>2, <2>3, InProgressIsNoResult, KeysAssumption DEF StoredOnce, TypeOK
  <2>6. RepeatRunsDeduped'
    BY <1>1, <2>1 DEF RepeatRunsDeduped
  <2> QED
    BY <2>4, <2>5, <2>6 DEF SeqInv
<1>7. ASSUME NEW r \in Requests, Run(r) PROVE SeqInv'
  <2>1. /\ pc[r] = "claimed"
        /\ pc' = [pc EXCEPT ![r] = "ran"]
        /\ executed' = executed \cup {r}
        /\ UNCHANGED <<memory, before>>
    BY <1>7 DEF Run
  <2>2. OneAtATime'
    BY <1>1, <2>1 DEF OneAtATime, InFlight, TypeOK
  <2>3. StoredOnce'
    BY <1>1, <2>1 DEF StoredOnce, TypeOK
  <2>4. RepeatRunsDeduped'
    <3> SUFFICES ASSUME NEW p \in executed \cup {r}, NEW q \in executed \cup {r},
                        KeyOf[p] = KeyOf[q], KeyOf[p] \in Keys \ {EmptyKey}, q \in before[p]
                 PROVE  FALSE
      BY <2>1 DEF RepeatRunsDeduped
    <3>1. p \in Requests /\ pc[q] = "done"
      BY <1>1 DEF OneAtATime, TypeOK
    <3>2. q \in executed
      BY <2>1, <3>1
    <3>3. p = r
      BY <1>1, <3>2 DEF RepeatRunsDeduped
    <3> QED
      BY <1>1, <2>1, <3>1, <3>2, <3>3 DEF StoredOnce
  <2> QED
    BY <2>2, <2>3, <2>4 DEF SeqInv
<1>8. ASSUME NEW r \in Requests, Finish(r) PROVE SeqInv'
  <2>1. /\ pc[r] = "ran"
        /\ pc' = [pc EXCEPT ![r] = "done"]
        /\ UNCHANGED <<executed, before>>
    BY <1>8 DEF Finish
  <2>2. \/ memory' = memory /\ KeyOf[r] \notin Keys \ {EmptyKey}
        \/ memory' = [memory EXCEPT ![KeyOf[r]] = Completed(r)] /\ KeyOf[r] \in Keys \ {EmptyKey}
    BY <1>8 DEF Finish, Remembers
  <2>3. Replayable(Completed(r))
    BY <2>1, <1>1, RequestsAssumption, NoneAssumption
    DEF Completed, Record, Records, Replayable, Outcomes, AnsweredWhenDone, TypeOK
  <2>4. OneAtATime'
    BY <1>1, <2>1 DEF OneAtATime, InFlight, TypeOK
  <2>5. \A p \in Requests : pc[p] \in {"missed", "claimed", "ran"} => p = r
    BY <1>1, <2>1 DEF OneAtATime, InFlight
  <2>6. StoredOnce'
    BY <1>1, <2>1, <2>2, <2>3, <2>5, KeysAssumption DEF StoredOnce, TypeOK
  <2>7. RepeatRunsDeduped'
    BY <1>1, <2>1 DEF RepeatRunsDeduped
  <2> QED
    BY <2>4, <2>6, <2>7 DEF SeqInv
<1> QED
  BY <1>2, <1>3, <1>4, <1>5, <1>6, <1>7, <1>8 DEF Next, RunStep

LEMMA Sequential == ASSUME ~Concurrent PROVE SafeSpec => []SeqInv
<1>1. IInv /\ SeqInv /\ [Next]_vars => SeqInv'
  BY SequentialStep
<1> QED
  BY <1>1, InitSequential, Invariance, PTL DEF SafeSpec

\* The run command, which runs its scenarios one after another (run.go:118-125),
\* never executes one whose key an earlier one of them has been executed under.
THEOREM SequentialRunsDeduped == ASSUME ~Concurrent PROVE SafeSpec => []RepeatRunsDeduped
<1>1. SeqInv => RepeatRunsDeduped
  BY DEF SeqInv
<1> QED
  BY <1>1, Sequential, PTL

\* RejectKey and Finish are an Execute of DedupedRuns, Replay is its Replay,
\* Restart its Forget; every other step changes nothing it sees.
LEMMA StepRefines ==
  ASSUME ~Concurrent, IInv, SeqInv, [Next]_vars
  PROVE  [Deduped!Next]_Deduped!vars
<1> DEFINE ch == [k \in Keys \ {EmptyKey} |-> IF Replayable(memory[k]) THEN memory[k].exec ELSE None]
           an == [r \in Requests |-> IF answer[r] = None THEN None
                                     ELSE [exec |-> answer[r].exec, status |-> answer[r].status]]
<1>1. TypeOK /\ AnsweredWhenDone /\ RecordsAreReal /\ StoredOnce
  BY DEF IInv, SeqInv
<1>2. ASSUME UNCHANGED <<memory, answer>> PROVE UNCHANGED <<ch, an>>
  BY <1>2
<1>3. CASE UNCHANGED vars
  BY <1>3, <1>2 DEF vars, Deduped!vars
<1>4. CASE Restart
  <2>1. ch' = [k \in Keys \ {EmptyKey} |-> None] /\ an' = an
    BY <1>4 DEF Restart, Replayable
  <2> QED
    BY <2>1 DEF Deduped!Next, Deduped!Forget
<1>5. ASSUME NEW r \in Requests, Begin(r) \/ SkipStore(r) \/ Miss(r) \/ Run(r)
      PROVE  UNCHANGED Deduped!vars
  BY <1>5, <1>2 DEF Begin, SkipStore, Miss, Run, Deduped!vars
<1>6. ASSUME NEW r \in Requests, Claim(r) PROVE UNCHANGED Deduped!vars
  <2>1. \A k \in Keys : memory'[k] = memory[k] \/ (memory'[k] = InProgress /\ ~Replayable(memory[k]))
    BY <1>6, <1>1 DEF Claim, TypeOK, StoredOnce
  <2>2. ch' = ch
    BY <2>1, InProgressIsNoResult
  <2>3. an' = an
    BY <1>6 DEF Claim
  <2> QED
    BY <2>2, <2>3 DEF Deduped!vars
<1>7. ASSUME NEW r \in Requests, RejectKey(r) PROVE Deduped!Next
  <2> DEFINE res == Result(r, ScenarioOf[r], "FAILED", "none")
  <2>1. res # None /\ res.exec = r /\ res.status = "FAILED"
    BY ResultsAreAnswers, RequestsAssumption DEF Categories
  <2>2. answer[r] = None /\ KeyOf[r] \notin Keys
    BY <1>7, <1>1, KeysAssumption DEF RejectKey, AnsweredWhenDone
  <2>3. answer' = [answer EXCEPT ![r] = res] /\ memory' = memory
    BY <1>7 DEF RejectKey
  <2>4. ch' = ch
    BY <2>3
  <2>5. an' = [an EXCEPT ![r] = [exec |-> r, status |-> "FAILED"]]
    BY <1>1, <2>1, <2>3 DEF TypeOK
  <2>6. ch' = [k \in Keys \ {EmptyKey} |-> IF k = KeyOf[r] THEN r ELSE ch[k]]
    BY <2>2, <2>4
  <2>7. an[r] = None
    BY <2>2
  <2>8. Deduped!Execute(r)
    BY <2>2, <2>5, <2>6, <2>7, StatusesAssumption DEF Deduped!Execute, Deduped!Keyed
  <2> QED
    BY <2>8 DEF Deduped!Next
<1>8. ASSUME NEW r \in Requests, Replay(r) PROVE Deduped!Next
  <2> DEFINE rec == memory[KeyOf[r]]
  <2>1. KeyOf[r] \in Keys \ {EmptyKey} /\ Replayable(rec) /\ Returned(rec.exec, rec.status)
    BY <1>8, <1>1 DEF Replay, StoredOnce, RecordsAreReal
  <2>2. rec \in [state : {"completed"}, exec : Requests, scenario : Scenarios, status : Statuses]
    BY <1>1, <2>1 DEF TypeOK, Records, Replayable, InProgress, Record
  <2>3. Rebuilt(rec) # None /\ Rebuilt(rec).exec = rec.exec /\ Rebuilt(rec).status = rec.status
    BY <2>2, ResultsAreAnswers DEF Rebuilt, Categories
  <2>4. answer[r] = None /\ answer' = [answer EXCEPT ![r] = Rebuilt(rec)] /\ memory' = memory
    BY <1>8, <1>1 DEF Replay, AnsweredWhenDone
  <2>5. ch[KeyOf[r]] = rec.exec /\ rec.exec # None /\ ch' = ch
    BY <2>1, <2>2, <2>4, RequestsAssumption
  <2>6. an[rec.exec] = [exec |-> rec.exec, status |-> rec.status]
    BY <2>1 DEF Returned
  <2>7. an' = [an EXCEPT ![r] = an[ch[KeyOf[r]]]]
    BY <1>1, <2>3, <2>4, <2>5, <2>6 DEF TypeOK
  <2>8. an[r] = None
    BY <2>4
  <2>9. Deduped!Replay(r)
    BY <2>1, <2>5, <2>7, <2>8 DEF Deduped!Replay, Deduped!Keyed
  <2> QED
    BY <2>9 DEF Deduped!Next
<1>9. ASSUME NEW r \in Requests, Finish(r) PROVE Deduped!Next
  <2> DEFINE res == Result(r, ScenarioOf[r], outcome[r].status, outcome[r].cat)
  <2>1. outcome[r] \in Outcomes /\ pc[r] = "ran" /\ answer[r] = None
    BY <1>9, <1>1 DEF Finish, AnsweredWhenDone, TypeOK
  <2>2. outcome[r].status \in Statuses /\ res # None /\ res.exec = r /\ res.status = outcome[r].status
    BY <2>1, ResultsAreAnswers, RequestsAssumption DEF Outcomes
  <2>3. Replayable(Completed(r)) /\ Completed(r).exec = r
    BY <2>1, RequestsAssumption, NoneAssumption DEF Completed, Record, Records, Replayable, Outcomes
  <2>4. answer' = [answer EXCEPT ![r] = res]
    BY <1>9 DEF Finish
  <2>5. \/ memory' = memory /\ KeyOf[r] \notin Keys \ {EmptyKey}
        \/ memory' = [memory EXCEPT ![KeyOf[r]] = Completed(r)] /\ KeyOf[r] \in Keys \ {EmptyKey}
    BY <1>9 DEF Finish, Remembers
  <2>6. an' = [an EXCEPT ![r] = [exec |-> r, status |-> outcome[r].status]]
    BY <1>1, <2>2, <2>4 DEF TypeOK
  <2>7. ch' = [k \in Keys \ {EmptyKey} |-> IF k = KeyOf[r] THEN r ELSE ch[k]]
    BY <1>1, <2>3, <2>5 DEF TypeOK
  <2>8. KeyOf[r] \in Keys \ {EmptyKey} => ch[KeyOf[r]] = None
    BY <1>1, <2>1 DEF StoredOnce
  <2>9. an[r] = None
    BY <2>1
  <2>10. Deduped!Execute(r)
    BY <2>2, <2>6, <2>7, <2>8, <2>9 DEF Deduped!Execute, Deduped!Keyed
  <2> QED
    BY <2>10 DEF Deduped!Next
<1> QED
  BY <1>3, <1>4, <1>5, <1>6, <1>7, <1>8, <1>9 DEF Next, RunStep

\* The store of the run command is DedupedRuns: of the runs that carry a key one
\* executes, and every later one is answered with its result.
THEOREM SequentialRefines == ASSUME ~Concurrent PROVE SafeSpec => ImplementsDedupedRuns
<1>1. Init => Deduped!Init
  BY DEF Init, Deduped!Init, Replayable
<1>2. IInv /\ SeqInv /\ [Next]_vars => [Deduped!Next]_Deduped!vars
  BY StepRefines
<1> QED
  BY <1>1, <1>2, Sequential, Invariance, PTL DEF SafeSpec, ImplementsDedupedRuns, Deduped!Spec
=============================================================================
