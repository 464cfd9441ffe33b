---------------------------- MODULE ScenarioRun ----------------------------
(***************************************************************************)
(* What one run of a scenario promises, with no request, retry, deadline   *)
(* or variable in sight: the steps are decided one after another, each     *)
(* exactly once; after the first failure every step that is not a cleanup  *)
(* (always_run) step is skipped and every cleanup step is still tried; and *)
(* the run ends with one verdict that its outcomes determine.              *)
(* Engine.tla implements this module.                                      *)
(***************************************************************************)
EXTENDS Naturals, Sequences

CONSTANT Plans      \* the plans a run may have: sequences of always_run flags

VARIABLES plan,     \* always_run of each step, fixed when the run starts
          outcome,  \* the outcomes decided so far, in step order
          verdict   \* "RUNNING", then the status of the finished run

vars == <<plan, outcome, verdict>>

Failures == {"FAILED", "TIMED_OUT"}

FailedAmong(o) == \E k \in 1 .. Len(o) : o[k] \in Failures

Verdict(o) ==
  IF ~FailedAmong(o) THEN "PASSED"
  ELSE IF \E k \in 1 .. Len(o) : o[k] = "TIMED_OUT" THEN "TIMED_OUT"
  ELSE "FAILED"

Init ==
  /\ plan \in Plans
  /\ outcome = <<>>
  /\ verdict = "RUNNING"

\* The next step is skipped.
Skip ==
  /\ Len(outcome) < Len(plan)
  /\ FailedAmong(outcome)
  /\ ~plan[Len(outcome) + 1]
  /\ outcome' = Append(outcome, "SKIPPED")
  /\ UNCHANGED <<plan, verdict>>

\* The next step is tried, with any outcome.
Try ==
  /\ Len(outcome) < Len(plan)
  /\ FailedAmong(outcome) => plan[Len(outcome) + 1]
  /\ \E o \in Failures \cup {"PASSED"} : outcome' = Append(outcome, o)
  /\ UNCHANGED <<plan, verdict>>

Conclude ==
  /\ verdict = "RUNNING"
  /\ Len(outcome) = Len(plan)
  /\ verdict' = Verdict(outcome)
  /\ UNCHANGED <<plan, outcome>>

Next == Skip \/ Try \/ Conclude

SafeSpec == Init /\ [][Next]_vars

Spec == SafeSpec /\ WF_vars(Next)

=============================================================================
