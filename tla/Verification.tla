---------------------------- MODULE Verification ----------------------------
(***************************************************************************)
(* The failure vocabulary of internal/verification: the one place that     *)
(* decides WHY a step failed.  The engine classifies every failed attempt  *)
(* once with Classify; every report reads the answer.                      *)
(***************************************************************************)
EXTENDS Naturals

\* "none" stands for the empty Category of a step that passed or was skipped.
Categories == {"contract_mismatch", "assertion_failed", "auth_failure",
               "rate_limited", "server_error", "transport_failure",
               "timeout", "config_error"}

\* What client.Do or the body read returned: no error, an error isDeadline
\* recognises (context deadline, Timeout(), "Client.Timeout exceeded"), or any
\* other transport error.
TransportErrors == {"nil", "deadline", "other"}

\* verification.Input.  HasFailedAssertion is left out: Classify never reads it.
\* status 0 means that no response arrived.
Inputs == [status : Nat, violated : BOOLEAN, transport : TransportErrors,
           timedOut : BOOLEAN, config : BOOLEAN]

\* The precedence, highest first; the last branch is the default of the switch.
Classify(in) ==
  IF in.timedOut \/ in.transport = "deadline" THEN "timeout"
  ELSE IF in.transport # "nil" THEN "transport_failure"
  ELSE IF in.config THEN "config_error"
  ELSE IF in.status \in {401, 403} THEN "auth_failure"
  ELSE IF in.status = 429 THEN "rate_limited"
  ELSE IF in.status \in 500 .. 599 THEN "server_error"
  ELSE IF in.violated THEN "contract_mismatch"
  ELSE "assertion_failed"

=============================================================================
