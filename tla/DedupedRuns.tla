---------------------------- MODULE DedupedRuns ----------------------------
(***************************************************************************)
(* What an idempotency key promises: of all the runs that carry it, one    *)
(* executes, and every later one is answered with that one's result, until *)
(* the process that remembers it restarts.                                 *)
(* IdempotentRuns.tla implements this module when runs do not overlap.     *)
(***************************************************************************)
CONSTANTS Requests,   \* the runs that may be asked for
          Keys,       \* idempotency keys
          KeyOf,      \* the key of each request; a value outside Keys is none
          Statuses,   \* the statuses a run may end with
          None

VARIABLES chosen,     \* the request whose run answers for each key
          answered    \* the answer to each request: who ran, with what status

vars == <<chosen, answered>>

Keyed(r) == KeyOf[r] \in Keys

Init ==
  /\ chosen = [k \in Keys |-> None]
  /\ answered = [r \in Requests |-> None]

\* The request is run; under a key it becomes the one that answers for it.
Execute(r) ==
  /\ answered[r] = None
  /\ Keyed(r) => chosen[KeyOf[r]] = None
  /\ chosen' = [k \in Keys |-> IF k = KeyOf[r] THEN r ELSE chosen[k]]
  /\ \E s \in Statuses : answered' = [answered EXCEPT ![r] = [exec |-> r, status |-> s]]

\* The request is answered from memory.
Replay(r) ==
  /\ answered[r] = None
  /\ Keyed(r)
  /\ chosen[KeyOf[r]] # None
  /\ answered' = [answered EXCEPT ![r] = answered[chosen[KeyOf[r]]]]
  /\ UNCHANGED chosen

\* A restart forgets every key.
Forget ==
  /\ chosen' = [k \in Keys |-> None]
  /\ UNCHANGED answered

Next == Forget \/ \E r \in Requests : Execute(r) \/ Replay(r)

Spec == Init /\ [][Next]_vars
=============================================================================
