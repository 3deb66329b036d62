----------------------------- MODULE Lifecycle -----------------------------
(***************************************************************************)
(* What the registry promises about the state of one backend's record: it  *)
(* moves forward along queued, loading, ready or failed, draining (any of  *)
(* them may be skipped, as when the job is told to stop early), until the  *)
(* record is evicted, and it may be recreated.                             *)
(***************************************************************************)
EXTENDS Naturals

VARIABLE state

Order == [none |-> 0, queued |-> 1, loading |-> 2, ready |-> 3, failed |-> 3,
          draining |-> 4]

Init == state = "none"

Advance == state' \in DOMAIN Order /\ Order[state] < Order[state']

Evict == state' = "none"

Next == Advance \/ Evict

Spec == Init /\ [][Next]_state
=============================================================================
