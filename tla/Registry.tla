------------------------------ MODULE Registry ------------------------------
(***************************************************************************)
(* A record of mr.registry, as far as the supervisor, the job and the      *)
(* gateway tell records apart.  The heartbeat timestamp, the activity      *)
(* counters and the names are left out.                                    *)
(***************************************************************************)

\* "none" stands for the missing file.
RecordStates == {"none", "queued", "loading", "ready", "draining", "failed"}

\* draining_since, as decide reads it: zero, set and within DRAIN_GRACE_S,
\* set and past it.
Graces == {"unset", "counting", "expired"}

\* `placed` says whether the fields of the job's first publish are there: its
\* address and expires_at.  A record that another publish created afresh has
\* port = 0 and expires_at = 0.
Records == [state : RecordStates, since : Graces, placed : BOOLEAN]

NoRecord == [state |-> "none", since |-> "unset", placed |-> FALSE]
Blank    == [state |-> "queued", since |-> "unset", placed |-> FALSE]

\* The record heartbeat_from_job starts from: what is on disk, or a fresh one.
HeartbeatFromJob(r) == IF r = NoRecord THEN Blank ELSE r

\* What counts as serving: active() hands out a READY record, or a DRAINING
\* one for want of a READY one.
Serving == {"ready", "draining"}
=============================================================================
