------------------------------- MODULE Decide -------------------------------
(***************************************************************************)
(* mr.supervisor.decide as a pure operator.  One model of the              *)
(* configuration is fixed throughout: decide is called once per model and  *)
(* never looks at another model's records.                                 *)
(*                                                                         *)
(* A decision carries its rank `at`, the place of the statement of decide  *)
(* that emits it, because apply() executes the list in that order.         *)
(* Decisions of equal rank come out of an unordered collection (the live   *)
(* set, the registry directory) and are applied in any order.              *)
(***************************************************************************)
EXTENDS Registry, Naturals, FiniteSets

CONSTANTS Jobs,     \* Slurm job ids
          NoJob     \* the job_id of a decision that names no job

ASSUME JobsAssumption == IsFiniteSet(Jobs) /\ NoJob \notin Jobs

-----------------------------------------------------------------------------
(* Decisions.                                                              *)

\* What apply() does to a job, and what it does without naming one.
JobActions   == {"cancel", "start_drain", "launch_successor", "reap_idle"}
ModelActions == {"launch", "blocked"}

Launches == {"launch", "launch_successor"}

Decisions == [at : 1..4, action : JobActions, job : Jobs]
               \cup [at : 1..4, action : ModelActions, job : {NoJob}]

Decision(at, action, j) == [at |-> at, action |-> action, job |-> j]

InState(live, rec, s) == {j \in live : rec[j].state = s}

\* Mutant: a loading backend counts as ready.
ReadyOrLoading(live, rec) == InState(live, rec, "ready") \cup InState(live, rec, "loading")

Ready(live, rec)    == InState(live, rec, "ready")
Draining(live, rec) == InState(live, rec, "draining")

\* Mutant: the registry is asked instead, as before the triple launch was seen.
PendingInRegistry(live, rec) == InState(live, rec, "queued") \cup InState(live, rec, "loading")

\* Everything Slurm still has that is neither ready nor draining: the set is
\* taken from squeue, so a job without any record counts.
Pending(live, rec) == live \ (Ready(live, rec) \cup Draining(live, rec))

\* Mutant: a record without draining_since counts as drained since 1970,
\* whatever its state.
GraceCancelsUnguarded(live, rec) ==
    {Decision(1, "cancel", j) : j \in {d \in live \ Ready(live, rec) : rec[d].since # "counting"}}

\* Mutant: no backstop, a drain waits for its requests.
NoGraceCancels(live, rec) == {}

GraceCancels(live, rec) ==
    {Decision(1, "cancel", j) : j \in {d \in Draining(live, rec) : rec[d].since = "expired"}}

\* Mutant: desired=0 stops what is coming and leaves what is ready to the reaper.
UndesiredPendingOnly(live, rec) == {Decision(3, "cancel", j) : j \in Pending(live, rec)}

Undesired(live, rec) ==
    {Decision(2, "start_drain", j) : j \in Ready(live, rec)}
      \cup {Decision(3, "cancel", j) : j \in Pending(live, rec)}

ColdStart(blocked) ==
    {Decision(2, IF blocked THEN "blocked" ELSE "launch", NoJob)}

\* A record without expires_at has no walltime left at all.
RunsLow(low, rec, j) == j \in low \/ ~rec[j].placed

Handoffs(live, rec, low, blocked) ==
    IF Pending(live, rec) # {} \/ blocked THEN {}
    ELSE {Decision(2, "launch_successor", j) :
             j \in {r \in Ready(live, rec) : RunsLow(low, rec, r)}}

\* The backends min(ready, key=expires_at) may return: those that expire
\* first among the ready ones, as far as `placed` and `low` order them.
Oldest(live, rec, low) ==
    LET ready  == Ready(live, rec)
        noWall == {j \in ready : ~rec[j].placed}
        lows   == ready \cap low
    IN  IF noWall # {} THEN noWall ELSE IF lows # {} THEN lows ELSE ready

\* Mutant: off by one, the last ready backend is drained too.
SurplusOffByOne(want, live, rec, oldest) ==
    IF Cardinality(Ready(live, rec)) >= want /\ oldest # NoJob
    THEN {Decision(3, "start_drain", oldest)} ELSE {}

Surplus(want, live, rec, oldest) ==
    IF Cardinality(Ready(live, rec)) > want
    THEN {Decision(3, "start_drain", oldest)} ELSE {}

\* Mutant: idle backends are reaped before anything else is done.
ReapsFirst(live, rec, idle) ==
    {Decision(1, "reap_idle", j) : j \in Ready(live, rec) \cap idle}

Reaps(live, rec, idle) ==
    {Decision(4, "reap_idle", j) : j \in Ready(live, rec) \cap idle}

(***************************************************************************)
(* decide(model, desired).  `live` is squeue's answer and `rec` the        *)
(* registry, stale records included; `low` are the jobs with less walltime *)
(* left than handoff_lead_s, `idle` those past idle_timeout_s, `blocked`   *)
(* is failures.blocked, and `oldest` a member of Oldest (or NoJob).        *)
(***************************************************************************)
Decide(want, live, rec, low, idle, blocked, oldest) ==
    GraceCancels(live, rec) \cup
    (IF want = 0
     THEN Undesired(live, rec)
     ELSE IF Ready(live, rec) = {} /\ Pending(live, rec) = {}
     THEN ColdStart(blocked)
     ELSE Handoffs(live, rec, low, blocked)
            \cup Surplus(want, live, rec, oldest)
            \cup Reaps(live, rec, idle))
=============================================================================
