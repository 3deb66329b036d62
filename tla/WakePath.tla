------------------------------ MODULE WakePath ------------------------------
(***************************************************************************)
(* How a request for a cold model gets a backend, in time: the waker's     *)
(* promise, the demand, the supervisor's tick, the job, its heartbeat, the *)
(* gateway's route, and idle reaping at the other end.                     *)
(*                                                                         *)
(* One model and one job at a time: whatever squeue still lists holds the  *)
(* next launch back.  The unit of time is the heartbeat's 30 s, the        *)
(* gateway syncs once in each, and steps take no time but for the faults.  *)
(* The interleaving of single calls is in Reconcile, the crash backoff in  *)
(* CrashBackoff, litellm's restarts in Gateway.                            *)
(***************************************************************************)
EXTENDS Naturals

CONSTANTS
    Tick,       \* TICK_S
    Stale,      \* STALE_AFTER_S
    Idle,       \* idle_timeout_s
    Linger,     \* how long squeue lists a job that has ended
    MaxFaults   \* bound on the faults of a behaviour

ASSUME WakePathAssumption ==
    /\ Tick \in Nat \ {0} /\ Stale \in Nat /\ Linger \in Nat
    /\ Idle \in Nat \ {0}    \* 0 turns reaping off
    /\ MaxFaults \in Nat

VARIABLES
    job,        \* the model's job; "lost" is a dead node Slurm still lists
    lingers,    \* age of a job that is "leaving"
    rec,        \* the state its record claims
    beat,       \* age of the record's heartbeat
    silent,     \* the heartbeat subshell has died
    since,      \* age of last_active_at, or of ready_at
    busy,       \* requests are running
    unseen,     \* requests have completed that last_activity_count lacks
    quiet,      \* how long the engine has really had no request
    desired,    \* mr.demand
    pc,         \* where the supervisor is in its tick
    toTick,     \* time to the next one
    late,       \* has a request reached the engine since the tick's poll?
    route,      \* where litellm sends the model's requests
    synced,     \* has the gateway synced in this unit?
    deadFor,    \* how long the route has been dead
    told,       \* 0, or in its how-manieth unit an unkept promise of a start is
    harm,       \* what the faults so far may have broken
    faults

slurm  == <<job, lingers>>
record == <<rec, beat, silent, since>>
engine == <<busy, unseen, quiet, late>>
sup    == <<pc, toTick>>
gw     == <<route, synced, deadFor>>
trouble == <<harm, faults>>
vars   == <<slurm, record, engine, desired, sup, gw, told, trouble>>

Jobs   == {"none", "queued", "loading", "ready", "lost", "leaving"}
SupPCs == {"rest", "decide", "launch", "reap", "clear", "sweep", "down"}

\* Every age and counter stops at the first value no test tells from later ones.
Older(age, max) == IF age < max THEN age + 1 ELSE max
PromiseMax == Tick + Linger + 2
DeadMax    == Stale + 2

Init ==
    /\ job = "none" /\ lingers = 0
    /\ rec = "none" /\ beat = 0 /\ silent = FALSE /\ since = 0
    /\ busy = FALSE /\ unseen = FALSE /\ quiet = 0 /\ late = FALSE
    /\ desired \in {0, 1}
    /\ pc = "rest" /\ toTick \in 0..Tick
    /\ route = "waker" /\ synced = FALSE /\ deadFor = 0
    /\ told = 0
    /\ harm = {}
    /\ faults = 0

\* A fault may break the promise of a start, or the supervisor's sight of the
\* engine's activity.
Fault(harms) ==
    /\ faults < MaxFaults
    /\ faults' = faults + 1
    /\ harm' = harm \cup harms

Fresh == beat <= Stale
DeadRoute == route = "backend" /\ job # "ready"

-----------------------------------------------------------------------------
(* Clients.                                                                *)

\* Where _wake_eta_message has no job to talk about, and there is none that
\* the next sync will route to.
NothingComing ==
    /\ job # "queued"
    /\ rec = "loading" => job = "none"
    /\ ~(job = "ready" /\ Fresh)

\* Mutant: the demand is left alone while squeue lists a job.
WakesNoneListed ==
    /\ route = "waker"
    /\ desired' = IF job = "none" THEN 1 ELSE desired
    /\ told' = IF NothingComing /\ told = 0 THEN 1 ELSE told
    /\ UNCHANGED <<slurm, record, engine, sup, gw, trouble>>

\* The waker answers a request and, with nothing coming, promises a start.
Wakes ==
    /\ route = "waker"
    /\ desired' = 1
    /\ told' = IF NothingComing /\ told = 0 THEN 1 ELSE told
    /\ UNCHANGED <<slurm, record, engine, sup, gw, trouble>>

\* A request reaches the engine, and one is answered.
Begins ==
    /\ route = "backend" /\ job = "ready"
    /\ busy' = TRUE
    /\ quiet' = 0
    /\ late' = TRUE
    /\ UNCHANGED <<slurm, record, unseen, desired, sup, gw, told, trouble>>

Completes ==
    /\ busy
    /\ busy' = FALSE
    /\ unseen' = TRUE
    /\ UNCHANGED <<slurm, record, quiet, late, desired, sup, gw, told, trouble>>

-----------------------------------------------------------------------------
(* The job.                                                                *)

\* It starts and publishes its record, LOADING and then READY: loading takes
\* longer than a sync.
Starts ==
    /\ job = "queued" /\ job' = "loading"
    /\ rec' = "loading"
    /\ beat' = 0
    /\ UNCHANGED <<lingers, silent, since, engine, desired, sup, gw, told, trouble>>

\* Mutant: an overlapping heartbeat writes LOADING back over READY.
EngineAnswersUnpublished ==
    /\ job = "loading" /\ job' = "ready"
    /\ route = "waker"
    /\ UNCHANGED <<lingers, record, engine, desired, sup, gw, told, trouble>>

EngineAnswers ==
    /\ job = "loading" /\ job' = "ready"
    /\ route = "waker"
    /\ rec' = "ready"
    /\ beat' = 0
    /\ since' = 0
    /\ quiet' = 0
    /\ UNCHANGED <<lingers, silent, busy, unseen, late, desired, sup, gw, told, trouble>>

\* The engine goes and the trap evicts the record, within seconds.  A lost
\* job runs no trap.
Ends ==
    /\ job' = "leaving"
    /\ lingers' = 0
    /\ rec' = IF job \in {"lost", "leaving"} THEN rec ELSE "none"
    /\ busy' = FALSE
    /\ unseen' = FALSE
    /\ silent' = FALSE
    /\ UNCHANGED <<beat, since, quiet, late>>

\* It leaves squeue, a lost one when Slurm notices.
Leaves ==
    /\ job \in {"leaving", "lost"}
    /\ job' = "none"
    /\ UNCHANGED <<lingers, record, engine, desired, sup, gw, told, trouble>>

\* A failed bring-up, a crash of the engine, the walltime.
EngineExits ==
    /\ Fault({})
    /\ job \in {"loading", "ready"}
    /\ Ends
    /\ UNCHANGED <<desired, sup, gw, told>>

NodeFails ==
    /\ Fault({"promise"})
    /\ job \in {"loading", "ready"}
    /\ job' = "lost"
    /\ busy' = FALSE
    /\ unseen' = FALSE
    /\ silent' = FALSE
    /\ UNCHANGED <<lingers, rec, beat, since, quiet, late, desired, sup, gw, told>>

HeartbeatDies ==
    /\ Fault({"promise", "sight"})
    /\ job \in {"loading", "ready"}
    /\ silent' = TRUE
    /\ UNCHANGED <<slurm, rec, beat, since, engine, desired, sup, gw, told>>

-----------------------------------------------------------------------------
(* The supervisor's tick.                                                  *)

SupGoto(from, to) == pc = from /\ pc' = to

\* The poll of a fresh READY record.  What it sees running or completed
\* is written with heartbeat_from_job, which renews the heartbeat as well.
Polls(active) ==
    /\ toTick = 0
    /\ SupGoto("rest", "decide")
    /\ late' = FALSE
    /\ IF rec = "ready" /\ Fresh /\ job = "ready" /\ active
       THEN /\ since' = 0
            /\ beat' = 0
            /\ unseen' = FALSE
       ELSE UNCHANGED <<since, beat, unseen>>
    /\ UNCHANGED <<slurm, rec, silent, busy, quiet, desired, toTick, gw, told>>

\* Mutant: completed requests do not count as activity.
RefreshRunningOnly == Polls(busy) /\ UNCHANGED trouble

Refresh == Polls(busy \/ unseen) /\ UNCHANGED trouble

RefreshUnanswered ==
    /\ Fault({"sight"})
    /\ rec = "ready" /\ Fresh
    /\ Polls(FALSE)

\* decide: squeue is consulted for the job, the record for all the rest,
\* its staleness left aside.  Only the reap clears the demand, after the
\* cancel: with demand 0 there is no job to drain.
InSqueue == job # "none"
Decides ==
    /\ pc = "decide"
    /\ pc' = CASE desired = 1 /\ ~InSqueue                                -> "launch"
               [] desired = 1 /\ InSqueue /\ rec = "ready" /\ since > Idle -> "reap"
               [] OTHER                                                   -> "sweep"
    /\ UNCHANGED <<slurm, record, engine, desired, toTick, gw, told, trouble>>

\* Mutant: a launch adds to the demand.
LaunchesAnother ==
    /\ SupGoto("launch", "sweep")
    /\ desired' = desired + 1
    /\ job' = "queued"
    /\ UNCHANGED <<lingers, record, engine, toTick, gw, told, trouble>>

\* cmd_up.  A dead job's record goes in the sweep of this same tick.
Launches ==
    /\ SupGoto("launch", "sweep")
    /\ desired' = 1
    /\ job' = "queued"
    /\ rec' = "none"
    /\ told' = 0
    /\ UNCHANGED <<lingers, beat, silent, since, engine, toTick, gw, trouble>>

\* Mutant: the demand is cleared first and the job cancelled then.
ReapClearsFirst ==
    /\ SupGoto("reap", "clear")
    /\ desired' = 0
    /\ UNCHANGED <<slurm, record, engine, toTick, gw, told, trouble>>

ReapCancels ==
    /\ SupGoto("reap", "clear")
    /\ IF InSqueue THEN Ends ELSE UNCHANGED <<slurm, record, engine>>
    /\ UNCHANGED <<desired, toTick, gw, told, trouble>>

ReapClears ==
    /\ SupGoto("clear", "sweep")
    /\ desired' = 0
    /\ UNCHANGED <<slurm, record, engine, toTick, gw, told, trouble>>

Sweeps ==
    /\ SupGoto("sweep", "rest")
    /\ toTick' = Tick
    /\ rec' = IF InSqueue THEN rec ELSE "none"
    /\ UNCHANGED <<slurm, beat, silent, since, engine, desired, gw, told, trouble>>

SupDies ==
    /\ Fault({"promise"})
    /\ pc # "down" /\ pc' = "down"
    /\ UNCHANGED <<slurm, record, engine, desired, toTick, gw, told>>

SupRestarts ==
    /\ SupGoto("down", "rest")
    /\ toTick' = 0
    /\ UNCHANGED <<slurm, record, engine, desired, gw, told, trouble>>

Supervisor == \/ Refresh \/ Decides \/ Launches \/ ReapCancels \/ ReapClears \/ Sweeps

-----------------------------------------------------------------------------
(* The gateway and time.                                                   *)

\* A reap that is not slow is over before a trap, which sleeps 2 s, evicts.
Routes(believed) ==
    /\ ~synced /\ synced' = TRUE
    /\ pc \in {"reap", "clear"} => lingers > 0
    /\ route' = IF rec = "ready" /\ believed THEN "backend" ELSE "waker"
    /\ UNCHANGED <<slurm, record, engine, desired, sup, deadFor, told, trouble>>

\* Mutant: the record is believed whatever its heartbeat's age.
SyncsStale == Routes(TRUE)

Syncs == Routes(Fresh)

\* Time passes when nothing is due.  scancel or a process that is down can
\* take any time.
Passes ==
    /\ synced /\ synced' = FALSE
    /\ job = "leaving" => lingers < Linger
    /\ \/ pc = "rest" /\ toTick > 0 /\ toTick' = toTick - 1 /\ UNCHANGED trouble
       \/ pc = "down" /\ UNCHANGED <<toTick, trouble>>
       \/ pc = "clear" /\ Fault({"promise"}) /\ UNCHANGED toTick
    /\ lingers' = IF job = "leaving" THEN lingers + 1 ELSE 0
    /\ beat' = IF job \in {"loading", "ready"} /\ ~silent THEN 0 ELSE Older(beat, Stale + 1)
    /\ since' = Older(since, Idle + 1)
    /\ quiet' = IF busy THEN 0 ELSE Older(quiet, Idle + 1)
    /\ deadFor' = IF DeadRoute THEN Older(deadFor, DeadMax) ELSE 0
    /\ told' = IF told = 0 THEN 0 ELSE Older(told, PromiseMax)
    /\ UNCHANGED <<job, rec, silent, busy, unseen, late, desired, pc, route>>

-----------------------------------------------------------------------------

JobProgress == Starts \/ EngineAnswers \/ Leaves

Next ==
    \/ Wakes \/ Begins \/ Completes
    \/ JobProgress \/ EngineExits \/ NodeFails \/ HeartbeatDies
    \/ Supervisor \/ RefreshUnanswered \/ SupDies \/ SupRestarts
    \/ Syncs \/ Passes

Spec == Init /\ [][Next]_vars

\* The two loops turn, time passes, Slurm starts, clears and notices, the
\* weights load.  No client need come and no request need end.
FairSpec ==
    /\ Spec
    /\ WF_vars(Supervisor) /\ WF_vars(Syncs) /\ WF_vars(Passes)
    /\ WF_vars(JobProgress)

-----------------------------------------------------------------------------
(* Properties.                                                             *)

(* Every variable has its type.                                            *)
TypeOK ==
    /\ job \in Jobs /\ lingers \in 0..Linger
    /\ rec \in {"none", "loading", "ready"} /\ beat \in 0..Stale + 1
    /\ silent \in BOOLEAN /\ since \in 0..Idle + 1
    /\ busy \in BOOLEAN /\ unseen \in BOOLEAN /\ quiet \in 0..Idle + 1
    /\ desired \in {0, 1}
    /\ pc \in SupPCs /\ toTick \in 0..Tick /\ late \in BOOLEAN
    /\ route \in {"waker", "backend"} /\ synced \in BOOLEAN
    /\ deadFor \in 0..DeadMax /\ told \in 0..PromiseMax
    /\ harm \subseteq {"promise", "sight"} /\ faults \in 0..MaxFaults

(* A start the waker has promised is requested by the next tick, or by the *)
(* first after a job that has ended leaves squeue, since decide takes that *)
(* for a pending one, even across failed bring-ups and reaps.  A           *)
(* supervisor that is down, a job that squeue lists without a heartbeat    *)
(* and a wake that set_desired(0) overwrites are the exceptions.           *)
StartFollows == "promise" \notin harm => told <= Tick + Linger + 1

(* A request the waker has answered with a promise is followed by a model  *)
(* that serves, with the same exceptions: the demand may be reaped away    *)
(* with the record of a job that is dead, or by a reap that was under way. *)
ColdRequestServed ==
    told > 0 ~> (route = "backend" /\ ~DeadRoute) \/ "promise" \in harm

(* A backend that serves is reaped only after idle_timeout_s without any   *)
(* request up to the tick's poll, even if each was too short to be seen    *)
(* running and the supervisor was down meanwhile; as long as every poll is *)
(* answered and the heartbeat beats.                                       *)
ReapsIdleOnly ==
    "sight" \notin harm /\ pc = "reap" /\ job = "ready" => quiet > Idle \/ late

(* While the demand is cleared the model holds no nodes: the reap cancels  *)
(* before it clears, wherever the supervisor dies in between.              *)
ClearedHoldsNoNodes == desired = 0 => job \in {"none", "leaving"}

(* A route to a backend that is gone lasts no longer than a heartbeat may  *)
(* be old and one sync more.                                               *)
DeadRouteBounded == deadFor <= Stale + 1
=============================================================================
