------------------------------ MODULE Reconcile ------------------------------
(***************************************************************************)
(* The control plane of one model: the supervisor's loop, the batch jobs   *)
(* it launches, the registry, the demand flag, the failure count and the   *)
(* operator's commands, with the grain of interleaving the processes have: *)
(* each registry, demand, squeue, sbatch and scancel call is a step.       *)
(*                                                                         *)
(* Abstractions.                                                           *)
(*  - Time is untimed: a walltime may run low, a drain's grace may pass    *)
(*    and a backend may count as idle at any moment they can.              *)
(*  - A read-modify-write of a registry record is one step, except for the *)
(*    job's 30 s heartbeat, whose read and write are two when "overlap" is *)
(*    among the Faults.                                                    *)
(*  - The registry directory is read in one step.                          *)
(*  - fails saturates at MaxConsecutive: only `blocked` is ever read.      *)
(*  - Slurm never reuses an id; the model does, once nothing remembers it. *)
(***************************************************************************)
EXTENDS Decide

CONSTANTS
    MaxConsecutive, \* failures.MAX_CONSECUTIVE
    Commands,       \* what clients and the operator may do: "wake", "up", "down"
    MaxCommands,    \* bound on the `mrctl up` and `mrctl down` calls of a behaviour
    Faults,         \* which faults may happen
    MaxFaults       \* bound on the faults of a behaviour

FaultKinds == {"crash", "squeue", "sbatch", "preflight", "node", "script",
               "overlap", "wall", "scancel"}

ASSUME ReconcileAssumption ==
    /\ MaxConsecutive \in Nat \ {0}
    /\ Commands \subseteq {"wake", "up", "down"}
    /\ MaxCommands \in Nat
    /\ Faults \subseteq FaultKinds
    /\ MaxFaults \in Nat

VARIABLES
    job,      \* what Slurm and the job's own script have reached, per id
    rec,      \* the registry, per id
    beating,  \* the jobs whose heartbeat subshell is alive
    beat,     \* the copy an overlapping heartbeat is about to write back
    low,      \* the jobs with less walltime left than handoff_lead_s
    desired,  \* the demand flag
    fails,    \* the consecutive failed bring-ups
    faults,   \* the faults so far
    sup,      \* the supervisor process
    cli,      \* the operator's `mrctl` process
    auto      \* ghost: the jobs the supervisor submitted

jobVars == <<job, beating, beat, low>>
vars == <<job, rec, beating, beat, low, desired, fails, faults, sup, cli, auto>>

\* "none": the id is free.  "queued": pending in Slurm.  "started": the script
\* runs, nothing published.  "answering": ready published, count not yet reset.
\* "failing": failed published, not yet counted.  "term" and "probeTerm": in
\* the TERM trap, entered from a sleep or wait, or from the readiness probe;
\* "exit": in the EXIT trap; the "...Evict" states follow the trap's publish.
\* "probed": back in the readiness loop after the trap; "probeFailing": failing
\* from there.  "done": the script is over, squeue still lists the job.
\* "gone": Slurm has forgotten it.
JobStates == {"none", "queued", "started", "loading", "answering", "serving",
              "failing", "term", "termEvict", "probeTerm", "probeEvict",
              "probed", "probeFailing", "exit", "exitEvict", "done", "gone"}

\* A job is being brought up until it has answered, or failed and been counted.
BringUp   == {"queued", "started", "loading", "failing"}
\* vLLM still answers on its port: it is up, or was told to stop moments ago.
EngineUp  == {"answering", "serving", "term", "termEvict"}
Running   == JobStates \ {"none", "queued", "gone"}
InSqueue  == {j \in Jobs : job[j] \notin {"none", "gone"}}

SupPCs == {"refresh", "polling", "squeue", "registry", "apply", "reap",
           "submit", "evict", "down"}

Polls == {Decision(0, a, j) : a \in {"poll_ready", "poll_draining"}, j \in Jobs}

SupTypes == [pc : SupPCs, want : {0, 1}, live : SUBSET Jobs,
             todo : SUBSET (Decisions \cup Polls), mine : SUBSET Jobs]

CliTypes == [pc : {"idle", "reset", "submit", "list", "records", "jobs"},
             todo : SUBSET Jobs, used : 0..MaxCommands]

TickStart == [pc |-> "refresh", want |-> 0, live |-> {}, todo |-> {}, mine |-> {}]

Init ==
    /\ job     = [j \in Jobs |-> "none"]
    /\ rec     = [j \in Jobs |-> NoRecord]
    /\ beating = {}
    /\ beat    = [j \in Jobs |-> NoRecord]
    /\ low     = {}
    /\ desired \in {0, 1}
    /\ fails   = 0
    /\ faults  = 0
    /\ sup     = TickStart
    /\ cli     = [pc |-> "idle", todo |-> {}, used |-> 0]
    /\ auto    = {}

\* One more fault of this kind happens.
Fault(kind) ==
    /\ kind \in Faults
    /\ faults < MaxFaults
    /\ faults' = faults + 1

-----------------------------------------------------------------------------
(* The batch job: Slurm, vllm-server.sbatch and its heartbeat.             *)

Goto(j, from, to) ==
    /\ job[j] = from
    /\ job' = [job EXCEPT ![j] = to]

\* publish "state=...": a heartbeat_from_job that sets the state.
Publish(j, s) == rec' = [rec EXCEPT ![j] = [HeartbeatFromJob(@) EXCEPT !.state = s]]

SlurmStarts(j) ==
    /\ Goto(j, "queued", "started")
    /\ UNCHANGED <<rec, beating, beat, low, desired, fails, faults, sup, cli, auto>>

\* The first publish also carries expires_at; the heartbeat starts after it.
PublishLoading(j) ==
    /\ Goto(j, "started", "loading")
    /\ rec' = [rec EXCEPT ![j] =
                 [HeartbeatFromJob(@) EXCEPT !.state = "loading", !.placed = TRUE]]
    /\ beating' = beating \cup {j}
    /\ UNCHANGED <<beat, low, desired, fails, faults, sup, cli, auto>>

\* `set -e` stops the script before its first publish, the trap set or not.
ScriptDies(j) ==
    /\ Fault("script")
    /\ \E s \in {"gone", "exit"} : Goto(j, "started", s)
    /\ UNCHANGED <<rec, beating, beat, low, desired, fails, sup, cli, auto>>

EngineAnswers(j) ==
    /\ Goto(j, "loading", "answering")
    /\ Publish(j, "ready")
    /\ UNCHANGED <<beating, beat, low, desired, fails, faults, sup, cli, auto>>

ResetFailures(j) ==
    /\ Goto(j, "answering", "serving")
    /\ fails' = 0
    /\ UNCHANGED <<rec, beating, beat, low, desired, faults, sup, cli, auto>>

\* fail(), first half: the engine died during load or missed the deadline.
BringUpFails(j) ==
    /\ Goto(j, "loading", "failing") \/ Goto(j, "probed", "probeFailing")
    /\ Publish(j, "failed")
    /\ UNCHANGED <<beating, beat, low, desired, fails, faults, sup, cli, auto>>

\* Mutant: the failure is logged and not counted.
RecordFailureUncounted(j) ==
    /\ \E s \in {"failing", "probeFailing"} : Goto(j, s, "exit")
    /\ UNCHANGED <<rec, beating, beat, low, desired, fails, faults, sup, cli, auto>>

\* fail(), second half, and the exit 1 after it.
RecordFailure(j) ==
    /\ \E s \in {"failing", "probeFailing"} : Goto(j, s, "exit")
    /\ fails' = IF fails < MaxConsecutive THEN fails + 1 ELSE fails
    /\ UNCHANGED <<rec, beating, beat, low, desired, faults, sup, cli, auto>>

\* `wait $SERVER` returns: with an error `set -e` exits at once, with success
\* the heartbeat subshell is killed first (a publish under way is not).
EngineExits(j) ==
    /\ Goto(j, "serving", "exit")
    /\ beating' \in {beating, beating \ {j}}
    /\ UNCHANGED <<rec, beat, low, desired, fails, faults, sup, cli, auto>>

CleanupPublish(j) ==
    /\ \/ Goto(j, "term", "termEvict")
       \/ Goto(j, "probeTerm", "probeEvict")
       \/ Goto(j, "exit", "exitEvict")
    /\ Publish(j, "draining")
    /\ UNCHANGED <<beating, beat, low, desired, fails, faults, sup, cli, auto>>

\* After the TERM trap the script goes on: an interrupted sleep or wait makes
\* `set -e` exit, an interrupted probe only makes the next check fail.
CleanupEvict(j) ==
    /\ \/ Goto(j, "termEvict", "exit")
       \/ Goto(j, "probeEvict", "probed")
       \/ Goto(j, "exitEvict", "done")
    /\ rec' = [rec EXCEPT ![j] = NoRecord]
    /\ UNCHANGED <<beating, beat, low, desired, fails, faults, sup, cli, auto>>

\* Slurm reaps the batch step, the heartbeat with it.
JobLeaves(j) ==
    /\ Goto(j, "done", "gone")
    /\ beating' = beating \ {j}
    /\ beat' = [beat EXCEPT ![j] = NoRecord]
    /\ UNCHANGED <<rec, low, desired, fails, faults, sup, cli, auto>>

\* A node failure or a SIGKILL: no trap runs, the record stays.
NodeFails(j) ==
    /\ Fault("node")
    /\ job[j] \in Running
    /\ job' = [job EXCEPT ![j] = "gone"]
    /\ beating' = beating \ {j}
    /\ beat' = [beat EXCEPT ![j] = NoRecord]
    /\ UNCHANGED <<rec, low, desired, fails, sup, cli, auto>>

\* A heartbeat that overlaps no other writer changes nothing but the
\* timestamp, unless the record is missing: then it creates a blank one.
HeartbeatRecreates(j) ==
    /\ j \in beating
    /\ rec[j] = NoRecord
    /\ rec' = [rec EXCEPT ![j] = Blank]
    /\ UNCHANGED <<jobVars, desired, fails, faults, sup, cli, auto>>

\* A heartbeat has read the record and not yet written it back.
HeartbeatReads(j) ==
    /\ Fault("overlap")
    /\ j \in beating
    /\ beat[j] = NoRecord
    /\ beat' = [beat EXCEPT ![j] = HeartbeatFromJob(rec[j])]
    /\ UNCHANGED <<job, rec, beating, low, desired, fails, sup, cli, auto>>

HeartbeatWrites(j) ==
    /\ beat[j] # NoRecord
    /\ rec' = [rec EXCEPT ![j] = beat[j]]
    /\ beat' = [beat EXCEPT ![j] = NoRecord]
    /\ UNCHANGED <<job, beating, low, desired, fails, faults, sup, cli, auto>>

\* The walltime is meant to outlast the load: it is a fault when it does not.
WallApproaches(j) ==
    /\ j \notin low
    /\ \/ job[j] \in {"answering", "serving"} /\ faults' = faults
       \/ job[j] \in {"started", "loading"} /\ Fault("wall")
    /\ low' = low \cup {j}
    /\ UNCHANGED <<job, rec, beating, beat, desired, fails, sup, cli, auto>>

\* What a SIGTERM (scancel, or the walltime) makes of a job.  A queued job is
\* dropped; before the trap is set the script just dies.
Cancelled == [s \in JobStates |->
    CASE s = "queued"  -> {"gone"}
      [] s = "started" -> {"gone", "term"}
      [] s = "loading" -> {"term", "probeTerm"}
      [] s \in {"answering", "serving", "failing", "probed", "probeFailing"} -> {"term"}
      [] OTHER -> {s}]

\* The signal reaches every process of the job, the heartbeat included.
Cancel(j) ==
    /\ job' \in {[job EXCEPT ![j] = s] : s \in Cancelled[job[j]]}
    /\ beating' = beating \ {j}
    /\ beat' = [beat EXCEPT ![j] = NoRecord]
    /\ low' = low

TimeLimit(j) ==
    /\ j \in low
    /\ job[j] \in Running
    /\ Cancel(j)
    /\ UNCHANGED <<rec, desired, fails, faults, sup, cli, auto>>

Elapsed(r) == IF r.since = "counting" THEN [r EXCEPT !.since = "expired"] ELSE r

\* DRAIN_GRACE_S passes since the supervisor drained j.
GraceElapses(j) ==
    /\ rec[j].since = "counting" \/ beat[j].since = "counting"
    /\ rec'  = [rec EXCEPT ![j] = Elapsed(@)]
    /\ beat' = [beat EXCEPT ![j] = Elapsed(@)]
    /\ UNCHANGED <<job, beating, low, desired, fails, faults, sup, cli, auto>>

\* The id of a job nothing remembers stands for a fresh one.
Recycle(j) ==
    /\ Goto(j, "gone", "none")
    /\ rec[j] = NoRecord
    /\ j \notin sup.live \cup cli.todo \cup {d.job : d \in sup.todo}
    /\ low'  = low \ {j}
    /\ auto' = auto \ {j}
    /\ sup'  = [sup EXCEPT !.mine = @ \ {j}]
    /\ UNCHANGED <<rec, beating, beat, desired, fails, faults, cli>>

-----------------------------------------------------------------------------
(* The supervisor: one tick of run(), call by call.                        *)

SupGoto(from, to) ==
    /\ sup.pc = from
    /\ sup' = [sup EXCEPT !.pc = to]

\* refresh_activity lists the records it will poll.
RefreshRead ==
    /\ sup.pc = "refresh"
    /\ sup' = [sup EXCEPT !.pc = "polling", !.todo =
                 {Decision(0, "poll_ready", j) : j \in Ready(Jobs, rec)}
                   \cup {Decision(0, "poll_draining", j) : j \in Draining(Jobs, rec)}]
    /\ UNCHANGED <<jobVars, rec, desired, fails, faults, cli, auto>>

Done(d) == sup' = [sup EXCEPT !.todo = @ \ {d}]

\* No answer (or a stale record, which is not polled), or nothing new in it.
PollSkipped(d) ==
    /\ Done(d)
    /\ UNCHANGED <<jobVars, rec>>

\* A draining backend answers that nothing is in flight.
PollQuiet(d) ==
    /\ d.action = "poll_draining"
    /\ job[d.job] \in EngineUp
    /\ Cancel(d.job)
    /\ Done(d)
    /\ UNCHANGED rec

\* Mutant: the record is written back as the tick has listed it.
PollActiveAsListed(d) ==
    /\ job[d.job] \in EngineUp
    /\ rec' = [rec EXCEPT ![d.job].state =
                 IF d.action = "poll_ready" THEN "ready" ELSE "draining"]
    /\ Done(d)
    /\ UNCHANGED jobVars

\* It answers that it was used: last_active_at is written back.
PollActive(d) ==
    /\ job[d.job] \in EngineUp
    /\ rec' = [rec EXCEPT ![d.job] = HeartbeatFromJob(@)]
    /\ Done(d)
    /\ UNCHANGED jobVars

RefreshPoll ==
    /\ sup.pc = "polling"
    /\ \E d \in sup.todo : PollSkipped(d) \/ PollQuiet(d) \/ PollActive(d)
    /\ UNCHANGED <<desired, fails, faults, cli, auto>>

ReadDemand ==
    /\ sup.pc = "polling"
    /\ sup.todo = {}
    /\ sup' = [sup EXCEPT !.pc = "squeue", !.want = desired]
    /\ UNCHANGED <<jobVars, rec, desired, fails, faults, cli, auto>>

\* Mutant: only running jobs are asked for (squeue -t RUNNING).
ListRunningJobs ==
    /\ sup.pc = "squeue"
    /\ sup' = [sup EXCEPT !.pc = "registry", !.live = InSqueue \ {j \in Jobs : job[j] = "queued"}]
    /\ UNCHANGED <<jobVars, rec, desired, fails, faults, cli, auto>>

ListJobs ==
    /\ sup.pc = "squeue"
    /\ sup' = [sup EXCEPT !.pc = "registry", !.live = InSqueue]
    /\ UNCHANGED <<jobVars, rec, desired, fails, faults, cli, auto>>

\* squeue fails inside decide: the tick is logged as failed, the sweep follows.
ListJobsFails ==
    /\ Fault("squeue")
    /\ SupGoto("squeue", "apply")
    /\ UNCHANGED <<jobVars, rec, desired, fails, cli, auto>>

\* decide reads the registry and the failure count and decides.  At want = 1
\* a set of idle backends and the drain victim are the environment's choice.
DecideTick ==
    /\ sup.pc = "registry"
    /\ \E idle \in SUBSET Ready(sup.live, rec) :
       \E oldest \in Oldest(sup.live, rec, low) \cup {NoJob} :
          /\ oldest = NoJob => Ready(sup.live, rec) = {}
          /\ sup' = [sup EXCEPT !.pc = "apply", !.todo =
                       Decide(sup.want, sup.live, rec, low, idle,
                              fails >= MaxConsecutive, oldest)]
    /\ UNCHANGED <<jobVars, rec, desired, fails, faults, cli, auto>>

\* The decisions apply() may take next: all of the lowest rank.
Head == {d \in sup.todo : \A e \in sup.todo : d.at <= e.at}

\* The next decision, of one of these actions, leaves the list; sup goes to pc.
Take(d, actions, pc) ==
    /\ sup.pc = "apply"
    /\ d.action \in actions
    /\ sup' = [sup EXCEPT !.pc = pc, !.todo = @ \ {d}]

ApplyStartDrain == \E d \in Head :
    /\ Take(d, {"start_drain"}, "apply")
    /\ rec' = [rec EXCEPT ![d.job] =
                 [HeartbeatFromJob(@) EXCEPT !.state = "draining", !.since = "counting"]]
    /\ UNCHANGED <<jobVars, desired, fails, faults, cli, auto>>

ApplyCancel == \E d \in Head :
    /\ Take(d, {"cancel"}, "apply")
    /\ Cancel(d.job)
    /\ UNCHANGED <<rec, desired, fails, faults, cli, auto>>

\* reap_idle cancels first and clears the demand second.
ApplyReap == \E d \in Head :
    /\ Take(d, {"reap_idle"}, "reap")
    /\ Cancel(d.job)
    /\ UNCHANGED <<rec, desired, fails, faults, cli, auto>>

\* slurm.cancel does not look at scancel's exit status: the job stays.
CancelFails == \E d \in Head :
    /\ Fault("scancel")
    /\ Take(d, {"cancel"}, "apply") \/ Take(d, {"reap_idle"}, "reap")
    /\ UNCHANGED <<jobVars, rec, desired, fails, cli, auto>>

\* Mutant: the reap gives one replica back instead of clearing the demand.
ReapDecrementsDemand ==
    /\ SupGoto("reap", "apply")
    /\ desired' = desired - 1
    /\ UNCHANGED <<jobVars, rec, fails, faults, cli, auto>>

ReapClearsDemand ==
    /\ SupGoto("reap", "apply")
    /\ desired' = 0
    /\ UNCHANGED <<jobVars, rec, fails, faults, cli, auto>>

ApplyBlocked == \E d \in Head :
    /\ Take(d, {"blocked"}, "apply")
    /\ UNCHANGED <<jobVars, rec, desired, fails, faults, cli, auto>>

\* cmd_up(auto) up to demand.wake, the checks passed.
ApplyLaunch == \E d \in Head :
    /\ Take(d, Launches, "submit")
    /\ desired' = 1
    /\ UNCHANGED <<jobVars, rec, fails, faults, cli, auto>>

\* cmd_up returns 1 (container or weights missing); the caller ignores it.
PreflightFails == \E d \in Head :
    /\ Fault("preflight")
    /\ Take(d, Launches, "apply")
    /\ UNCHANGED <<jobVars, rec, desired, fails, cli, auto>>

Submit(j) ==
    /\ Goto(j, "none", "queued")
    /\ UNCHANGED <<beating, beat, low>>

SupSubmits(j) ==
    /\ sup.pc = "submit"
    /\ Submit(j)
    /\ sup' = [sup EXCEPT !.pc = "apply", !.mine = @ \cup {j}]
    /\ auto' = auto \cup {j}
    /\ UNCHANGED <<rec, desired, fails, faults, cli>>

NoFreeId == \A j \in Jobs : job[j] # "none"

\* sbatch fails (or the model has no id left): the rest of the list is lost.
SubmitFails ==
    /\ sup.pc = "submit"
    /\ Fault("sbatch") \/ (NoFreeId /\ faults' = faults)
    /\ sup' = [sup EXCEPT !.pc = "apply", !.todo = {}]
    /\ UNCHANGED <<jobVars, rec, desired, fails, cli, auto>>

\* Mutant: the sweep reuses the job list of the tick's decide.
SweepReusesList ==
    /\ sup.pc = "apply"
    /\ sup.todo = {}
    /\ sup' = [sup EXCEPT !.pc = "evict"]
    /\ UNCHANGED <<jobVars, rec, desired, fails, faults, cli, auto>>

SweepList ==
    /\ sup.pc = "apply"
    /\ sup.todo = {}
    /\ sup' = [sup EXCEPT !.pc = "evict", !.live = InSqueue]
    /\ UNCHANGED <<jobVars, rec, desired, fails, faults, cli, auto>>

\* This squeue call is outside every try: its failure ends the process.
SweepListFails ==
    /\ Fault("squeue")
    /\ sup.pc = "apply"
    /\ sup.todo = {}
    /\ sup' = [TickStart EXCEPT !.pc = "down"]
    /\ UNCHANGED <<jobVars, rec, desired, fails, cli, auto>>

Sweep ==
    /\ sup.pc = "evict"
    /\ rec' = [j \in Jobs |-> IF j \in sup.live THEN rec[j] ELSE NoRecord]
    /\ sup' = TickStart
    /\ UNCHANGED <<jobVars, desired, fails, faults, cli, auto>>

SupCrashes ==
    /\ Fault("crash")
    /\ sup.pc # "down"
    /\ sup' = [TickStart EXCEPT !.pc = "down"]
    /\ UNCHANGED <<jobVars, rec, desired, fails, cli, auto>>

SupRestarts ==
    /\ SupGoto("down", "refresh")
    /\ UNCHANGED <<jobVars, rec, desired, fails, faults, cli, auto>>

Supervisor ==
    \/ RefreshRead \/ RefreshPoll \/ ReadDemand \/ ListJobs \/ DecideTick
    \/ ApplyStartDrain \/ ApplyCancel \/ ApplyReap \/ ReapClearsDemand
    \/ ApplyBlocked \/ ApplyLaunch \/ (\E j \in Jobs : SupSubmits(j))
    \/ SubmitFails \/ SweepList \/ Sweep

SupervisorFaults ==
    ListJobsFails \/ CancelFails \/ PreflightFails \/ SweepListFails \/ SupCrashes

-----------------------------------------------------------------------------
(* Clients and the operator.                                               *)

\* The gateway's waker, on a request for a model that is not up.
Wake ==
    /\ "wake" \in Commands
    /\ desired' = 1
    /\ UNCHANGED <<jobVars, rec, fails, faults, sup, cli, auto>>

CliBegins(command, pc) ==
    /\ command \in Commands
    /\ cli.pc = "idle"
    /\ cli.used < MaxCommands
    /\ cli' = [cli EXCEPT !.pc = pc, !.used = @ + 1]

CliGoto(from, to) ==
    /\ cli.pc = from
    /\ cli' = [cli EXCEPT !.pc = to]

\* mrctl up --force (which skips the check for existing backends).
UpWakes ==
    /\ CliBegins("up", "reset")
    /\ desired' = 1
    /\ UNCHANGED <<jobVars, rec, fails, faults, sup, auto>>

UpResets ==
    /\ CliGoto("reset", "submit")
    /\ fails' = 0
    /\ UNCHANGED <<jobVars, rec, desired, faults, sup, auto>>

UpSubmits ==
    /\ CliGoto("submit", "idle")
    /\ \/ \E j \in Jobs : Submit(j)
       \/ NoFreeId /\ UNCHANGED jobVars
    /\ UNCHANGED <<rec, desired, fails, faults, sup, auto>>

\* mrctl down.
DownClearsDemand ==
    /\ CliBegins("down", "list")
    /\ desired' = 0
    /\ UNCHANGED <<jobVars, rec, fails, faults, sup, auto>>

DownListsRecords ==
    /\ cli.pc = "list"
    /\ cli' = [cli EXCEPT !.pc = "records", !.todo = {j \in Jobs : rec[j] # NoRecord}]
    /\ UNCHANGED <<jobVars, rec, desired, fails, faults, sup, auto>>

DownRecord == \E j \in cli.todo :
    /\ cli.pc = "records"
    /\ cli' = [cli EXCEPT !.todo = @ \ {j}]
    /\ Cancel(j)
    /\ rec' = [rec EXCEPT ![j] = NoRecord]
    /\ UNCHANGED <<desired, fails, faults, sup, auto>>

DownListsJobs ==
    /\ cli.pc = "records"
    /\ cli.todo = {}
    /\ cli' = [cli EXCEPT !.pc = "jobs", !.todo = InSqueue]
    /\ UNCHANGED <<jobVars, rec, desired, fails, faults, sup, auto>>

DownJob == \E j \in cli.todo :
    /\ cli.pc = "jobs"
    /\ cli' = [cli EXCEPT !.todo = @ \ {j}]
    /\ Cancel(j)
    /\ UNCHANGED <<rec, desired, fails, faults, sup, auto>>

DownEnds ==
    /\ cli.todo = {}
    /\ CliGoto("jobs", "idle")
    /\ UNCHANGED <<jobVars, rec, desired, fails, faults, sup, auto>>

CliContinues ==
    \/ UpResets \/ UpSubmits \/ DownListsRecords \/ DownRecord
    \/ DownListsJobs \/ DownJob \/ DownEnds

Operator == Wake \/ UpWakes \/ DownClearsDemand \/ CliContinues

-----------------------------------------------------------------------------

\* The steps of a job that Slurm and the script take by themselves.
JobProgress(j) ==
    \/ SlurmStarts(j) \/ PublishLoading(j) \/ EngineAnswers(j)
    \/ ResetFailures(j) \/ BringUpFails(j) \/ RecordFailure(j)
    \/ CleanupPublish(j) \/ CleanupEvict(j) \/ JobLeaves(j)
    \/ HeartbeatWrites(j) \/ GraceElapses(j) \/ Recycle(j)

JobEvents(j) ==
    \/ ScriptDies(j) \/ EngineExits(j) \/ NodeFails(j)
    \/ HeartbeatRecreates(j) \/ HeartbeatReads(j)
    \/ WallApproaches(j) \/ TimeLimit(j)

Next ==
    \/ Supervisor \/ SupervisorFaults \/ SupRestarts
    \/ Operator
    \/ \E j \in Jobs : JobProgress(j) \/ JobEvents(j)

Spec == Init /\ [][Next]_vars

\* The supervisor keeps ticking, a script that can go on does (the readiness
\* loop ends at its deadline at the latest), Slurm starts queued jobs and
\* reaps finished ones, time passes, a command once started runs to its end.
\* Nothing makes a fault, a wake, a command or the end of an engine happen.
Fairness ==
    /\ WF_vars(Supervisor)
    /\ WF_vars(CliContinues)
    /\ \A j \in Jobs : WF_vars(JobProgress(j))

FairSpec == Spec /\ Fairness

-----------------------------------------------------------------------------
(* Properties.                                                             *)

(* Every variable has its type: the records, the process states, the       *)
(* saturating counter of mr.failures.                                      *)
TypeOK ==
    /\ job \in [Jobs -> JobStates]
    /\ rec \in [Jobs -> Records]
    /\ beating \in SUBSET Jobs
    /\ beat \in [Jobs -> Records]
    /\ low \in SUBSET Jobs
    /\ desired \in {0, 1}
    /\ fails \in 0..MaxConsecutive
    /\ faults \in 0..MaxFaults
    /\ sup \in SupTypes
    /\ cli \in CliTypes
    /\ auto \in SUBSET Jobs

\* The jobs the supervisor submitted that are still on their way up.
AutoBringUps == {j \in auto : job[j] \in BringUp}

(* decide's comment on pending_ids: ticks apart, the supervisor must not   *)
(* launch duplicates of a job that is still queued or loading.  Whenever   *)
(* it is about to call sbatch, every job it launched before that is still  *)
(* on its way up, or has failed and has yet to be counted by the backoff,  *)
(* was launched in this very tick, whatever crashes, squeue failures, node *)
(* failures and lost heartbeats came in between.                           *)
NoDuplicateLaunch == sup.pc = "submit" => AutoBringUps \subseteq sup.mine

(* With demand at 1 the supervisor only ever cancels a backend that was    *)
(* published ready: no decision it is about to apply names a job that is   *)
(* queued, starting or loading, though the jobs moved on since it looked.  *)
SparesBringUps ==
    sup.pc \in {"apply", "reap"} /\ sup.want = 1 =>
        \A d \in sup.todo :
            d.action \in {"cancel", "reap_idle", "start_drain"} =>
                job[d.job] \notin BringUp \cup {"none"}

(* Only a wake or an operator raises the demand: the supervisor's own      *)
(* launches call demand.wake too, and must never undo a demand of 0.       *)
SupervisorNeverRaisesDemand == [][desired' > desired => sup' = sup]_vars

(* mr.demand: with demand at 1 a backend comes up, unless the crash        *)
(* backoff holds or the demand is withdrawn first.                         *)
DemandIsServed ==
    desired = 1 ~> \/ desired = 0
                   \/ fails >= MaxConsecutive
                   \/ \E j \in Jobs : job[j] \in {"answering", "serving"} /\ rec[j].state = "ready"

(* A drain ends: whether or not its requests ever finish, no job stays for *)
(* ever drained by the supervisor, or ending, and in Slurm.                *)
DrainEnds == \A j \in Jobs :
    []<>\/ job[j] \in {"none", "gone"}
        \/ job[j] \in BringUp \cup {"answering", "serving"} /\ rec[j].since = "unset"

(* Demand 0 releases the allocation: if it stays at 0, Slurm is eventually *)
(* left with no job of the model, queued ones included.                    *)
DemandOffQuiesces == <>[](desired = 0) => <>[](InSqueue = {})

(* Drain the incumbent only when a successor is up: whenever the list      *)
(* holds a handoff drain, some other job of the tick's snapshot that the   *)
(* supervisor has not drained is still READY, or has ended by itself since *)
(* the decision was taken.                                                 *)
HandoffKeepsOne ==
    sup.pc \in {"apply", "submit", "reap"} /\ sup.want = 1 =>
        \A d \in sup.todo : d.action = "start_drain" =>
            \E k \in sup.live \ {d.job} :
                /\ rec[k].since = "unset"
                /\ rec[k].state = "ready" \/ job[k] \notin BringUp \cup {"answering", "serving"}

(* "Drop records whose Slurm job no longer exists": the sweep, which works *)
(* from a squeue answer taken a moment before, never evicts the record of  *)
(* a job that is still in squeue, as long as only the supervisor submits.  *)
SweepSparesLiveJobs ==
    [][sup.pc = "evict" /\ sup' # sup =>
          \A j \in InSqueue : rec[j] # NoRecord => rec'[j] # NoRecord]_vars

(* With all the writers there are, each acting on what it has read some    *)
(* steps before, the record of every job goes through its lifecycle        *)
(* forward only, and so on when the id is a new job's: as long as none has *)
(* overwritten another's, as an overlapping heartbeat does.                *)
Life(j) == INSTANCE Lifecycle WITH state <- rec[j].state
RecordsMoveForward ==
    /\ \A j \in Jobs : Life(j)!Init
    /\ [][\A j \in Jobs : [Life(j)!Next]_(rec[j].state)]_rec

(* Violated: docs/architecture.md section 4 prices a handoff at one extra  *)
(* backend.  With the successor READY nothing is pending, so the tick that *)
(* drains the incumbent first launches another successor.                  *)
HandoffOverlap ==
    Cardinality({j \in auto : job[j] \in BringUp \cup {"answering", "serving"}}) <= 2
=============================================================================
