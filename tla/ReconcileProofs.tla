--------------------------- MODULE ReconcileProofs ---------------------------
(***************************************************************************)
(* Proofs about Reconcile, for any number of jobs, any set of faults and   *)
(* commands and any bounds: type correctness; the two invariants that keep *)
(* the supervisor from launching duplicates and from cancelling what it is *)
(* still bringing up; and that its launches raise no demand and its sweep  *)
(* spares what runs, as long as no operator interferes.                    *)
(***************************************************************************)
EXTENDS Reconcile, FiniteSetTheorems, TLAPS

(* The inductive invariant behind NoDuplicateLaunch and SparesBringUps.    *)

\* A job on its way up has no record, and no copy of one in flight, that says
\* READY or DRAINING: squeue minus the registry's ready and draining ones
\* therefore contains it.
BringUpsUnserved ==
    \A j \in Jobs : job[j] \in BringUp \cup {"none"} =>
        rec[j].state \notin Serving /\ beat[j].state \notin Serving

\* The heartbeat lives between the first publish and the end of the job.
DeadHeartbeats ==
    \A j \in Jobs : job[j] \in {"none", "queued", "started", "gone"} =>
        j \notin beating /\ beat[j] = NoRecord

\* Nothing remembers a free id.
FreeIdsForgotten ==
    \A j \in Jobs : job[j] = "none" =>
        j \notin auto \cup sup.live /\ \A d \in sup.todo : d.job # j

\* Before it decides the supervisor has listed all it launched.
BringUpsListed == sup.pc = "registry" => AutoBringUps \subseteq sup.live

Applying == sup.pc \in {"apply", "reap", "submit"}

\* The list is empty until decide, and only holds decisions after it.
TodoByPhase ==
    /\ sup.pc \in {"down", "refresh", "squeue", "registry"} => sup.todo = {}
    /\ Applying => sup.todo \subseteq Decisions

\* A launch still to be made means the last list of pending jobs was empty.
LaunchesAlone ==
    Applying /\ (sup.pc = "submit" \/ \E d \in sup.todo : d.action \in Launches) =>
        AutoBringUps \subseteq sup.mine

\* What a decision takes away is no bring-up, except to obey desired=0.
TouchesServedOnly ==
    Applying => \A d \in sup.todo :
        \/ d.action = "start_drain"
        \/ sup.want = 1 /\ d.action \in {"cancel", "reap_idle"}
        => job[d.job] \notin BringUp \cup {"none"}

IInv ==
    /\ TypeOK
    /\ BringUpsUnserved
    /\ DeadHeartbeats
    /\ FreeIdsForgotten
    /\ BringUpsListed
    /\ TodoByPhase
    /\ LaunchesAlone
    /\ TouchesServedOnly

-----------------------------------------------------------------------------

(* What decide returns is a set of well-formed decisions.                  *)
LEMMA DecideType ==
    ASSUME NEW want \in {0, 1}, NEW live \in SUBSET Jobs, NEW r \in [Jobs -> Records],
           NEW lw \in SUBSET Jobs, NEW idle \in SUBSET Jobs, NEW blocked \in BOOLEAN,
           NEW oldest \in Jobs \cup {NoJob},
           oldest = NoJob => Ready(live, r) = {}
    PROVE  Decide(want, live, r, lw, idle, blocked, oldest) \subseteq Decisions
<1>1. GraceCancels(live, r) \subseteq Decisions
  BY DEF GraceCancels, Draining, InState, Decision, Decisions, JobActions
<1>2. Undesired(live, r) \subseteq Decisions
  BY DEF Undesired, Ready, Pending, InState, Decision, Decisions, JobActions
<1>3. ColdStart(blocked) \subseteq Decisions
  BY DEF ColdStart, Decision, Decisions, ModelActions
<1>4. Handoffs(live, r, lw, blocked) \subseteq Decisions
  BY DEF Handoffs, Ready, InState, Decision, Decisions, JobActions
<1>5. Surplus(want, live, r, oldest) \subseteq Decisions
  <2>1. CASE oldest = NoJob
    <3>1. Cardinality(Ready(live, r)) = 0
      BY <2>1, FS_EmptySet
    <3>2. QED
      BY <3>1 DEF Surplus
  <2>2. CASE oldest \in Jobs
    BY <2>2 DEF Surplus, Decision, Decisions, JobActions
  <2>3. QED
    BY <2>1, <2>2
<1>6. Reaps(live, r, idle) \subseteq Decisions
  BY DEF Reaps, Ready, InState, Decision, Decisions, JobActions
<1>7. QED
  BY <1>1, <1>2, <1>3, <1>4, <1>5, <1>6 DEF Decide

(* A cancelled job has a type, and is no more on its way up than before.   *)
LEMMA CancelFacts ==
    ASSUME TypeOK, NEW j \in Jobs, Cancel(j)
    PROVE  /\ job' \in [Jobs -> JobStates]
           /\ beating' \in SUBSET Jobs
           /\ beat' \in [Jobs -> Records]
           /\ low' \in SUBSET Jobs
           /\ \A k \in Jobs : job'[k] \in BringUp \cup {"none"} =>
                                 job'[k] = job[k] /\ beat'[k] \in {beat[k], NoRecord}
<1> PICK s \in Cancelled[job[j]] : job' = [job EXCEPT ![j] = s]
  BY DEF Cancel
<1>1. job[j] \in JobStates
  BY DEF TypeOK
<1>2. s \in JobStates /\ (s \in BringUp \cup {"none"} => s = job[j])
  BY <1>1 DEF Cancelled, JobStates, BringUp
<1>3. NoRecord \in Records
  BY DEF NoRecord, Records, RecordStates, Graces
<1>4. QED
  BY <1>2, <1>3 DEF Cancel, TypeOK

-----------------------------------------------------------------------------
(* Type correctness.                                                       *)

LEMMA RecordFacts ==
    /\ NoRecord \in Records
    /\ Blank \in Records
    /\ TickStart \in SupTypes
    /\ \A r \in Records : HeartbeatFromJob(r) \in Records /\ Elapsed(r) \in Records
BY DEF NoRecord, Blank, Records, RecordStates, Graces, HeartbeatFromJob, Elapsed,
       TickStart, SupTypes, SupPCs

(* Publishing a state, taking a decision off the list and beginning a      *)
(* command keep the types of what they change.                             *)
LEMMA PublishType ==
    ASSUME TypeOK, NEW j \in Jobs, NEW s \in RecordStates, Publish(j, s)
    PROVE  rec' \in [Jobs -> Records]
<1>1. HeartbeatFromJob(rec[j]) \in Records
  BY RecordFacts DEF TypeOK
<1>2. [HeartbeatFromJob(rec[j]) EXCEPT !.state = s] \in Records
  BY <1>1 DEF Records
<1>3. QED
  BY <1>2 DEF Publish, TypeOK

LEMMA TakeType ==
    ASSUME TypeOK, NEW d, NEW acts, NEW pc \in SupPCs, Take(d, acts, pc)
    PROVE  sup' \in SupTypes
BY DEF Take, TypeOK, SupTypes

LEMMA CliBeginsType ==
    ASSUME TypeOK, NEW command, NEW pc \in {"reset", "list"}, CliBegins(command, pc)
    PROVE  cli' \in CliTypes
<1>1. cli.used + 1 \in 0..MaxCommands
  BY ReconcileAssumption DEF CliBegins, TypeOK, CliTypes
<1>2. QED
  BY <1>1 DEF CliBegins, TypeOK, CliTypes

(* The steps of the batch job keep the types.                              *)
LEMMA JobTypes ==
    ASSUME TypeOK, NEW j \in Jobs, JobProgress(j) \/ JobEvents(j)
    PROVE  TypeOK'
<1> USE RecordFacts, ReconcileAssumption
<1>1. CASE SlurmStarts(j)
  BY <1>1 DEF SlurmStarts, Goto, TypeOK, JobStates
<1>2. CASE PublishLoading(j)
  <2>1. HeartbeatFromJob(rec[j]) \in Records
    BY DEF TypeOK
  <2>2. [HeartbeatFromJob(rec[j]) EXCEPT !.state = "loading", !.placed = TRUE] \in Records
    BY <2>1 DEF Records, RecordStates
  <2>3. rec' \in [Jobs -> Records] /\ beating' \in SUBSET Jobs
    BY <1>2, <2>2 DEF PublishLoading, TypeOK
  <2>4. job' \in [Jobs -> JobStates]
    BY <1>2 DEF PublishLoading, Goto, TypeOK, JobStates
  <2>5. QED
    BY <1>2, <2>3, <2>4 DEF PublishLoading, TypeOK
<1>3. CASE EngineAnswers(j)
  BY <1>3 DEF EngineAnswers, Publish, Goto, TypeOK, JobStates, Records, RecordStates
<1>4. CASE ResetFailures(j)
  BY <1>4 DEF ResetFailures, Goto, TypeOK, JobStates
<1>5. CASE BringUpFails(j)
  <2>1. rec' \in [Jobs -> Records]
    BY <1>5, PublishType DEF BringUpFails, RecordStates
  <2>2. job' \in [Jobs -> JobStates]
    BY <1>5 DEF BringUpFails, Goto, TypeOK, JobStates
  <2>3. QED
    BY <1>5, <2>1, <2>2 DEF BringUpFails, TypeOK
<1>6. CASE RecordFailure(j)
  BY <1>6 DEF RecordFailure, Goto, TypeOK, JobStates
<1>7. CASE CleanupPublish(j)
  <2>1. rec' \in [Jobs -> Records]
    BY <1>7, PublishType DEF CleanupPublish, RecordStates
  <2>2. job' \in [Jobs -> JobStates]
    BY <1>7 DEF CleanupPublish, Goto, TypeOK, JobStates
  <2>3. QED
    BY <1>7, <2>1, <2>2 DEF CleanupPublish, TypeOK
<1>8. CASE CleanupEvict(j)
  BY <1>8 DEF CleanupEvict, Goto, TypeOK, JobStates
<1>9. CASE JobLeaves(j)
  BY <1>9 DEF JobLeaves, Goto, TypeOK, JobStates
<1>10. CASE HeartbeatWrites(j)
  BY <1>10 DEF HeartbeatWrites, TypeOK
<1>11. CASE GraceElapses(j)
  BY <1>11 DEF GraceElapses, TypeOK
<1>12. CASE Recycle(j)
  BY <1>12 DEF Recycle, Goto, TypeOK, JobStates, SupTypes
<1>13. CASE ScriptDies(j)
  BY <1>13 DEF ScriptDies, Fault, Goto, TypeOK, JobStates
<1>14. CASE EngineExits(j)
  BY <1>14 DEF EngineExits, Goto, TypeOK, JobStates
<1>15. CASE NodeFails(j)
  BY <1>15 DEF NodeFails, Fault, TypeOK, JobStates
<1>16. CASE HeartbeatRecreates(j)
  BY <1>16 DEF HeartbeatRecreates, jobVars, TypeOK
<1>17. CASE HeartbeatReads(j)
  BY <1>17 DEF HeartbeatReads, Fault, TypeOK
<1>18. CASE WallApproaches(j)
  BY <1>18 DEF WallApproaches, Fault, TypeOK
<1>19. CASE TimeLimit(j)
  BY <1>19, CancelFacts DEF TimeLimit, TypeOK
<1>20. QED
  BY <1>1, <1>2, <1>3, <1>4, <1>5, <1>6, <1>7, <1>8, <1>9, <1>10, <1>11, <1>12, <1>13,
     <1>14, <1>15, <1>16, <1>17, <1>18, <1>19 DEF JobProgress, JobEvents

(* The steps of the supervisor keep the types.                             *)
LEMMA SupTypesKept ==
    ASSUME TypeOK, Supervisor \/ SupervisorFaults \/ SupRestarts
    PROVE  TypeOK'
<1> USE RecordFacts, ReconcileAssumption DEF jobVars
<1>1. CASE RefreshRead
  <2>1. {Decision(0, "poll_ready", j) : j \in Ready(Jobs, rec)}
          \cup {Decision(0, "poll_draining", j) : j \in Draining(Jobs, rec)} \subseteq Polls
    BY DEF Ready, Draining, InState, Polls
  <2>2. sup' \in SupTypes
    BY <1>1, <2>1 DEF RefreshRead, TypeOK, SupTypes, SupPCs
  <2>3. QED
    BY <1>1, <2>2 DEF RefreshRead, TypeOK
<1>2. CASE RefreshPoll
  <2>1. PICK d \in sup.todo : PollSkipped(d) \/ PollQuiet(d) \/ PollActive(d)
    BY <1>2 DEF RefreshPoll
  <2>2. sup' \in SupTypes
    BY <2>1 DEF PollSkipped, PollQuiet, PollActive, Done, TypeOK, SupTypes
  <2>3. CASE PollSkipped(d)
    BY <1>2, <2>2, <2>3 DEF RefreshPoll, PollSkipped, TypeOK
  <2>4. CASE PollQuiet(d)
    <3>1. d.job \in Jobs
      BY <2>4 DEF PollQuiet, TypeOK, SupTypes, Decisions, JobActions, ModelActions,
                  Polls, Decision
    <3>2. QED
      BY <1>2, <2>2, <2>4, <3>1, CancelFacts DEF RefreshPoll, PollQuiet, TypeOK
  <2>5. CASE PollActive(d)
    BY <1>2, <2>2, <2>5 DEF RefreshPoll, PollActive, TypeOK
  <2>6. QED
    BY <2>1, <2>3, <2>4, <2>5
<1>3. CASE ReadDemand
  BY <1>3 DEF ReadDemand, TypeOK, SupTypes, SupPCs
<1>4. CASE ListJobs
  BY <1>4 DEF ListJobs, InSqueue, TypeOK, SupTypes, SupPCs
<1>5. CASE DecideTick
  <2>1. PICK idle \in SUBSET Ready(sup.live, rec),
             oldest \in Oldest(sup.live, rec, low) \cup {NoJob} :
          /\ oldest = NoJob => Ready(sup.live, rec) = {}
          /\ sup' = [sup EXCEPT !.pc = "apply", !.todo =
                       Decide(sup.want, sup.live, rec, low, idle,
                              fails >= MaxConsecutive, oldest)]
    BY <1>5 DEF DecideTick
  <2>2. sup.want \in {0, 1} /\ sup.live \in SUBSET Jobs /\ rec \in [Jobs -> Records]
    BY DEF TypeOK, SupTypes
  <2>3. idle \in SUBSET Jobs /\ oldest \in Jobs \cup {NoJob}
    BY <2>2 DEF Oldest, Ready, InState
  <2>4. low \in SUBSET Jobs /\ (fails >= MaxConsecutive) \in BOOLEAN
    BY DEF TypeOK
  <2>5. Decide(sup.want, sup.live, rec, low, idle, fails >= MaxConsecutive, oldest)
          \subseteq Decisions
    BY <2>1, <2>2, <2>3, <2>4, DecideType
  <2>6. sup' \in SupTypes
    BY <2>1, <2>5 DEF TypeOK, SupTypes, SupPCs
  <2>7. QED
    BY <1>5, <2>6 DEF DecideTick, TypeOK
<1>6. CASE ApplyStartDrain
  <2>1. PICK d \in Head :
          /\ Take(d, {"start_drain"}, "apply")
          /\ rec' = [rec EXCEPT ![d.job] =
                       [HeartbeatFromJob(@) EXCEPT !.state = "draining", !.since = "counting"]]
          /\ UNCHANGED <<jobVars, desired, fails, faults, cli, auto>>
    BY <1>6 DEF ApplyStartDrain
  <2>2. sup' \in SupTypes
    BY <2>1, TakeType DEF SupPCs
  <2>3. \A r \in Records : [r EXCEPT !.state = "draining", !.since = "counting"] \in Records
    BY DEF Records, RecordStates, Graces
  <2>4. rec' \in [Jobs -> Records]
    BY <2>1, <2>3 DEF TypeOK
  <2>5. QED
    BY <2>1, <2>2, <2>4 DEF TypeOK
<1>7. CASE ApplyCancel
  <2>1. PICK d \in Head : Take(d, {"cancel"}, "apply") /\ Cancel(d.job)
                          /\ UNCHANGED <<rec, desired, fails, faults, cli, auto>>
    BY <1>7 DEF ApplyCancel
  <2>2. d.job \in Jobs
    BY <2>1 DEF Take, Head, TypeOK, SupTypes, Decisions, ModelActions, Polls, Decision
  <2>3. sup' \in SupTypes
    BY <2>1 DEF Take, TypeOK, SupTypes, SupPCs
  <2>4. QED
    BY <2>1, <2>2, <2>3, CancelFacts DEF TypeOK
<1>8. CASE ApplyReap
  <2>1. PICK d \in Head : Take(d, {"reap_idle"}, "reap") /\ Cancel(d.job)
                          /\ UNCHANGED <<rec, desired, fails, faults, cli, auto>>
    BY <1>8 DEF ApplyReap
  <2>2. d.job \in Jobs
    BY <2>1 DEF Take, Head, TypeOK, SupTypes, Decisions, ModelActions, Polls, Decision
  <2>3. sup' \in SupTypes
    BY <2>1 DEF Take, TypeOK, SupTypes, SupPCs
  <2>4. QED
    BY <2>1, <2>2, <2>3, CancelFacts DEF TypeOK
<1>9. CASE ReapClearsDemand
  BY <1>9 DEF ReapClearsDemand, SupGoto, TypeOK, SupTypes, SupPCs
<1>10. CASE ApplyBlocked
  <2>1. sup' \in SupTypes
    BY <1>10, TakeType DEF ApplyBlocked, SupPCs
  <2>2. QED
    BY <1>10, <2>1 DEF ApplyBlocked, TypeOK
<1>11. CASE ApplyLaunch
  <2>1. sup' \in SupTypes
    BY <1>11, TakeType DEF ApplyLaunch, SupPCs
  <2>2. QED
    BY <1>11, <2>1 DEF ApplyLaunch, TypeOK
<1>12. ASSUME NEW j \in Jobs, SupSubmits(j)
       PROVE  TypeOK'
  BY <1>12 DEF SupSubmits, Submit, Goto, TypeOK, SupTypes, SupPCs, JobStates
<1>13. CASE SubmitFails
  <2>1. sup' \in SupTypes
    BY <1>13 DEF SubmitFails, TypeOK, SupTypes, SupPCs
  <2>2. QED
    BY <1>13, <2>1 DEF SubmitFails, Fault, TypeOK
<1>14. CASE SweepList
  BY <1>14 DEF SweepList, InSqueue, TypeOK, SupTypes, SupPCs
<1>15. CASE Sweep
  BY <1>15 DEF Sweep, TypeOK
<1>16. CASE ListJobsFails
  BY <1>16 DEF ListJobsFails, Fault, SupGoto, TypeOK, SupTypes, SupPCs
<1>17. CASE PreflightFails
  <2>1. sup' \in SupTypes
    BY <1>17, TakeType DEF PreflightFails, SupPCs
  <2>2. QED
    BY <1>17, <2>1 DEF PreflightFails, Fault, TypeOK
<1>18. CASE SweepListFails
  BY <1>18 DEF SweepListFails, Fault, TickStart, TypeOK, SupTypes, SupPCs
<1>19. CASE SupCrashes
  BY <1>19 DEF SupCrashes, Fault, TickStart, TypeOK, SupTypes, SupPCs
<1>20. CASE SupRestarts
  BY <1>20 DEF SupRestarts, SupGoto, TypeOK, SupTypes, SupPCs
<1>21. CASE CancelFails
  <2>1. sup' \in SupTypes
    BY <1>21, TakeType DEF CancelFails, SupPCs
  <2>2. QED
    BY <1>21, <2>1 DEF CancelFails, Fault, TypeOK
<1>22. QED
  BY <1>1, <1>2, <1>3, <1>4, <1>5, <1>6, <1>7, <1>8, <1>9, <1>10, <1>11, <1>12, <1>13,
     <1>14, <1>15, <1>16, <1>17, <1>18, <1>19, <1>20, <1>21 DEF Supervisor, SupervisorFaults

(* The steps of clients and the operator keep the types.                   *)
LEMMA OperatorTypes ==
    ASSUME TypeOK, Operator
    PROVE  TypeOK'
<1> USE RecordFacts, ReconcileAssumption DEF jobVars
<1>1. CASE Wake
  BY <1>1 DEF Wake, TypeOK
<1>2. CASE UpWakes
  BY <1>2, CliBeginsType DEF UpWakes, TypeOK
<1>3. CASE DownClearsDemand
  BY <1>3, CliBeginsType DEF DownClearsDemand, TypeOK
<1>4. CASE UpResets
  BY <1>4 DEF UpResets, CliGoto, TypeOK, CliTypes
<1>5. CASE UpSubmits
  BY <1>5 DEF UpSubmits, CliGoto, Submit, Goto, TypeOK, CliTypes, JobStates
<1>6. CASE DownListsRecords
  BY <1>6 DEF DownListsRecords, TypeOK, CliTypes
<1>7. CASE DownRecord
  <2>1. PICK j \in cli.todo :
          /\ Cancel(j)
          /\ cli' = [cli EXCEPT !.todo = @ \ {j}]
          /\ rec' = [rec EXCEPT ![j] = NoRecord]
          /\ UNCHANGED <<desired, fails, faults, sup, auto>>
    BY <1>7 DEF DownRecord
  <2>2. j \in Jobs
    BY DEF TypeOK, CliTypes
  <2>3. QED
    BY <2>1, <2>2, CancelFacts DEF TypeOK, CliTypes
<1>8. CASE DownListsJobs
  BY <1>8 DEF DownListsJobs, InSqueue, TypeOK, CliTypes
<1>9. CASE DownJob
  <2>1. PICK j \in cli.todo :
          /\ Cancel(j)
          /\ cli' = [cli EXCEPT !.todo = @ \ {j}]
          /\ UNCHANGED <<rec, desired, fails, faults, sup, auto>>
    BY <1>9 DEF DownJob
  <2>2. j \in Jobs
    BY DEF TypeOK, CliTypes
  <2>3. QED
    BY <2>1, <2>2, CancelFacts DEF TypeOK, CliTypes
<1>10. CASE DownEnds
  BY <1>10 DEF DownEnds, CliGoto, TypeOK, CliTypes
<1>11. QED
  BY <1>1, <1>2, <1>3, <1>4, <1>5, <1>6, <1>7, <1>8, <1>9, <1>10 DEF Operator, CliContinues

(* The model is type-correct for every set of jobs, faults and commands.   *)
THEOREM TypeCorrect == Spec => []TypeOK
<1>1. Init => TypeOK
  BY RecordFacts, ReconcileAssumption DEF Init, TypeOK, JobStates, CliTypes
<1>2. TypeOK /\ [Next]_vars => TypeOK'
  <2> SUFFICES ASSUME TypeOK, [Next]_vars PROVE TypeOK'
    OBVIOUS
  <2>1. CASE UNCHANGED vars
    BY <2>1 DEF vars, TypeOK
  <2>2. CASE Next
    BY <2>2, JobTypes, SupTypesKept, OperatorTypes DEF Next
  <2>3. QED
    BY <2>1, <2>2
<1>3. QED
  BY <1>1, <1>2, PTL DEF Spec

-----------------------------------------------------------------------------
(* The inductive invariant.                                                *)

\* No job starts its way up, and no id becomes free, in this step.
Settles ==
    \A k \in Jobs : /\ job'[k] \in BringUp => job[k] \in BringUp
                    /\ job'[k] = "none" => job[k] = "none"

(* A step that moves no job onto its way up, frees no id, and leaves the   *)
(* supervisor alone keeps IInv if it keeps the bring-ups unserved.         *)
LEMMA QuietStep ==
    ASSUME IInv, TypeOK', Settles, sup' = sup, auto' = auto,
           BringUpsUnserved', DeadHeartbeats'
    PROVE  IInv'
<1>1. AutoBringUps' \subseteq AutoBringUps
  BY DEF Settles, AutoBringUps, IInv, TypeOK
<1>2. FreeIdsForgotten'
  BY DEF IInv, FreeIdsForgotten, Settles
<1>3. BringUpsListed'
  BY <1>1 DEF IInv, BringUpsListed
<1>4. TodoByPhase'
  BY DEF IInv, TodoByPhase, Applying
<1>5. LaunchesAlone'
  BY <1>1 DEF IInv, LaunchesAlone, Applying
<1>6. TouchesServedOnly'
  <2> SUFFICES ASSUME Applying', NEW d \in sup'.todo,
                      \/ d.action = "start_drain"
                      \/ sup'.want = 1 /\ d.action \in {"cancel", "reap_idle"}
               PROVE  job'[d.job] \notin BringUp \cup {"none"}
    BY DEF TouchesServedOnly
  <2>1. job[d.job] \notin BringUp \cup {"none"}
    BY DEF IInv, TouchesServedOnly, Applying
  <2>2. d \in Decisions
    BY DEF IInv, TodoByPhase, Applying
  <2>3. d.job \in Jobs
    BY <2>2 DEF Decisions, ModelActions
  <2>4. QED
    BY <2>1, <2>3 DEF Settles
<1>7. QED
  BY <1>2, <1>3, <1>4, <1>5, <1>6 DEF IInv

(* A heartbeat never turns a record into a READY or DRAINING one, and the  *)
(* passing of time changes no state.                                       *)
LEMMA RecordStateFacts ==
    /\ NoRecord.state \notin Serving
    /\ Elapsed(NoRecord) = NoRecord
    /\ \A r \in Records : /\ HeartbeatFromJob(r).state \in Serving => r.state \in Serving
                          /\ Elapsed(r).state = r.state
BY DEF NoRecord, Serving, HeartbeatFromJob, Blank, Elapsed, Records

(* A cancelled job is not on its way up any more, and its heartbeat ends.  *)
LEMMA CancelSettles ==
    ASSUME IInv, NEW j \in Jobs, Cancel(j), rec' \in [Jobs -> Records],
           \A k \in Jobs : rec'[k] \in {rec[k], NoRecord}
    PROVE  Settles /\ BringUpsUnserved' /\ DeadHeartbeats'
<1>1. TypeOK
  BY DEF IInv
<1>2. Settles
  BY <1>1, CancelFacts DEF Settles
<1>3. BringUpsUnserved'
  BY <1>1, CancelFacts, RecordStateFacts DEF IInv, BringUpsUnserved
<1>4. DeadHeartbeats'
  BY <1>1 DEF IInv, DeadHeartbeats, Cancel, TypeOK
<1>5. QED
  BY <1>2, <1>3, <1>4

(* The script publishes READY only when it leaves its way up, and an id is *)
(* freed only when its job's heartbeat is dead: no step of the batch job   *)
(* lets a bring-up look served.                                            *)
LEMMA JobUnserved ==
    ASSUME IInv, NEW j \in Jobs, JobProgress(j) \/ JobEvents(j)
    PROVE  BringUpsUnserved' /\ DeadHeartbeats' /\ (Recycle(j) \/ Settles)
<1> USE RecordStateFacts DEF BringUpsUnserved, DeadHeartbeats, Settles, BringUp
<1>0. TypeOK /\ BringUpsUnserved /\ DeadHeartbeats
  BY DEF IInv
<1>1. CASE SlurmStarts(j)
  BY <1>0, <1>1 DEF SlurmStarts, Goto, TypeOK
<1>2. CASE PublishLoading(j)
  <2>1. rec'[j].state = "loading" /\ \A k \in Jobs \ {j} : rec'[k] = rec[k]
    <3>1. HeartbeatFromJob(rec[j]) \in Records
      BY <1>0, RecordFacts DEF TypeOK
    <3>2. [HeartbeatFromJob(rec[j]) EXCEPT !.state = "loading", !.placed = TRUE].state = "loading"
      BY <3>1 DEF Records
    <3>3. QED
      BY <1>0, <1>2, <3>2 DEF PublishLoading, TypeOK
  <2>2. QED
    BY <1>0, <1>2, <2>1 DEF PublishLoading, Goto, TypeOK, Serving
<1>3. CASE EngineAnswers(j)
  BY <1>0, <1>3 DEF EngineAnswers, Publish, Goto, TypeOK
<1>4. CASE ResetFailures(j)
  BY <1>0, <1>4 DEF ResetFailures, Goto, TypeOK
<1>5. CASE BringUpFails(j)
  <2>1. /\ rec'[j].state = "failed" /\ \A k \in Jobs \ {j} : rec'[k] = rec[k]
        /\ UNCHANGED <<beating, beat>>
    <3>1. HeartbeatFromJob(rec[j]) \in Records
      BY <1>0, RecordFacts DEF TypeOK
    <3>2. [HeartbeatFromJob(rec[j]) EXCEPT !.state = "failed"].state = "failed"
      BY <3>1 DEF Records
    <3>3. QED
      BY <1>0, <1>5, <3>2 DEF BringUpFails, Publish, TypeOK
  <2>2. /\ \/ job[j] = "loading" /\ job'[j] = "failing"
           \/ job[j] = "probed" /\ job'[j] = "probeFailing"
        /\ \A k \in Jobs \ {j} : job'[k] = job[k]
    BY <1>0, <1>5 DEF BringUpFails, Goto, TypeOK
  <2>3. BringUpsUnserved'
    BY <1>0, <2>1, <2>2 DEF TypeOK, Serving
  <2>4. DeadHeartbeats' /\ Settles
    BY <1>0, <2>1, <2>2 DEF TypeOK
  <2>5. QED
    BY <2>3, <2>4
<1>6. CASE RecordFailure(j)
  BY <1>0, <1>6 DEF RecordFailure, Goto, TypeOK
<1>7. CASE CleanupPublish(j)
  BY <1>0, <1>7 DEF CleanupPublish, Publish, Goto, TypeOK
<1>8. CASE CleanupEvict(j)
  BY <1>0, <1>8 DEF CleanupEvict, Goto, TypeOK
<1>9. CASE JobLeaves(j)
  BY <1>0, <1>9 DEF JobLeaves, Goto, TypeOK
<1>10. CASE HeartbeatWrites(j)
  BY <1>0, <1>10 DEF HeartbeatWrites, TypeOK
<1>11. CASE GraceElapses(j)
  BY <1>0, <1>11 DEF GraceElapses, TypeOK
<1>12. CASE Recycle(j)
  BY <1>0, <1>12 DEF Recycle, Goto, TypeOK
<1>13. CASE ScriptDies(j)
  BY <1>0, <1>13 DEF ScriptDies, Goto, TypeOK
<1>14. CASE EngineExits(j)
  BY <1>0, <1>14 DEF EngineExits, Goto, TypeOK
<1>15. CASE NodeFails(j)
  BY <1>0, <1>15 DEF NodeFails, TypeOK
<1>16. CASE HeartbeatRecreates(j)
  BY <1>0, <1>16 DEF HeartbeatRecreates, jobVars, TypeOK, Blank, Serving
<1>17. CASE HeartbeatReads(j)
  BY <1>0, <1>17 DEF HeartbeatReads, TypeOK
<1>18. CASE WallApproaches(j)
  BY <1>0, <1>18 DEF WallApproaches, TypeOK
<1>19. CASE TimeLimit(j)
  BY <1>0, <1>19, CancelSettles DEF TimeLimit, TypeOK
<1>20. QED
  BY <1>1, <1>2, <1>3, <1>4, <1>5, <1>6, <1>7, <1>8, <1>9, <1>10, <1>11, <1>12, <1>13,
     <1>14, <1>15, <1>16, <1>17, <1>18, <1>19 DEF JobProgress, JobEvents

(* The steps of the batch job keep the invariant.                          *)
LEMMA JobKeepsInvariant ==
    ASSUME IInv, NEW j \in Jobs, JobProgress(j) \/ JobEvents(j)
    PROVE  IInv'
<1>1. TypeOK /\ TypeOK'
  BY JobTypes DEF IInv
<1>2. BringUpsUnserved' /\ DeadHeartbeats'
  BY JobUnserved
<1>3. CASE Recycle(j)
  <2> USE DEF Recycle, Goto
  <2>1. \A k \in Jobs : job'[k] = IF k = j THEN "none" ELSE job[k]
    BY <1>1, <1>3 DEF TypeOK
  <2>2. /\ sup'.pc = sup.pc /\ sup'.want = sup.want /\ sup'.live = sup.live
        /\ sup'.todo = sup.todo /\ sup'.mine = sup.mine \ {j}
    BY <1>1, <1>3 DEF TypeOK, SupTypes
  <2>3. AutoBringUps' \subseteq AutoBringUps \ {j}
    BY <1>3, <2>1 DEF AutoBringUps, BringUp
  <2>4. FreeIdsForgotten'
    BY <1>3, <2>1, <2>2 DEF IInv, FreeIdsForgotten
  <2>5. BringUpsListed'
    BY <2>2, <2>3 DEF IInv, BringUpsListed
  <2>6. TodoByPhase'
    BY <2>2 DEF IInv, TodoByPhase, Applying
  <2>7. LaunchesAlone'
    BY <2>2, <2>3 DEF IInv, LaunchesAlone, Applying
  <2>8. TouchesServedOnly'
    <3> SUFFICES ASSUME Applying', NEW d \in sup'.todo,
                        \/ d.action = "start_drain"
                        \/ sup'.want = 1 /\ d.action \in {"cancel", "reap_idle"}
                 PROVE  job'[d.job] \notin BringUp \cup {"none"}
      BY DEF TouchesServedOnly
    <3>1. job[d.job] \notin BringUp \cup {"none"}
      BY <2>2 DEF IInv, TouchesServedOnly, Applying
    <3>2. d.job \in Jobs
      BY <2>2 DEF IInv, TodoByPhase, Applying, Decisions, ModelActions
    <3>3. d.job # j
      BY <1>3, <2>2
    <3>4. QED
      BY <2>1, <3>1, <3>2, <3>3
  <2>9. QED
    BY <1>1, <1>2, <2>4, <2>5, <2>6, <2>7, <2>8 DEF IInv
<1>4. CASE ~Recycle(j)
  <2>1. sup' = sup /\ auto' = auto
    BY <1>4 DEF JobProgress, JobEvents, SlurmStarts, PublishLoading, EngineAnswers,
         ResetFailures, BringUpFails, RecordFailure, CleanupPublish, CleanupEvict, JobLeaves,
         HeartbeatWrites, GraceElapses, ScriptDies, EngineExits, NodeFails,
         HeartbeatRecreates, HeartbeatReads, WallApproaches, TimeLimit
  <2>2. Settles
    BY <1>4, JobUnserved
  <2>3. QED
    BY <1>1, <1>2, <2>1, <2>2, QuietStep
<1>5. QED
  BY <1>3, <1>4

(* What decide launches, takes away and names, whatever it was given: it   *)
(* launches only with nothing pending, drains only READY backends, and at  *)
(* want=1 cancels only READY or DRAINING ones.                             *)
LEMMA DecideFacts ==
    ASSUME NEW want \in {0, 1}, NEW live \in SUBSET Jobs, NEW r \in [Jobs -> Records],
           NEW lw, NEW idle, NEW blocked \in BOOLEAN,
           NEW oldest \in Oldest(live, r, lw) \cup {NoJob},
           oldest = NoJob => Ready(live, r) = {},
           NEW d \in Decide(want, live, r, lw, idle, blocked, oldest)
    PROVE  /\ d.action \in Launches => Pending(live, r) = {}
           /\ d.action = "start_drain" => d.job \in Ready(live, r)
           /\ want = 1 /\ d.action \in {"cancel", "reap_idle"} =>
                 d.job \in Ready(live, r) \cup Draining(live, r)
           /\ d.job \in live \cup {NoJob}
<1>1. CASE d \in GraceCancels(live, r)
  BY <1>1 DEF GraceCancels, Draining, InState, Decision, Launches
<1>2. CASE want = 0 /\ d \in Undesired(live, r)
  BY <1>2 DEF Undesired, Ready, Pending, InState, Decision, Launches
<1>3. CASE /\ want = 1 /\ Ready(live, r) = {} /\ Pending(live, r) = {}
           /\ d \in ColdStart(blocked)
  BY <1>3 DEF ColdStart, Decision, Launches
<1>4. CASE want = 1 /\ d \in Handoffs(live, r, lw, blocked)
  BY <1>4 DEF Handoffs, Ready, InState, Decision, Launches
<1>5. CASE want = 1 /\ d \in Surplus(want, live, r, oldest)
  <2>1. d = Decision(3, "start_drain", oldest) /\ Cardinality(Ready(live, r)) > 1
    BY <1>5 DEF Surplus
  <2>2. Ready(live, r) # {}
    BY <2>1, FS_EmptySet
  <2>3. oldest \in Ready(live, r)
    BY <2>2 DEF Oldest
  <2>4. QED
    BY <1>5, <2>1, <2>3 DEF Decision, Launches, Ready, InState
<1>6. CASE want = 1 /\ d \in Reaps(live, r, idle)
  BY <1>6 DEF Reaps, Ready, InState, Decision, Launches
<1>7. QED
  BY <1>1, <1>2, <1>3, <1>4, <1>5, <1>6 DEF Decide

(* decide keeps the invariant: a launch means squeue listed nothing that   *)
(* is not READY or DRAINING, hence none of the supervisor's bring-ups.     *)
LEMMA DecideKeepsInvariant ==
    ASSUME IInv, DecideTick
    PROVE  IInv'
<1>1. TypeOK /\ TypeOK'
  BY SupTypesKept DEF IInv, Supervisor
<1>2. PICK idle \in SUBSET Ready(sup.live, rec),
           oldest \in Oldest(sup.live, rec, low) \cup {NoJob} :
        /\ oldest = NoJob => Ready(sup.live, rec) = {}
        /\ sup' = [sup EXCEPT !.pc = "apply", !.todo =
                     Decide(sup.want, sup.live, rec, low, idle,
                            fails >= MaxConsecutive, oldest)]
  BY DEF DecideTick
<1> DEFINE todo == Decide(sup.want, sup.live, rec, low, idle, fails >= MaxConsecutive, oldest)
<1>3. /\ sup.pc = "registry" /\ UNCHANGED <<job, rec, beating, beat, low, auto>>
  BY DEF DecideTick, jobVars
<1>4. /\ sup'.pc = "apply" /\ sup'.want = sup.want /\ sup'.live = sup.live
      /\ sup'.mine = sup.mine /\ sup'.todo = todo
  BY <1>1, <1>2 DEF TypeOK, SupTypes
<1>5. sup.want \in {0, 1} /\ sup.live \in SUBSET Jobs /\ rec \in [Jobs -> Records]
  BY <1>1 DEF TypeOK, SupTypes
<1>6. \A d \in todo : /\ d.action \in Launches => Pending(sup.live, rec) = {}
                      /\ d.action = "start_drain" => d.job \in Ready(sup.live, rec)
                      /\ sup.want = 1 /\ d.action \in {"cancel", "reap_idle"} =>
                            d.job \in Ready(sup.live, rec) \cup Draining(sup.live, rec)
                      /\ d.job \in sup.live \cup {NoJob}
  <2> DEFINE blocked == fails >= MaxConsecutive
  <2>1. blocked \in BOOLEAN
    BY <1>1, ReconcileAssumption DEF TypeOK
  <2> TAKE d \in todo
  <2>2. d \in Decide(sup.want, sup.live, rec, low, idle, blocked, oldest)
    OBVIOUS
  <2>3. oldest = NoJob => Ready(sup.live, rec) = {}
    BY <1>2
  <2> HIDE DEF blocked, todo
  <2>4. QED
    BY <1>5, <2>1, <2>2, <2>3, DecideFacts
<1>7. \A j \in Ready(sup.live, rec) \cup Draining(sup.live, rec) :
         job[j] \notin BringUp \cup {"none"}
  BY <1>1, <1>5 DEF IInv, BringUpsUnserved, Ready, Draining, InState, Serving
<1>8. AutoBringUps' = AutoBringUps
  BY <1>3 DEF AutoBringUps
<1> HIDE DEF todo
<1>9. BringUpsUnserved' /\ DeadHeartbeats'
  BY <1>3 DEF IInv, BringUpsUnserved, DeadHeartbeats
<1>10. FreeIdsForgotten'
  BY <1>3, <1>4, <1>6, JobsAssumption DEF IInv, FreeIdsForgotten
<1>11. BringUpsListed'
  BY <1>4 DEF BringUpsListed
<1>12. TodoByPhase'
  <2>1. todo \subseteq Decisions
    <3>1. idle \in SUBSET Jobs /\ oldest \in Jobs \cup {NoJob}
      BY <1>5 DEF Oldest, Ready, InState
    <3>2. low \in SUBSET Jobs /\ (fails >= MaxConsecutive) \in BOOLEAN
      BY <1>1, ReconcileAssumption DEF TypeOK
    <3>3. QED
      BY <1>2, <1>5, <3>1, <3>2, DecideType DEF todo
  <2>2. QED
    BY <1>4, <2>1 DEF TodoByPhase
<1>13. LaunchesAlone'
  <2> SUFFICES ASSUME NEW d \in todo, d.action \in Launches
               PROVE  AutoBringUps = {}
    BY <1>4, <1>8 DEF LaunchesAlone
  <2>1. sup.live \subseteq Ready(sup.live, rec) \cup Draining(sup.live, rec)
    BY <1>6 DEF Pending
  <2>2. AutoBringUps \subseteq sup.live
    BY <1>3 DEF IInv, BringUpsListed
  <2>3. QED
    BY <1>7, <2>1, <2>2 DEF AutoBringUps
<1>14. TouchesServedOnly'
  BY <1>3, <1>4, <1>6, <1>7 DEF TouchesServedOnly
<1>15. QED
  BY <1>1, <1>9, <1>10, <1>11, <1>12, <1>13, <1>14 DEF IInv

(* apply keeps the invariant: the list only shrinks.                       *)
LEMMA ListShrinks ==
    ASSUME IInv, TypeOK', Settles, auto' = auto, BringUpsUnserved', DeadHeartbeats',
           sup.pc \in {"apply", "reap", "submit"}, sup'.pc \in {"apply", "reap"},
           sup'.todo \subseteq sup.todo, sup'.live = sup.live, sup'.mine = sup.mine,
           sup'.want = sup.want
    PROVE  IInv'
<1>1. AutoBringUps' \subseteq AutoBringUps
  BY DEF Settles, AutoBringUps, IInv, TypeOK
<1>2. FreeIdsForgotten'
  BY DEF IInv, FreeIdsForgotten, Settles
<1>3. BringUpsListed'
  BY DEF BringUpsListed
<1>4. TodoByPhase'
  BY DEF IInv, TodoByPhase, Applying
<1>5. LaunchesAlone'
  BY <1>1 DEF IInv, LaunchesAlone, Applying
<1>6. TouchesServedOnly'
  <2> SUFFICES ASSUME NEW d \in sup'.todo,
                      \/ d.action = "start_drain"
                      \/ sup'.want = 1 /\ d.action \in {"cancel", "reap_idle"}
               PROVE  job'[d.job] \notin BringUp \cup {"none"}
    BY DEF TouchesServedOnly
  <2>1. job[d.job] \notin BringUp \cup {"none"}
    BY DEF IInv, TouchesServedOnly, Applying
  <2>2. d.job \in Jobs
    BY DEF IInv, TodoByPhase, Applying, Decisions, ModelActions
  <2>3. QED
    BY <2>1, <2>2 DEF Settles
<1>7. QED
  BY <1>2, <1>3, <1>4, <1>5, <1>6 DEF IInv

LEMMA TakeShrinks ==
    ASSUME TypeOK, NEW d, NEW acts, NEW pc, Take(d, acts, pc)
    PROVE  /\ sup.pc = "apply" /\ sup'.pc = pc /\ sup'.todo \subseteq sup.todo
           /\ sup'.live = sup.live /\ sup'.mine = sup.mine /\ sup'.want = sup.want
BY DEF Take, TypeOK, SupTypes

(* A step that leaves the jobs and the registry alone.                     *)
LEMMA Undisturbed ==
    ASSUME IInv, UNCHANGED <<jobVars, rec>>
    PROVE  Settles /\ BringUpsUnserved' /\ DeadHeartbeats'
BY DEF IInv, Settles, BringUpsUnserved, DeadHeartbeats, jobVars

(* refresh_activity and the two reads before decide keep the invariant.    *)
LEMMA ReadsKeepInvariant ==
    ASSUME IInv, RefreshRead \/ RefreshPoll \/ ReadDemand \/ ListJobs \/ ListJobsFails
    PROVE  IInv'
<1>1. TypeOK /\ TypeOK'
  BY SupTypesKept DEF IInv, Supervisor, SupervisorFaults
<1> USE DEF TodoByPhase, LaunchesAlone, TouchesServedOnly, BringUpsListed, Applying
<1>2. CASE RefreshRead
  <2>1. /\ sup'.pc = "polling" /\ sup'.live = sup.live /\ auto' = auto
        /\ sup'.todo = {Decision(0, "poll_ready", j) : j \in Ready(Jobs, rec)}
                         \cup {Decision(0, "poll_draining", j) : j \in Draining(Jobs, rec)}
    BY <1>1, <1>2 DEF RefreshRead, TypeOK, SupTypes
  <2>2. Settles /\ BringUpsUnserved' /\ DeadHeartbeats' /\ job' = job
    BY <1>2, Undisturbed DEF RefreshRead, jobVars
  <2>3. \A d \in sup'.todo : d.job \in Ready(Jobs, rec) \cup Draining(Jobs, rec)
    BY <2>1 DEF Decision
  <2>4. \A j \in Ready(Jobs, rec) \cup Draining(Jobs, rec) : job[j] # "none"
    BY DEF IInv, BringUpsUnserved, Ready, Draining, InState, Serving
  <2>5. FreeIdsForgotten'
    BY <2>1, <2>2, <2>3, <2>4 DEF IInv, FreeIdsForgotten
  <2>6. QED
    BY <1>1, <2>1, <2>2, <2>5 DEF IInv
<1>3. CASE RefreshPoll
  <2>1. PICK d \in sup.todo : PollSkipped(d) \/ PollQuiet(d) \/ PollActive(d)
    BY <1>3 DEF RefreshPoll
  <2>2. /\ sup.pc = "polling" /\ sup'.pc = "polling" /\ sup'.live = sup.live
        /\ sup'.todo \subseteq sup.todo /\ auto' = auto
    BY <1>1, <1>3, <2>1 DEF RefreshPoll, PollSkipped, PollQuiet, PollActive, Done, TypeOK, SupTypes
  <2>3. Settles /\ BringUpsUnserved' /\ DeadHeartbeats'
    <3>1. CASE PollSkipped(d)
      BY <3>1, Undisturbed DEF PollSkipped
    <3>2. CASE PollQuiet(d)
      <4>1. d.job \in Jobs
        BY <1>1, <3>2 DEF PollQuiet, TypeOK, SupTypes, Decisions, JobActions, ModelActions,
                          Polls, Decision
      <4>2. QED
        BY <1>1, <3>2, <4>1, CancelSettles DEF PollQuiet, TypeOK
    <3>3. CASE PollActive(d)
      <4>1. /\ UNCHANGED jobVars
            /\ \A k \in Jobs : rec'[k] \in {rec[k], HeartbeatFromJob(rec[k])}
        BY <1>1, <3>3 DEF PollActive, TypeOK
      <4>2. BringUpsUnserved'
        BY <1>1, <4>1, RecordStateFacts DEF IInv, BringUpsUnserved, jobVars, TypeOK
      <4>3. QED
        BY <4>1, <4>2 DEF IInv, Settles, DeadHeartbeats, jobVars
    <3>4. QED
      BY <2>1, <3>1, <3>2, <3>3
  <2>4. FreeIdsForgotten'
    BY <2>2, <2>3 DEF IInv, FreeIdsForgotten, Settles
  <2>5. QED
    BY <1>1, <2>2, <2>3, <2>4 DEF IInv
<1>4. CASE ReadDemand
  <2>1. /\ sup'.pc = "squeue" /\ sup'.live = sup.live /\ sup'.todo = {} /\ auto' = auto
        /\ job' = job
    BY <1>1, <1>4 DEF ReadDemand, TypeOK, SupTypes, jobVars
  <2>2. BringUpsUnserved' /\ DeadHeartbeats'
    BY <1>4, Undisturbed DEF ReadDemand
  <2>3. FreeIdsForgotten'
    BY <2>1 DEF IInv, FreeIdsForgotten
  <2>4. QED
    BY <1>1, <2>1, <2>2, <2>3 DEF IInv
<1>5. CASE ListJobs
  <2>1. /\ sup.pc = "squeue" /\ sup'.pc = "registry" /\ sup'.live = InSqueue
        /\ sup'.todo = sup.todo /\ auto' = auto /\ job' = job
    BY <1>1, <1>5 DEF ListJobs, TypeOK, SupTypes, jobVars
  <2>2. BringUpsUnserved' /\ DeadHeartbeats'
    BY <1>5, Undisturbed DEF ListJobs
  <2>3. FreeIdsForgotten'
    BY <2>1 DEF IInv, FreeIdsForgotten, InSqueue
  <2>4. BringUpsListed'
    BY <1>1, <2>1 DEF AutoBringUps, BringUp, InSqueue, TypeOK
  <2>5. QED
    BY <1>1, <2>1, <2>2, <2>3, <2>4 DEF IInv
<1>6. CASE ListJobsFails
  <2>1. /\ sup.pc = "squeue" /\ sup'.pc = "apply" /\ sup'.live = sup.live
        /\ sup'.todo = sup.todo /\ auto' = auto /\ job' = job
    BY <1>1, <1>6 DEF ListJobsFails, SupGoto, TypeOK, SupTypes, jobVars
  <2>2. BringUpsUnserved' /\ DeadHeartbeats'
    BY <1>6, Undisturbed DEF ListJobsFails
  <2>3. sup'.todo = {}
    BY <2>1 DEF IInv
  <2>4. FreeIdsForgotten'
    BY <2>1 DEF IInv, FreeIdsForgotten
  <2>5. QED
    BY <1>1, <2>1, <2>2, <2>3, <2>4 DEF IInv
<1>7. QED
  BY <1>2, <1>3, <1>4, <1>5, <1>6

(* apply keeps the invariant: a drain is written to a backend that was     *)
(* READY and cannot be on its way up again, and sbatch is called only when *)
(* nothing launched earlier is.                                            *)
LEMMA ApplyKeepsInvariant ==
    ASSUME IInv,
           \/ ApplyStartDrain \/ ApplyCancel \/ ApplyReap \/ ReapClearsDemand
           \/ ApplyBlocked \/ ApplyLaunch \/ PreflightFails \/ SubmitFails
           \/ CancelFails
           \/ \E j \in Jobs : SupSubmits(j)
    PROVE  IInv'
<1>1. TypeOK /\ TypeOK'
  BY SupTypesKept DEF IInv, Supervisor, SupervisorFaults
<1>2. CASE ApplyStartDrain
  <2>1. PICK d \in Head :
          /\ Take(d, {"start_drain"}, "apply")
          /\ rec' = [rec EXCEPT ![d.job] =
                       [HeartbeatFromJob(@) EXCEPT !.state = "draining", !.since = "counting"]]
          /\ UNCHANGED <<jobVars, desired, fails, faults, cli, auto>>
    BY <1>2 DEF ApplyStartDrain
  <2>2. job[d.job] \notin BringUp \cup {"none"}
    BY <2>1 DEF IInv, TouchesServedOnly, Applying, Take, Head
  <2>3. \A k \in Jobs : k # d.job => rec'[k] = rec[k]
    BY <1>1, <2>1 DEF TypeOK
  <2>4. Settles /\ BringUpsUnserved' /\ DeadHeartbeats'
    BY <2>1, <2>2, <2>3 DEF IInv, Settles, BringUpsUnserved, DeadHeartbeats, jobVars
  <2>5. QED
    BY <1>1, <2>1, <2>4, TakeShrinks, ListShrinks
<1>3. CASE ApplyCancel
  <2>1. PICK d \in Head : Take(d, {"cancel"}, "apply") /\ Cancel(d.job)
                          /\ UNCHANGED <<rec, desired, fails, faults, cli, auto>>
    BY <1>3 DEF ApplyCancel
  <2>2. d.job \in Jobs
    BY <1>1, <2>1 DEF Take, Head, TypeOK, SupTypes, Decisions, ModelActions, Polls, Decision
  <2>3. Settles /\ BringUpsUnserved' /\ DeadHeartbeats'
    BY <1>1, <2>1, <2>2, CancelSettles DEF TypeOK
  <2>4. QED
    BY <1>1, <2>1, <2>3, TakeShrinks, ListShrinks
<1>4. CASE ApplyReap
  <2>1. PICK d \in Head : Take(d, {"reap_idle"}, "reap") /\ Cancel(d.job)
                          /\ UNCHANGED <<rec, desired, fails, faults, cli, auto>>
    BY <1>4 DEF ApplyReap
  <2>2. d.job \in Jobs
    BY <1>1, <2>1 DEF Take, Head, TypeOK, SupTypes, Decisions, ModelActions, Polls, Decision
  <2>3. Settles /\ BringUpsUnserved' /\ DeadHeartbeats'
    BY <1>1, <2>1, <2>2, CancelSettles DEF TypeOK
  <2>4. QED
    BY <1>1, <2>1, <2>3, TakeShrinks, ListShrinks
<1>5. CASE ReapClearsDemand
  <2>1. /\ sup.pc = "reap" /\ sup'.pc = "apply" /\ sup'.todo = sup.todo
        /\ sup'.live = sup.live /\ sup'.mine = sup.mine /\ sup'.want = sup.want
    BY <1>1, <1>5 DEF ReapClearsDemand, SupGoto, TypeOK, SupTypes
  <2>2. Settles /\ BringUpsUnserved' /\ DeadHeartbeats' /\ auto' = auto
    BY <1>5, Undisturbed DEF ReapClearsDemand
  <2>3. QED
    BY <1>1, <2>1, <2>2, ListShrinks
<1>6. CASE ApplyBlocked
  <2>1. Settles /\ BringUpsUnserved' /\ DeadHeartbeats' /\ auto' = auto
    BY <1>6, Undisturbed DEF ApplyBlocked
  <2>2. QED
    BY <1>1, <1>6, <2>1, TakeShrinks, ListShrinks DEF ApplyBlocked
<1>7. CASE ApplyLaunch
  <2>1. PICK d \in Head : Take(d, Launches, "submit")
    BY <1>7 DEF ApplyLaunch
  <2>2. /\ sup.pc = "apply" /\ sup'.pc = "submit" /\ sup'.todo \subseteq sup.todo
        /\ sup'.live = sup.live /\ sup'.mine = sup.mine /\ sup'.want = sup.want
    BY <1>1, <2>1, TakeShrinks
  <2>3. BringUpsUnserved' /\ DeadHeartbeats' /\ auto' = auto /\ job' = job
    BY <1>7, Undisturbed DEF ApplyLaunch, jobVars
  <2>4. AutoBringUps \subseteq sup.mine
    BY <2>1 DEF IInv, LaunchesAlone, Applying, Take, Head
  <2>5. FreeIdsForgotten' /\ BringUpsListed' /\ TodoByPhase' /\ TouchesServedOnly'
    BY <2>2, <2>3 DEF IInv, FreeIdsForgotten, BringUpsListed, TodoByPhase,
                      TouchesServedOnly, Applying
  <2>6. LaunchesAlone'
    BY <2>2, <2>3, <2>4 DEF LaunchesAlone, AutoBringUps
  <2>7. QED
    BY <1>1, <2>3, <2>5, <2>6 DEF IInv
<1>8. CASE PreflightFails
  <2>1. Settles /\ BringUpsUnserved' /\ DeadHeartbeats' /\ auto' = auto
    BY <1>8, Undisturbed DEF PreflightFails
  <2>2. QED
    BY <1>1, <1>8, <2>1, TakeShrinks, ListShrinks DEF PreflightFails
<1>9. CASE SubmitFails
  <2>1. /\ sup.pc = "submit" /\ sup'.pc = "apply" /\ sup'.todo = {}
        /\ sup'.live = sup.live /\ sup'.mine = sup.mine /\ sup'.want = sup.want
    BY <1>1, <1>9 DEF SubmitFails, TypeOK, SupTypes
  <2>2. Settles /\ BringUpsUnserved' /\ DeadHeartbeats' /\ auto' = auto
    BY <1>9, Undisturbed DEF SubmitFails
  <2>3. QED
    BY <1>1, <2>1, <2>2, ListShrinks
<1>10. ASSUME NEW j \in Jobs, SupSubmits(j)
       PROVE  IInv'
  <2>1. /\ sup.pc = "submit" /\ sup'.pc = "apply" /\ sup'.todo = sup.todo
        /\ sup'.live = sup.live /\ sup'.mine = sup.mine \cup {j} /\ sup'.want = sup.want
    BY <1>1, <1>10 DEF SupSubmits, TypeOK, SupTypes
  <2>2. /\ job[j] = "none" /\ auto' = auto \cup {j}
        /\ \A k \in Jobs : job'[k] = IF k = j THEN "queued" ELSE job[k]
        /\ UNCHANGED <<rec, beating, beat>>
    BY <1>1, <1>10 DEF SupSubmits, Submit, Goto, TypeOK
  <2>3. AutoBringUps' \subseteq AutoBringUps \cup {j}
    BY <1>1, <2>2 DEF AutoBringUps, TypeOK
  <2>4. AutoBringUps \subseteq sup.mine
    BY <2>1 DEF IInv, LaunchesAlone, Applying
  <2>5. BringUpsUnserved' /\ DeadHeartbeats'
    BY <2>2 DEF IInv, BringUpsUnserved, DeadHeartbeats, BringUp
  <2>6. FreeIdsForgotten'
    BY <2>1, <2>2 DEF IInv, FreeIdsForgotten
  <2>7. BringUpsListed' /\ TodoByPhase'
    BY <2>1 DEF IInv, BringUpsListed, TodoByPhase, Applying
  <2>8. LaunchesAlone'
    BY <2>1, <2>3, <2>4 DEF LaunchesAlone
  <2>9. TouchesServedOnly'
    <3> SUFFICES ASSUME NEW d \in sup'.todo,
                        \/ d.action = "start_drain"
                        \/ sup'.want = 1 /\ d.action \in {"cancel", "reap_idle"}
                 PROVE  job'[d.job] \notin BringUp \cup {"none"}
      BY DEF TouchesServedOnly
    <3>1. job[d.job] \notin BringUp \cup {"none"}
      BY <2>1 DEF IInv, TouchesServedOnly, Applying
    <3>2. d.job \in Jobs
      BY <2>1 DEF IInv, TodoByPhase, Applying, Decisions, ModelActions
    <3>3. QED
      BY <2>2, <3>1, <3>2
  <2>10. QED
    BY <1>1, <2>5, <2>6, <2>7, <2>8, <2>9 DEF IInv
<1>11. CASE CancelFails
  <2>1. Settles /\ BringUpsUnserved' /\ DeadHeartbeats' /\ auto' = auto
    BY <1>11, Undisturbed DEF CancelFails
  <2>2. QED
    BY <1>1, <1>11, <2>1, TakeShrinks, ListShrinks DEF CancelFails
<1>12. QED
  BY <1>2, <1>3, <1>4, <1>5, <1>6, <1>7, <1>8, <1>9, <1>10, <1>11

(* The end of the tick, a crash and a restart keep the invariant.          *)
LEMMA TickEndKeepsInvariant ==
    ASSUME IInv, SweepList \/ SweepListFails \/ Sweep \/ SupCrashes \/ SupRestarts
    PROVE  IInv'
<1>1. TypeOK /\ TypeOK'
  BY SupTypesKept DEF IInv, Supervisor, SupervisorFaults
<1> USE DEF TodoByPhase, LaunchesAlone, TouchesServedOnly, BringUpsListed, Applying
<1>2. CASE SweepList
  <2>1. /\ sup'.pc = "evict" /\ sup'.todo = {} /\ sup'.live = InSqueue
        /\ auto' = auto /\ job' = job
    BY <1>1, <1>2 DEF SweepList, TypeOK, SupTypes, jobVars
  <2>2. BringUpsUnserved' /\ DeadHeartbeats'
    BY <1>2, Undisturbed DEF SweepList
  <2>3. FreeIdsForgotten'
    BY <2>1 DEF IInv, FreeIdsForgotten, InSqueue
  <2>4. QED
    BY <1>1, <2>1, <2>2, <2>3 DEF IInv
<1>3. CASE SweepListFails \/ SupCrashes
  <2>1. /\ sup'.pc = "down" /\ sup'.todo = {} /\ sup'.live = {}
        /\ auto' = auto /\ job' = job
    BY <1>3 DEF SweepListFails, SupCrashes, TickStart, jobVars
  <2>2. BringUpsUnserved' /\ DeadHeartbeats'
    BY <1>3, Undisturbed DEF SweepListFails, SupCrashes
  <2>3. FreeIdsForgotten'
    BY <2>1 DEF IInv, FreeIdsForgotten
  <2>4. QED
    BY <1>1, <2>1, <2>2, <2>3 DEF IInv
<1>4. CASE Sweep
  <2>1. /\ sup'.pc = "refresh" /\ sup'.todo = {} /\ sup'.live = {}
        /\ auto' = auto /\ UNCHANGED jobVars
        /\ \A k \in Jobs : rec'[k] \in {rec[k], NoRecord}
    BY <1>4 DEF Sweep, TickStart
  <2>2. BringUpsUnserved' /\ DeadHeartbeats'
    BY <2>1, RecordStateFacts DEF IInv, BringUpsUnserved, DeadHeartbeats, jobVars
  <2>3. FreeIdsForgotten'
    BY <2>1 DEF IInv, FreeIdsForgotten, jobVars
  <2>4. QED
    BY <1>1, <2>1, <2>2, <2>3 DEF IInv
<1>5. CASE SupRestarts
  <2>1. /\ sup.pc = "down" /\ sup'.pc = "refresh" /\ sup'.todo = sup.todo
        /\ sup'.live = sup.live /\ auto' = auto /\ job' = job
    BY <1>1, <1>5 DEF SupRestarts, SupGoto, TypeOK, SupTypes, jobVars
  <2>2. BringUpsUnserved' /\ DeadHeartbeats'
    BY <1>5, Undisturbed DEF SupRestarts
  <2>3. FreeIdsForgotten' /\ sup'.todo = {}
    BY <2>1 DEF IInv, FreeIdsForgotten
  <2>4. QED
    BY <1>1, <2>1, <2>2, <2>3 DEF IInv
<1>6. QED
  BY <1>2, <1>3, <1>4, <1>5

(* Clients and the operator keep the invariant: a job submitted by hand is *)
(* not one of the supervisor's, and its id was free.                       *)
LEMMA OperatorKeepsInvariant ==
    ASSUME IInv, Operator
    PROVE  IInv'
<1>1. TypeOK /\ TypeOK'
  BY OperatorTypes DEF IInv
<1>2. CASE UpSubmits /\ job' # job
  <2>1. PICK j \in Jobs : Submit(j)
    BY <1>2 DEF UpSubmits, jobVars
  <2>2. /\ job[j] = "none" /\ UNCHANGED <<rec, beating, beat, sup, auto>>
        /\ \A k \in Jobs : job'[k] = IF k = j THEN "queued" ELSE job[k]
    BY <1>1, <1>2, <2>1 DEF UpSubmits, Submit, Goto, TypeOK
  <2>3. j \notin auto /\ \A d \in sup.todo : d.job # j
    BY <2>2 DEF IInv, FreeIdsForgotten
  <2>4. AutoBringUps' \subseteq AutoBringUps
    BY <1>1, <2>2, <2>3 DEF AutoBringUps, TypeOK
  <2>5. BringUpsUnserved' /\ DeadHeartbeats'
    BY <2>2 DEF IInv, BringUpsUnserved, DeadHeartbeats, BringUp
  <2>6. FreeIdsForgotten'
    BY <2>2 DEF IInv, FreeIdsForgotten
  <2>7. BringUpsListed' /\ TodoByPhase' /\ LaunchesAlone'
    BY <2>2, <2>4 DEF IInv, BringUpsListed, TodoByPhase, LaunchesAlone, Applying
  <2>8. TouchesServedOnly'
    <3> SUFFICES ASSUME Applying', NEW d \in sup'.todo,
                        \/ d.action = "start_drain"
                        \/ sup'.want = 1 /\ d.action \in {"cancel", "reap_idle"}
                 PROVE  job'[d.job] \notin BringUp \cup {"none"}
      BY DEF TouchesServedOnly
    <3>1. job[d.job] \notin BringUp \cup {"none"}
      BY <2>2 DEF IInv, TouchesServedOnly, Applying
    <3>2. d.job \in Jobs
      BY <2>2 DEF IInv, TodoByPhase, Applying, Decisions, ModelActions
    <3>3. QED
      BY <2>2, <2>3, <3>1, <3>2
  <2>9. QED
    BY <1>1, <2>5, <2>6, <2>7, <2>8 DEF IInv
<1>3. CASE DownRecord
  <2>1. PICK j \in cli.todo : Cancel(j) /\ rec' = [rec EXCEPT ![j] = NoRecord]
    BY <1>3 DEF DownRecord
  <2>2. j \in Jobs
    BY <1>1 DEF TypeOK, CliTypes
  <2>3. Settles /\ BringUpsUnserved' /\ DeadHeartbeats'
    BY <1>1, <2>1, <2>2, CancelSettles DEF TypeOK
  <2>4. QED
    BY <1>1, <1>3, <2>3, QuietStep DEF DownRecord
<1>4. CASE DownJob
  <2>1. PICK j \in cli.todo : Cancel(j) /\ rec' = rec
    BY <1>4 DEF DownJob
  <2>2. j \in Jobs
    BY <1>1 DEF TypeOK, CliTypes
  <2>3. Settles /\ BringUpsUnserved' /\ DeadHeartbeats'
    BY <1>1, <2>1, <2>2, CancelSettles DEF TypeOK
  <2>4. QED
    BY <1>1, <1>4, <2>3, QuietStep DEF DownJob
<1>5. CASE ~(DownRecord \/ DownJob \/ (UpSubmits /\ job' # job))
  <2>1. UNCHANGED <<jobVars, rec, sup, auto>>
    <3>1. CASE UpSubmits
      BY <1>1, <1>5, <3>1 DEF UpSubmits, Submit, Goto, TypeOK, jobVars
    <3>2. CASE ~UpSubmits
      BY <1>5, <3>2 DEF Operator, CliContinues, Wake, UpWakes, UpResets, DownClearsDemand,
                        DownListsRecords, DownListsJobs, DownEnds
    <3>3. QED
      BY <3>1, <3>2
  <2>2. QED
    BY <1>1, <2>1, Undisturbed, QuietStep
<1>6. QED
  BY <1>2, <1>3, <1>4, <1>5

(* IInv is an invariant of the specification.                              *)
LEMMA Inductive == Spec => []IInv
<1>1. Init => IInv
  <2> SUFFICES ASSUME Init PROVE IInv
    OBVIOUS
  <2>1. TypeOK
    BY RecordFacts, ReconcileAssumption DEF Init, TypeOK, JobStates, CliTypes
  <2>2. QED
    BY <2>1 DEF Init, IInv, TickStart, NoRecord, Serving, BringUp, Applying,
                BringUpsUnserved, DeadHeartbeats, FreeIdsForgotten, BringUpsListed, TodoByPhase,
                LaunchesAlone, TouchesServedOnly, AutoBringUps
<1>2. IInv /\ [Next]_vars => IInv'
  <2> SUFFICES ASSUME IInv, [Next]_vars PROVE IInv'
    OBVIOUS
  <2>1. CASE UNCHANGED vars
    BY <2>1 DEF vars, IInv, TypeOK, BringUpsUnserved, DeadHeartbeats, FreeIdsForgotten,
                BringUpsListed, TodoByPhase, LaunchesAlone, TouchesServedOnly, AutoBringUps,
                Applying
  <2>2. CASE Next
    BY <2>2, JobKeepsInvariant, DecideKeepsInvariant, ReadsKeepInvariant,
       ApplyKeepsInvariant, TickEndKeepsInvariant, OperatorKeepsInvariant
       DEF Next, Supervisor, SupervisorFaults
  <2>3. QED
    BY <2>1, <2>2
<1>3. QED
  BY <1>1, <1>2, PTL DEF Spec

(* decide's comment on pending_ids, for every set of jobs: the supervisor  *)
(* never calls sbatch while a job it launched in an earlier tick is still  *)
(* queued, starting or loading.                                            *)
THEOREM LaunchesAreUnique == Spec => []NoDuplicateLaunch
<1>1. IInv => NoDuplicateLaunch
  BY DEF IInv, LaunchesAlone, Applying, NoDuplicateLaunch
<1>2. QED
  BY <1>1, Inductive, PTL

(* For every set of jobs: with demand at 1 the supervisor never cancels or *)
(* drains a job that is still on its way up.                               *)
THEOREM BringUpsAreSpared == Spec => []SparesBringUps
<1>1. IInv => SparesBringUps
  BY DEF IInv, TouchesServedOnly, Applying, SparesBringUps
<1>2. QED
  BY <1>1, Inductive, PTL

-----------------------------------------------------------------------------
(* The demand and the sweep.                                               *)

\* What decide put into the list when the demand stood, and where: launches
\* before reaps.
RanksInOrder ==
    Applying => \A d \in sup.todo : /\ d.action \in Launches => d.at = 2
                                    /\ d.action = "reap_idle" => d.at = 4

\* The demand the tick has read still stands while it may lead to a launch.
DemandStands ==
    /\ sup.pc \in {"squeue", "registry"} /\ sup.want = 1 => desired = 1
    /\ \/ sup.pc = "apply" /\ \E d \in sup.todo : d.action \in Launches
       \/ sup.pc = "submit"
       => desired = 1
    /\ sup.pc = "reap" => \A d \in sup.todo : d.action \notin Launches

DIInv == IInv /\ RanksInOrder /\ DemandStands

(* decide ranks its launches before its reaps, and launches for want = 1.  *)
LEMMA DecideRanks ==
    ASSUME NEW want \in {0, 1}, NEW live, NEW r, NEW lw, NEW idle, NEW blocked, NEW oldest,
           NEW d \in Decide(want, live, r, lw, idle, blocked, oldest)
    PROVE  /\ d.action \in Launches => d.at = 2 /\ want = 1
           /\ d.action = "reap_idle" => d.at = 4
<1> USE DEF Decision, Launches
<1>1. CASE d \in GraceCancels(live, r)
  BY <1>1 DEF GraceCancels
<1>2. CASE want = 0 /\ d \in Undesired(live, r)
  BY <1>2 DEF Undesired
<1>3. CASE want = 1 /\ d \in ColdStart(blocked)
  BY <1>3 DEF ColdStart
<1>4. CASE want = 1 /\ d \in Handoffs(live, r, lw, blocked)
  BY <1>4 DEF Handoffs
<1>5. CASE want = 1 /\ d \in Surplus(want, live, r, oldest)
  BY <1>5 DEF Surplus
<1>6. CASE want = 1 /\ d \in Reaps(live, r, idle)
  BY <1>6 DEF Reaps
<1>7. QED
  BY <1>1, <1>2, <1>3, <1>4, <1>5, <1>6 DEF Decide

(* The supervisor's steps keep the demand standing, and only a reap, which *)
(* comes after every launch of the list, lowers it.                        *)
LEMMA SupervisorKeepsDemand ==
    ASSUME DIInv, Supervisor \/ SupervisorFaults \/ SupRestarts
    PROVE  (RanksInOrder /\ DemandStands)' /\ (desired' > desired => sup' = sup)
<1>1. TypeOK /\ TypeOK'
  BY SupTypesKept DEF DIInv, IInv
<1> USE <1>1 DEF RanksInOrder, DemandStands, Applying
<1>2. CASE DecideTick
  <2>1. PICK idle, oldest : sup' = [sup EXCEPT !.pc = "apply", !.todo =
                              Decide(sup.want, sup.live, rec, low, idle,
                                     fails >= MaxConsecutive, oldest)]
    BY <1>2 DEF DecideTick
  <2>2. /\ sup.pc = "registry" /\ sup.want \in {0, 1} /\ desired' = desired /\ sup'.pc = "apply"
        /\ sup'.todo = Decide(sup.want, sup.live, rec, low, idle, fails >= MaxConsecutive, oldest)
    BY <1>2, <2>1 DEF DecideTick, TypeOK, SupTypes
  <2>3. desired' \in {0, 1} /\ ~(desired' > desired)
    BY <2>2 DEF TypeOK
  <2>4. \A d \in sup'.todo : /\ d.action \in Launches => d.at = 2 /\ sup.want = 1
                             /\ d.action = "reap_idle" => d.at = 4
    BY <2>2, DecideRanks
  <2>5. QED
    BY <2>2, <2>3, <2>4 DEF DIInv
<1>3. CASE ApplyReap \/ (CancelFails /\ sup'.pc = "reap")
  <2>1. PICK d \in Head : Take(d, {"reap_idle"}, "reap") /\ desired' = desired
    BY <1>3 DEF ApplyReap, CancelFails, Take, TypeOK, SupTypes
  <2>2. /\ sup.pc = "apply" /\ d.action = "reap_idle" /\ sup'.pc = "reap"
        /\ sup'.todo \subseteq sup.todo
    BY <2>1 DEF Take, TypeOK, SupTypes
  <2>3. \A e \in sup.todo : d.at <= e.at
    BY DEF Head
  <2>4. d.at = 4
    BY <2>1, <2>2 DEF DIInv, Head
  <2>5. \A e \in sup.todo : e.action \notin Launches
    BY <2>2, <2>3, <2>4 DEF DIInv
  <2>6. ~(desired' > desired)
    BY <2>1 DEF TypeOK
  <2>7. QED
    BY <2>2, <2>5, <2>6 DEF DIInv
<1>4. CASE ApplyLaunch
  <2>1. PICK d \in Head : Take(d, Launches, "submit") /\ desired' = 1
    BY <1>4 DEF ApplyLaunch
  <2>2. /\ sup.pc = "apply" /\ sup'.pc = "submit" /\ sup'.todo \subseteq sup.todo
        /\ d \in sup.todo /\ d.action \in Launches
    BY <2>1 DEF Take, Head, TypeOK, SupTypes
  <2>3. desired = 1
    BY <2>2 DEF DIInv
  <2>4. QED
    BY <2>1, <2>2, <2>3 DEF DIInv
<1>5. CASE ReapClearsDemand
  <2>1. /\ sup.pc = "reap" /\ sup'.pc = "apply" /\ sup'.todo = sup.todo /\ desired' = 0
    BY <1>5 DEF ReapClearsDemand, SupGoto, TypeOK, SupTypes
  <2>2. ~(desired' > desired)
    BY <2>1 DEF TypeOK
  <2>3. QED
    BY <2>1, <2>2 DEF DIInv
<1>6. CASE ReadDemand \/ ListJobs \/ ListJobsFails
  <2>1. /\ desired' = desired /\ sup'.todo = sup.todo
        /\ \/ sup'.pc = "squeue" /\ sup'.want = desired
           \/ sup.pc = "squeue" /\ sup'.pc = "registry" /\ sup'.want = sup.want
           \/ sup.pc = "squeue" /\ sup'.pc = "apply"
    BY <1>6 DEF ReadDemand, ListJobs, ListJobsFails, SupGoto, TypeOK, SupTypes
  <2>2. ~(desired' > desired)
    BY <2>1 DEF TypeOK
  <2>3. sup.pc = "squeue" => sup.todo = {}
    BY DEF DIInv, IInv, TodoByPhase
  <2>4. QED
    BY <2>1, <2>2, <2>3 DEF DIInv
<1>7. CASE \/ ApplyStartDrain \/ ApplyCancel \/ ApplyBlocked \/ PreflightFails \/ SubmitFails
           \/ (CancelFails /\ sup'.pc # "reap") \/ \E j \in Jobs : SupSubmits(j)
  <2>1. /\ desired' = desired /\ sup'.pc = "apply" /\ sup'.todo \subseteq sup.todo
        /\ sup.pc \in {"apply", "submit"}
    <3>1. CASE ApplyStartDrain \/ ApplyCancel \/ ApplyBlocked \/ PreflightFails
      BY <3>1, TakeShrinks DEF ApplyStartDrain, ApplyCancel, ApplyBlocked, PreflightFails
    <3>2. CASE CancelFails /\ sup'.pc # "reap"
      BY <3>2, TakeShrinks DEF CancelFails
    <3>3. CASE SubmitFails \/ \E j \in Jobs : SupSubmits(j)
      BY <3>3 DEF SubmitFails, SupSubmits, TypeOK, SupTypes
    <3>4. QED
      BY <1>7, <3>1, <3>2, <3>3
  <2>2. ~(desired' > desired)
    BY <2>1 DEF TypeOK
  <2>3. QED
    BY <2>1, <2>2 DEF DIInv
<1>8. CASE \/ RefreshRead \/ RefreshPoll \/ SweepList \/ Sweep \/ SweepListFails
           \/ SupCrashes \/ SupRestarts
  <2>1. desired' = desired /\ sup'.pc \in {"refresh", "polling", "evict", "down"}
    <3>1. CASE RefreshRead
      BY <3>1 DEF RefreshRead, TypeOK, SupTypes
    <3>2. CASE RefreshPoll
      BY <3>2 DEF RefreshPoll, PollSkipped, PollQuiet, PollActive, Done, TypeOK, SupTypes
    <3>3. CASE Sweep \/ SweepListFails \/ SupCrashes
      BY <3>3 DEF Sweep, SweepListFails, SupCrashes, TickStart
    <3>4. CASE SweepList \/ SupRestarts
      BY <3>4 DEF SweepList, SupRestarts, SupGoto, TypeOK, SupTypes
    <3>5. QED
      BY <1>8, <3>1, <3>2, <3>3, <3>4
  <2>2. ~(desired' > desired)
    BY <2>1 DEF TypeOK
  <2>3. QED
    BY <2>1, <2>2
<1>9. QED
  BY <1>2, <1>3, <1>4, <1>5, <1>6, <1>7, <1>8 DEF Supervisor, SupervisorFaults

(* Jobs, clients and `mrctl up` leave the list alone and never lower the   *)
(* demand; `mrctl down` would.                                             *)
LEMMA OthersKeepDemand ==
    ASSUME DIInv, "down" \notin Commands,
           Operator \/ \E j \in Jobs : JobProgress(j) \/ JobEvents(j)
    PROVE  (RanksInOrder /\ DemandStands)' /\ (desired' > desired => sup' = sup)
<1>1. TypeOK
  BY DEF DIInv, IInv
<1>2. /\ desired' \in {desired, 1}
      /\ desired' # desired => sup' = sup
      /\ sup'.pc = sup.pc /\ sup'.todo = sup.todo /\ sup'.want = sup.want
  <2>1. CASE Operator
    BY <2>1 DEF Operator, CliContinues, Wake, UpWakes, UpResets, UpSubmits, DownClearsDemand,
                CliBegins, DownListsRecords, DownRecord, DownListsJobs, DownJob, DownEnds
  <2>2. ASSUME NEW j \in Jobs, JobProgress(j) \/ JobEvents(j)
        PROVE  /\ desired' = desired
               /\ sup'.pc = sup.pc /\ sup'.todo = sup.todo /\ sup'.want = sup.want
    <3>1. CASE Recycle(j)
      BY <1>1, <3>1 DEF Recycle, TypeOK, SupTypes
    <3>2. CASE ~Recycle(j)
      BY <2>2, <3>2 DEF JobProgress, JobEvents, SlurmStarts, PublishLoading, EngineAnswers,
           ResetFailures, BringUpFails, RecordFailure, CleanupPublish, CleanupEvict, JobLeaves,
           HeartbeatWrites, GraceElapses, ScriptDies, EngineExits, NodeFails,
           HeartbeatRecreates, HeartbeatReads, WallApproaches, TimeLimit
    <3>3. QED
      BY <3>1, <3>2
  <2>3. QED
    BY <2>1, <2>2
<1>3. (RanksInOrder /\ DemandStands)'
  BY <1>2 DEF DIInv, RanksInOrder, DemandStands, Applying
<1>4. desired' > desired => sup' = sup
  BY <1>1, <1>2 DEF TypeOK
<1>5. QED
  BY <1>3, <1>4

(* As long as nobody runs `mrctl down`, for every set of jobs and faults:  *)
(* the wake inside the supervisor's own launches raises nothing, since the *)
(* launch was decided on a demand of 1 that no reap has withdrawn yet.     *)
THEOREM LaunchesRaiseNoDemand ==
    ASSUME "down" \notin Commands
    PROVE  Spec => SupervisorNeverRaisesDemand
<1>1. Init => RanksInOrder /\ DemandStands
  BY DEF Init, TickStart, RanksInOrder, DemandStands, Applying
<1>2. IInv /\ RanksInOrder /\ DemandStands /\ [Next]_vars
        => /\ (RanksInOrder /\ DemandStands)'
           /\ [desired' > desired => sup' = sup]_vars
  <2> SUFFICES ASSUME DIInv, [Next]_vars
               PROVE  /\ (RanksInOrder /\ DemandStands)'
                      /\ [desired' > desired => sup' = sup]_vars
    BY DEF DIInv
  <2>1. CASE UNCHANGED vars
    BY <2>1 DEF vars, DIInv, RanksInOrder, DemandStands, Applying
  <2>2. CASE Next
    BY <2>2, SupervisorKeepsDemand, OthersKeepDemand DEF Next
  <2>3. QED
    BY <2>1, <2>2
<1>3. QED
  BY <1>1, <1>2, Inductive, PTL DEF Spec, SupervisorNeverRaisesDemand

\* The sweep's list holds all that squeue lists now, and no `up` is under way.
SweepListCurrent ==
    /\ sup.pc = "evict" => InSqueue \subseteq sup.live
    /\ cli.pc \notin {"reset", "submit"}

(* A cancelled job does not enter squeue.                                  *)
LEMMA CancelEntersNothing ==
    ASSUME TypeOK, NEW j \in Jobs, Cancel(j)
    PROVE  InSqueue' \subseteq InSqueue
<1> PICK s \in Cancelled[job[j]] : job' = [job EXCEPT ![j] = s]
  BY DEF Cancel
<1>1. job[j] \in {"none", "gone"} => s = job[j]
  BY DEF Cancelled, JobStates
<1>2. QED
  BY <1>1 DEF InSqueue, TypeOK

(* Jobs enter squeue by sbatch alone, and what squeue has forgotten does   *)
(* not come back.                                                          *)
LEMMA JobsEnterNothing ==
    ASSUME TypeOK, NEW j \in Jobs, JobProgress(j) \/ JobEvents(j)
    PROVE  /\ InSqueue' \subseteq InSqueue /\ cli' = cli
           /\ sup'.pc = sup.pc /\ sup'.live = sup.live
<1>1. CASE TimeLimit(j)
  BY <1>1, CancelEntersNothing DEF TimeLimit
<1>2. CASE Recycle(j)
  BY <1>2 DEF Recycle, Goto, InSqueue, TypeOK, SupTypes
<1>3. CASE ~(TimeLimit(j) \/ Recycle(j))
  <2>1. sup' = sup /\ cli' = cli
    BY <1>3 DEF JobProgress, JobEvents, SlurmStarts, PublishLoading, EngineAnswers,
           ResetFailures, BringUpFails, RecordFailure, CleanupPublish, CleanupEvict, JobLeaves,
           HeartbeatWrites, GraceElapses, ScriptDies, EngineExits, NodeFails,
           HeartbeatRecreates, HeartbeatReads, WallApproaches
  <2>2. \/ job' = job
        \/ job[j] \notin {"none", "gone"} /\ \E s \in JobStates : job' = [job EXCEPT ![j] = s]
    BY <1>3 DEF JobProgress, JobEvents, SlurmStarts, PublishLoading, EngineAnswers,
           ResetFailures, BringUpFails, RecordFailure, CleanupPublish, CleanupEvict, JobLeaves,
           HeartbeatWrites, GraceElapses, ScriptDies, EngineExits, NodeFails,
           HeartbeatRecreates, HeartbeatReads, WallApproaches, Goto, jobVars, JobStates, Running
  <2>3. QED
    BY <2>1, <2>2 DEF InSqueue, TypeOK
<1>4. QED
  BY <1>1, <1>2, <1>3

(* Every step keeps the sweep's list current, and the sweep spares.        *)
LEMMA SweepStep ==
    ASSUME TypeOK, SweepListCurrent, "up" \notin Commands, Next
    PROVE  /\ SweepListCurrent'
           /\ sup.pc = "evict" /\ sup' # sup =>
                  \A j \in InSqueue : rec[j] # NoRecord => rec'[j] # NoRecord
<1>1. ASSUME NEW j \in Jobs, JobProgress(j) \/ JobEvents(j)
      PROVE  SweepListCurrent' /\ (sup' # sup => rec' = rec)
  <2>1. SweepListCurrent'
    BY <1>1, JobsEnterNothing DEF SweepListCurrent
  <2>2. CASE Recycle(j)
    BY <2>1, <2>2 DEF Recycle
  <2>3. CASE ~Recycle(j)
    BY <1>1, <2>1, <2>3 DEF JobProgress, JobEvents, SlurmStarts, PublishLoading, EngineAnswers,
           ResetFailures, BringUpFails, RecordFailure, CleanupPublish, CleanupEvict, JobLeaves,
           HeartbeatWrites, GraceElapses, ScriptDies, EngineExits, NodeFails,
           HeartbeatRecreates, HeartbeatReads, WallApproaches, TimeLimit
  <2>4. QED
    BY <2>2, <2>3
<1>2. ASSUME Operator
      PROVE  SweepListCurrent' /\ sup' = sup
  <2>1. sup' = sup
    BY <1>2 DEF Operator, CliContinues, Wake, UpWakes, UpResets, UpSubmits, DownClearsDemand,
                DownListsRecords, DownRecord, DownListsJobs, DownJob, DownEnds
  <2>2. CASE DownRecord \/ DownJob
    <3>1. PICK j \in cli.todo : Cancel(j) /\ cli' = [cli EXCEPT !.todo = @ \ {j}]
      BY <2>2 DEF DownRecord, DownJob
    <3>2. j \in Jobs /\ cli'.pc = cli.pc
      BY <3>1 DEF TypeOK, CliTypes
    <3>3. QED
      BY <2>1, <3>1, <3>2, CancelEntersNothing DEF SweepListCurrent
  <2>3. CASE ~(DownRecord \/ DownJob)
    <3>1. job' = job /\ cli'.pc \notin {"reset", "submit"}
      BY <1>2, <2>3 DEF Operator, CliContinues, Wake, UpWakes, UpResets, UpSubmits, DownClearsDemand,
             DownListsRecords, DownListsJobs, DownEnds, CliBegins, CliGoto, SweepListCurrent,
             TypeOK, CliTypes, jobVars
    <3>2. QED
      BY <2>1, <3>1 DEF SweepListCurrent, InSqueue
  <2>4. QED
    BY <2>2, <2>3, <2>1
<1>3. ASSUME Supervisor \/ SupervisorFaults \/ SupRestarts
      PROVE  /\ SweepListCurrent'
             /\ sup.pc = "evict" => \A j \in InSqueue : rec[j] # NoRecord => rec'[j] # NoRecord
  <2>1. cli' = cli
    BY <1>3 DEF Supervisor, SupervisorFaults, RefreshRead, RefreshPoll, ReadDemand, ListJobs, DecideTick,
         ApplyStartDrain, ApplyCancel, ApplyReap, ReapClearsDemand, ApplyBlocked, ApplyLaunch,
         SupSubmits, SubmitFails, SweepList, Sweep, ListJobsFails, CancelFails, PreflightFails,
         SweepListFails, SupCrashes, SupRestarts
  <2>2. CASE SweepList
    BY <2>1, <2>2 DEF SweepList, SweepListCurrent, InSqueue, jobVars, TypeOK, SupTypes
  <2>3. CASE Sweep
    BY <2>1, <2>3 DEF Sweep, SweepListCurrent, InSqueue, TickStart
  <2>4. CASE ~(SweepList \/ Sweep)
    <3>1. sup'.pc # "evict" /\ (sup.pc = "evict" => rec' = rec)
      BY <1>3, <2>4 DEF Supervisor, SupervisorFaults, RefreshRead, RefreshPoll, PollSkipped, PollQuiet,
           PollActive, Done, ReadDemand, ListJobs, DecideTick,
           ApplyStartDrain, ApplyCancel, ApplyReap, ReapClearsDemand, ApplyBlocked, ApplyLaunch,
           SupSubmits, SubmitFails, ListJobsFails, CancelFails, PreflightFails,
           SweepListFails, SupCrashes, SupRestarts, Take, SupGoto, TickStart, TypeOK, SupTypes
    <3>2. QED
      BY <2>1, <3>1 DEF SweepListCurrent
  <2>5. QED
    BY <2>2, <2>3, <2>4
<1>4. QED
  BY <1>1, <1>2, <1>3 DEF Next

(* As long as only the supervisor submits, for every set of jobs and       *)
(* faults: the sweep evicts the record of no job that is still in squeue,  *)
(* though it works from an answer of a moment before.                      *)
THEOREM SweepSpares ==
    ASSUME "up" \notin Commands
    PROVE  Spec => SweepSparesLiveJobs
<1>1. Init => SweepListCurrent
  BY DEF Init, TickStart, SweepListCurrent
<1>2. TypeOK /\ SweepListCurrent /\ [Next]_vars
        => /\ SweepListCurrent'
           /\ [sup.pc = "evict" /\ sup' # sup =>
                  \A j \in InSqueue : rec[j] # NoRecord => rec'[j] # NoRecord]_vars
  <2> SUFFICES ASSUME TypeOK, SweepListCurrent, [Next]_vars
               PROVE  /\ SweepListCurrent'
                      /\ [sup.pc = "evict" /\ sup' # sup =>
                             \A j \in InSqueue : rec[j] # NoRecord => rec'[j] # NoRecord]_vars
    OBVIOUS
  <2>1. CASE UNCHANGED vars
    BY <2>1 DEF vars, SweepListCurrent, InSqueue
  <2>2. CASE Next
    BY <2>2, SweepStep
  <2>3. QED
    BY <2>1, <2>2
<1>3. QED
  BY <1>1, <1>2, TypeCorrect, PTL DEF Spec, SweepSparesLiveJobs
=============================================================================
