---------------------------- MODULE HandoffProofs ----------------------------
(***************************************************************************)
(* For any number of jobs, any commands and any faults but a heartbeat     *)
(* that overlaps another writer of its record, which may write READY away: *)
(* the drain that ends a handoff never takes the last backend, and every   *)
(* record implements Lifecycle under all its writers.                      *)
(***************************************************************************)
EXTENDS ReconcileProofs

\* The backend that makes up for a drain: READY and not drained itself, or
\* on its way out by now, of its own or an operator's accord.
Kept(k) ==
    /\ rec[k].since = "unset"
    /\ rec[k].state = "ready" \/ job[k] \notin BringUp \cup {"answering", "serving"}

NoCopies == \A j \in Jobs : beat[j] = NoRecord

\* What is READY has not been drained, nor has what may still become READY.
ReadyUndrained    == \A j \in Jobs : rec[j].state = "ready" => rec[j].since = "unset"
BringUpsUndrained ==
    \A j \in Jobs : job[j] \in BringUp \cup {"none"} => rec[j].since = "unset"

Unread == NoCopies /\ ReadyUndrained /\ BringUpsUndrained

\* At demand 1 one backend is drained per tick, and another one makes up.
OneDrain ==
    Applying /\ sup.want = 1 =>
        \A d, e \in sup.todo : d.action = "start_drain" /\ e.action = "start_drain" => d = e

LastKept ==
    Applying /\ sup.want = 1 =>
        \A d \in sup.todo : d.action = "start_drain" =>
            \E k \in sup.live \ {d.job} : Kept(k)

HIInv == IInv /\ Unread /\ OneDrain /\ LastKept

-----------------------------------------------------------------------------

LEMMA RecordsSince ==
    /\ NoRecord.since = "unset" /\ NoRecord.state # "ready"
    /\ Blank.since = "unset" /\ Blank.state # "ready"
    /\ \A r \in Records : /\ HeartbeatFromJob(r).since = r.since
                          /\ HeartbeatFromJob(r).state = "ready" => r.state = "ready"
                          /\ r.since # "counting" => Elapsed(r) = r
                          /\ Elapsed(r).state = r.state
                          /\ Elapsed(r).since = "unset" <=> r.since = "unset"
BY DEF NoRecord, Blank, Records, HeartbeatFromJob, Elapsed, Graces

(* publish sets the state and keeps draining_since.                        *)
LEMMA PublishSince ==
    ASSUME TypeOK, NEW j \in Jobs, NEW s \in RecordStates, Publish(j, s)
    PROVE  /\ rec'[j].since = rec[j].since /\ rec'[j].state = s
           /\ \A k \in Jobs \ {j} : rec'[k] = rec[k]
<1>1. HeartbeatFromJob(rec[j]) \in Records /\ HeartbeatFromJob(rec[j]).since = rec[j].since
  BY RecordFacts, RecordsSince DEF TypeOK
<1>2. /\ [HeartbeatFromJob(rec[j]) EXCEPT !.state = s].since = rec[j].since
      /\ [HeartbeatFromJob(rec[j]) EXCEPT !.state = s].state = s
  BY <1>1 DEF Records
<1>3. QED
  BY <1>2 DEF Publish, TypeOK

(* A cancel takes nothing back: what was not on its way up or serving is   *)
(* not afterwards, and what was serving is not any more.                   *)
LEMMA CancelEnds ==
    ASSUME TypeOK, NEW j \in Jobs, Cancel(j)
    PROVE  /\ \A k \in Jobs : job'[k] \in BringUp \cup {"none"} => job'[k] = job[k]
           /\ \A k \in Jobs : job[k] \notin BringUp \cup {"answering", "serving"} =>
                 job'[k] \notin BringUp \cup {"answering", "serving"}
           /\ job[j] \notin BringUp => job'[j] \notin BringUp \cup {"answering", "serving"}
           /\ \A k \in Jobs \ {j} : job'[k] = job[k]
           /\ \A k \in Jobs : beat'[k] \in {beat[k], NoRecord}
<1> PICK s \in Cancelled[job[j]] : job' = [job EXCEPT ![j] = s]
  BY DEF Cancel
<1>1. job[j] \in JobStates
  BY DEF TypeOK
<1>2. /\ s \in BringUp \cup {"none"} => s = job[j]
      /\ job[j] \notin BringUp => s \notin BringUp \cup {"answering", "serving"}
  BY <1>1 DEF Cancelled, JobStates, BringUp
<1>3. QED
  BY <1>2 DEF Cancel, TypeOK

(* The steps of the batch job: READY is published on the way up only,      *)
(* where nothing has been drained.                                         *)
LEMMA JobUnread ==
    ASSUME IInv, Unread, "overlap" \notin Faults, NEW j \in Jobs, JobProgress(j) \/ JobEvents(j)
    PROVE  /\ Unread'
           /\ \A k \in sup.live : Kept(k) => Kept(k)'
<1> USE RecordsSince DEF Unread, NoCopies, ReadyUndrained, BringUpsUndrained, Kept, BringUp
<1>0. TypeOK /\ BringUpsUnserved /\ DeadHeartbeats /\ FreeIdsForgotten /\ sup.live \subseteq Jobs
  BY DEF IInv, TypeOK, SupTypes
<1>a. \A k \in Jobs : Kept(k) => job[k] \notin BringUp
  BY <1>0 DEF BringUpsUnserved, Serving
<1>1. CASE SlurmStarts(j)
  BY <1>0, <1>a, <1>1 DEF SlurmStarts, Goto, TypeOK
<1>2. CASE PublishLoading(j)
  <2>1. /\ rec'[j].since = rec[j].since /\ rec'[j].state = "loading"
        /\ \A k \in Jobs \ {j} : rec'[k] = rec[k]
    <3>1. HeartbeatFromJob(rec[j]) \in Records /\ HeartbeatFromJob(rec[j]).since = rec[j].since
      BY <1>0, RecordFacts DEF TypeOK
    <3>2. /\ [HeartbeatFromJob(rec[j]) EXCEPT !.state = "loading", !.placed = TRUE].since = rec[j].since
          /\ [HeartbeatFromJob(rec[j]) EXCEPT !.state = "loading", !.placed = TRUE].state = "loading"
      BY <3>1 DEF Records
    <3>3. QED
      BY <1>0, <1>2, <3>2 DEF PublishLoading, TypeOK
  <2>2. QED
    BY <1>0, <1>a, <1>2, <2>1 DEF PublishLoading, Goto, TypeOK
<1>3. CASE EngineAnswers(j)
  <2>1. /\ rec'[j].since = rec[j].since
        /\ \A k \in Jobs \ {j} : rec'[k] = rec[k]
    BY <1>0, <1>3, PublishSince DEF EngineAnswers, RecordStates
  <2>2. QED
    BY <1>0, <1>a, <1>3, <2>1 DEF EngineAnswers, Goto, TypeOK
<1>4. CASE ResetFailures(j)
  BY <1>0, <1>4 DEF ResetFailures, Goto, TypeOK
<1>5. CASE BringUpFails(j)
  <2>1. /\ rec'[j].since = rec[j].since /\ rec'[j].state = "failed"
        /\ \A k \in Jobs \ {j} : rec'[k] = rec[k]
    BY <1>0, <1>5, PublishSince DEF BringUpFails, RecordStates
  <2>2. QED
    BY <1>0, <1>a, <1>5, <2>1 DEF BringUpFails, Goto, TypeOK
<1>6. CASE RecordFailure(j)
  BY <1>0, <1>6 DEF RecordFailure, Goto, TypeOK
<1>7. CASE CleanupPublish(j)
  <2>1. /\ rec'[j].since = rec[j].since /\ rec'[j].state = "draining"
        /\ \A k \in Jobs \ {j} : rec'[k] = rec[k]
    BY <1>0, <1>7, PublishSince DEF CleanupPublish, RecordStates
  <2>2. \A k \in Jobs \ {j} : job'[k] = job[k] /\ beat' = beat
    BY <1>0, <1>7 DEF CleanupPublish, Goto, TypeOK
  <2>3. job'[j] \in {"termEvict", "probeEvict", "exitEvict"} /\ beat' = beat
    BY <1>0, <1>7 DEF CleanupPublish, Goto, TypeOK
  <2>4. QED
    BY <1>0, <2>1, <2>2, <2>3
<1>8. CASE CleanupEvict(j)
  BY <1>0, <1>8 DEF CleanupEvict, Goto, TypeOK
<1>9. CASE JobLeaves(j)
  BY <1>0, <1>9 DEF JobLeaves, Goto, TypeOK
<1>10. CASE HeartbeatWrites(j)
  BY <1>10 DEF HeartbeatWrites
<1>11. CASE GraceElapses(j)
  BY <1>0, <1>11 DEF GraceElapses, TypeOK
<1>12. CASE Recycle(j)
  BY <1>0, <1>12 DEF Recycle, Goto, TypeOK
<1>13. CASE ScriptDies(j)
  BY <1>0, <1>a, <1>13 DEF ScriptDies, Goto, TypeOK
<1>14. CASE EngineExits(j)
  BY <1>0, <1>14 DEF EngineExits, Goto, TypeOK
<1>15. CASE NodeFails(j)
  BY <1>0, <1>15 DEF NodeFails, TypeOK
<1>16. CASE HeartbeatRecreates(j)
  BY <1>0, <1>16 DEF HeartbeatRecreates, jobVars, TypeOK
<1>17. CASE HeartbeatReads(j)
  BY <1>17 DEF HeartbeatReads, Fault
<1>18. CASE WallApproaches(j)
  BY <1>0, <1>18 DEF WallApproaches, TypeOK
<1>19. CASE TimeLimit(j)
  BY <1>0, <1>19, CancelEnds DEF TimeLimit
<1>20. QED
  BY <1>1, <1>2, <1>3, <1>4, <1>5, <1>6, <1>7, <1>8, <1>9, <1>10, <1>11, <1>12, <1>13,
     <1>14, <1>15, <1>16, <1>17, <1>18, <1>19 DEF JobProgress, JobEvents

(* A step that leaves records alone, or evicts the record of a job it      *)
(* cancels, and cancels at most.                                           *)
LEMMA CancelUnread ==
    ASSUME IInv, Unread, NEW j \in Jobs, Cancel(j),
           rec' = rec \/ rec' = [rec EXCEPT ![j] = NoRecord]
    PROVE  /\ Unread'
           /\ \A k \in Jobs : Kept(k) => Kept(k)'
<1> USE RecordsSince DEF Unread, NoCopies, ReadyUndrained, BringUpsUndrained
<1>1. TypeOK /\ BringUpsUnserved
  BY DEF IInv
<1>2. NoCopies'
  BY <1>1, CancelEnds
<1>3. ReadyUndrained' /\ BringUpsUndrained'
  BY <1>1, CancelEnds DEF TypeOK
<1>4. ASSUME NEW k \in Jobs, Kept(k)
      PROVE  Kept(k)'
  <2>1. job[k] \notin BringUp
    BY <1>1, <1>4 DEF Kept, BringUpsUnserved, Serving
  <2>2. CASE k = j
    <3>1. job'[k] \notin BringUp \cup {"answering", "serving"}
      BY <1>1, <2>1, <2>2, CancelEnds
    <3>2. rec'[k].since = "unset"
      BY <1>1, <1>4 DEF Kept, TypeOK
    <3>3. QED
      BY <3>1, <3>2 DEF Kept
  <2>3. CASE k # j
    BY <1>1, <1>4, <2>3, CancelEnds DEF Kept, TypeOK
  <2>4. QED
    BY <2>2, <2>3
<1>5. QED
  BY <1>2, <1>3, <1>4

(* A submission takes an id the tick does not remember.                    *)
LEMMA SubmitUnread ==
    ASSUME IInv, Unread, NEW j \in Jobs, Submit(j), rec' = rec
    PROVE  /\ Unread'
           /\ \A k \in sup.live : Kept(k) => Kept(k)'
<1>1. TypeOK /\ FreeIdsForgotten /\ sup.live \subseteq Jobs
  BY DEF IInv, TypeOK, SupTypes
<1>2. job[j] = "none" /\ beat' = beat /\ \A k \in Jobs \ {j} : job'[k] = job[k]
  BY <1>1 DEF Submit, Goto, TypeOK
<1>3. j \notin sup.live
  BY <1>1, <1>2 DEF FreeIdsForgotten
<1>4. QED
  BY <1>1, <1>2, <1>3 DEF Unread, NoCopies, ReadyUndrained, BringUpsUndrained, Kept

(* Jobs and operators leave the list of decisions and its snapshot alone.  *)
LEMMA OutsidersLeaveList ==
    ASSUME TypeOK, Operator \/ \E j \in Jobs : JobProgress(j) \/ JobEvents(j)
    PROVE  /\ sup'.pc = sup.pc /\ sup'.want = sup.want
           /\ sup'.todo = sup.todo /\ sup'.live = sup.live
<1>1. CASE Operator
  BY <1>1 DEF Operator, CliContinues, Wake, UpWakes, UpResets, UpSubmits, DownClearsDemand,
              DownListsRecords, DownRecord, DownListsJobs, DownJob, DownEnds
<1>2. ASSUME NEW j \in Jobs, JobProgress(j) \/ JobEvents(j)
      PROVE  /\ sup'.pc = sup.pc /\ sup'.want = sup.want
             /\ sup'.todo = sup.todo /\ sup'.live = sup.live
  <2>1. CASE Recycle(j)
    BY <2>1 DEF Recycle, TypeOK, SupTypes
  <2>2. CASE ~Recycle(j)
    BY <1>2, <2>2 DEF JobProgress, JobEvents, SlurmStarts, PublishLoading, EngineAnswers,
         ResetFailures, BringUpFails, RecordFailure, CleanupPublish, CleanupEvict, JobLeaves,
         HeartbeatWrites, GraceElapses, ScriptDies, EngineExits, NodeFails,
         HeartbeatRecreates, HeartbeatReads, WallApproaches, TimeLimit
  <2>3. QED
    BY <2>1, <2>2
<1>3. QED
  BY <1>1, <1>2

(* Jobs and operators keep HIInv, as the tick's list stays as it is.       *)
LEMMA OutsidersKeepHandoff ==
    ASSUME HIInv, "overlap" \notin Faults, IInv',
           Operator \/ \E j \in Jobs : JobProgress(j) \/ JobEvents(j)
    PROVE  HIInv'
<1>0. TypeOK /\ sup.live \subseteq Jobs
  BY DEF HIInv, IInv, TypeOK, SupTypes
<1>1. /\ sup'.pc = sup.pc /\ sup'.want = sup.want /\ sup'.todo = sup.todo /\ sup'.live = sup.live
  BY <1>0, OutsidersLeaveList
<1>2. Unread' /\ \A k \in sup.live : Kept(k) => Kept(k)'
  <2>1. CASE \E j \in Jobs : JobProgress(j) \/ JobEvents(j)
    BY <2>1, JobUnread DEF HIInv
  <2>2. CASE DownRecord \/ DownJob
    <3>1. PICK j \in cli.todo : /\ Cancel(j)
                                /\ rec' = rec \/ rec' = [rec EXCEPT ![j] = NoRecord]
      BY <2>2 DEF DownRecord, DownJob
    <3>2. j \in Jobs
      BY <1>0 DEF TypeOK, CliTypes
    <3>3. QED
      BY <1>0, <3>1, <3>2, CancelUnread DEF HIInv
  <2>3. CASE UpSubmits /\ \E j \in Jobs : Submit(j)
    BY <2>3, SubmitUnread DEF HIInv, UpSubmits
  <2>4. CASE /\ Operator
             /\ ~(DownRecord \/ DownJob \/ (UpSubmits /\ \E j \in Jobs : Submit(j)))
    <3>1. UNCHANGED <<job, rec, beat>>
      BY <2>4 DEF Operator, CliContinues, Wake, UpWakes, UpResets, UpSubmits, DownClearsDemand,
                  DownListsRecords, DownListsJobs, DownEnds, jobVars
    <3>2. QED
      BY <3>1 DEF HIInv, Unread, NoCopies, ReadyUndrained, BringUpsUndrained, Kept
  <2>5. QED
    BY <2>1, <2>2, <2>3, <2>4
<1>3. OneDrain' /\ LastKept'
  BY <1>1, <1>2 DEF HIInv, OneDrain, LastKept, Applying
<1>4. QED
  BY <1>2, <1>3 DEF HIInv

-----------------------------------------------------------------------------

(* decide drains for a handoff only when two backends are READY.           *)
LEMMA DecideDrains ==
    ASSUME NEW live \in SUBSET Jobs, NEW r \in [Jobs -> Records],
           NEW lw, NEW idle, NEW blocked, NEW oldest,
           NEW d \in Decide(1, live, r, lw, idle, blocked, oldest), d.action = "start_drain"
    PROVE  /\ d = Decision(3, "start_drain", oldest)
           /\ \E k \in Ready(live, r) : k # d.job
<1>1. d \in Surplus(1, live, r, oldest)
  BY DEF Decide, GraceCancels, ColdStart, Handoffs, Reaps, Decision
<1>2. d = Decision(3, "start_drain", oldest) /\ Cardinality(Ready(live, r)) > 1
  BY <1>1 DEF Surplus
<1> DEFINE R == Ready(live, r)
<1>3. Cardinality(R) # 0 /\ Cardinality(R) # 1
  BY <1>2
<1>4. R # {} /\ \A x : R # {x}
  <2> HIDE DEF R
  <2> QED
    BY <1>3, FS_EmptySet, FS_Singleton
<1>5. PICK k \in R : k # d.job
  <2> HIDE DEF R
  <2> QED
    BY <1>4
<1>6. QED
  BY <1>2, <1>5

LEMMA DecideKeepsHandoff ==
    ASSUME HIInv, IInv', DecideTick
    PROVE  HIInv'
<1>1. PICK idle, oldest : sup' = [sup EXCEPT !.pc = "apply", !.todo =
                            Decide(sup.want, sup.live, rec, low, idle,
                                   fails >= MaxConsecutive, oldest)]
  BY DEF DecideTick
<1>2. /\ sup.live \in SUBSET Jobs /\ rec \in [Jobs -> Records]
      /\ sup'.want = sup.want /\ sup'.live = sup.live
      /\ sup'.todo = Decide(sup.want, sup.live, rec, low, idle, fails >= MaxConsecutive, oldest)
  BY <1>1 DEF HIInv, IInv, TypeOK, SupTypes
<1>3. UNCHANGED <<job, rec, beat>>
  BY DEF DecideTick, jobVars
<1>4. Unread'
  BY <1>3 DEF HIInv, Unread, NoCopies, ReadyUndrained, BringUpsUndrained
<1>5. ASSUME sup.want = 1, NEW d \in sup'.todo, d.action = "start_drain"
      PROVE  /\ d = Decision(3, "start_drain", oldest)
             /\ \E k \in Ready(sup.live, rec) : k # d.job
  BY <1>2, <1>5, DecideDrains
<1>6. OneDrain'
  BY <1>2, <1>5 DEF OneDrain
<1>7. \A k \in Ready(sup.live, rec) : k \in sup.live /\ Kept(k)'
  BY <1>2, <1>3 DEF HIInv, Unread, ReadyUndrained, Ready, InState, Kept
<1>8. LastKept'
  BY <1>2, <1>5, <1>7 DEF LastKept
<1>9. QED
  BY <1>4, <1>6, <1>8 DEF HIInv

(* apply: a list that only shrinks keeps its one drain and who makes up.   *)
LEMMA ListKept ==
    ASSUME HIInv, IInv', Unread', \A k \in sup.live : Kept(k) => Kept(k)',
           Applying, sup'.todo \subseteq sup.todo, sup'.live = sup.live, sup'.want = sup.want
    PROVE  HIInv'
BY DEF HIInv, OneDrain, LastKept

LEMMA ApplyKeepsHandoff ==
    ASSUME HIInv, IInv',
           \/ ApplyStartDrain \/ ApplyCancel \/ ApplyReap \/ ReapClearsDemand
           \/ ApplyBlocked \/ ApplyLaunch \/ PreflightFails \/ SubmitFails
           \/ CancelFails
           \/ \E j \in Jobs : SupSubmits(j)
    PROVE  HIInv'
<1>0. TypeOK /\ IInv /\ sup.live \subseteq Jobs
  BY DEF HIInv, IInv, TypeOK, SupTypes
<1>1. CASE ApplyStartDrain
  <2>1. PICK d \in Head :
          /\ Take(d, {"start_drain"}, "apply")
          /\ rec' = [rec EXCEPT ![d.job] =
                       [HeartbeatFromJob(@) EXCEPT !.state = "draining", !.since = "counting"]]
          /\ UNCHANGED <<jobVars, desired, fails, faults, cli, auto>>
    BY <1>1 DEF ApplyStartDrain
  <2>2. /\ sup.pc = "apply" /\ d \in sup.todo /\ d.action = "start_drain"
        /\ sup'.todo = sup.todo \ {d} /\ sup'.want = sup.want
    BY <1>0, <2>1 DEF Take, Head, TypeOK, SupTypes
  <2>3. d.job \in Jobs /\ job[d.job] \notin BringUp \cup {"none"}
    BY <1>0, <2>2 DEF IInv, TouchesServedOnly, TodoByPhase, Applying, Decisions, ModelActions
  <2>4. rec'[d.job].state = "draining" /\ \A k \in Jobs \ {d.job} : rec'[k] = rec[k]
    <3>1. HeartbeatFromJob(rec[d.job]) \in Records
      BY <1>0, <2>3, RecordFacts DEF TypeOK
    <3>2. [HeartbeatFromJob(rec[d.job]) EXCEPT !.state = "draining", !.since = "counting"].state = "draining"
      BY <3>1 DEF Records
    <3>3. QED
      BY <1>0, <2>1, <2>3, <3>2 DEF TypeOK
  <2>5. Unread'
    BY <2>1, <2>3, <2>4 DEF HIInv, Unread, NoCopies, ReadyUndrained, BringUpsUndrained, jobVars
  <2>6. sup.want = 1 => \A e \in sup'.todo : e.action # "start_drain"
    BY <2>2 DEF HIInv, OneDrain, Applying
  <2>7. QED
    BY <2>2, <2>5, <2>6 DEF HIInv, OneDrain, LastKept
<1>2. CASE ApplyCancel \/ ApplyReap
  <2>1. PICK d \in Head, acts \in {{"cancel"}, {"reap_idle"}}, pc \in {"apply", "reap"} :
          Take(d, acts, pc) /\ Cancel(d.job) /\ rec' = rec
    BY <1>2 DEF ApplyCancel, ApplyReap
  <2>2. /\ sup.pc = "apply" /\ sup'.todo \subseteq sup.todo
        /\ sup'.live = sup.live /\ sup'.want = sup.want
    BY <1>0, <2>1, TakeShrinks
  <2>3. d \in Decisions /\ d.action \in {"cancel", "reap_idle"}
    BY <1>0, <2>1, <2>2 DEF Take, Head, IInv, TodoByPhase, Applying
  <2>4. d.job \in Jobs
    BY <2>3 DEF Decisions, ModelActions
  <2>5. Unread' /\ \A k \in sup.live : Kept(k) => Kept(k)'
    BY <1>0, <2>1, <2>4, CancelUnread DEF HIInv
  <2>6. QED
    BY <2>2, <2>5, ListKept DEF Applying
<1>3. ASSUME NEW j \in Jobs, SupSubmits(j)
      PROVE  HIInv'
  <2>1. /\ sup.pc = "submit" /\ sup'.todo = sup.todo
        /\ sup'.live = sup.live /\ sup'.want = sup.want
    BY <1>0, <1>3 DEF SupSubmits, TypeOK, SupTypes
  <2>2. Unread' /\ \A k \in sup.live : Kept(k) => Kept(k)'
    BY <1>3, SubmitUnread DEF HIInv, SupSubmits
  <2>3. QED
    BY <2>1, <2>2, ListKept DEF Applying
<1>4. CASE ReapClearsDemand \/ ApplyBlocked \/ ApplyLaunch \/ PreflightFails \/ SubmitFails \/ CancelFails
  <2>1. UNCHANGED <<job, rec, beat>>
    BY <1>4 DEF ReapClearsDemand, ApplyBlocked, ApplyLaunch, PreflightFails, SubmitFails,
                CancelFails, jobVars
  <2>2. Unread' /\ \A k \in sup.live : Kept(k) => Kept(k)'
    BY <2>1 DEF HIInv, Unread, NoCopies, ReadyUndrained, BringUpsUndrained, Kept
  <2>3. /\ sup.pc \in {"apply", "reap", "submit"} /\ sup'.todo \subseteq sup.todo
        /\ sup'.live = sup.live /\ sup'.want = sup.want
    <3>1. CASE ReapClearsDemand \/ SubmitFails
      BY <1>0, <3>1 DEF ReapClearsDemand, SubmitFails, SupGoto, TypeOK, SupTypes
    <3>2. CASE ApplyBlocked
      BY <1>0, <3>2, TakeShrinks DEF ApplyBlocked
    <3>3. CASE ApplyLaunch
      BY <1>0, <3>3, TakeShrinks DEF ApplyLaunch
    <3>4. CASE PreflightFails
      BY <1>0, <3>4, TakeShrinks DEF PreflightFails
    <3>5. CASE CancelFails
      BY <1>0, <3>5, TakeShrinks DEF CancelFails
    <3>6. QED
      BY <1>4, <3>1, <3>2, <3>3, <3>4, <3>5
  <2>4. QED
    BY <2>2, <2>3, ListKept DEF Applying
<1>5. QED
  BY <1>1, <1>2, <1>3, <1>4

(* The rest of the tick: nothing is left in the list, or not yet.          *)
LEMMA RestEmptiesList ==
    ASSUME IInv,
           \/ RefreshRead \/ RefreshPoll \/ ReadDemand \/ ListJobs \/ ListJobsFails
           \/ SweepList \/ SweepListFails \/ Sweep \/ SupCrashes \/ SupRestarts
    PROVE  Applying' => sup'.todo = {}
<1>0. TypeOK
  BY DEF IInv
<1>1. CASE ListJobsFails
  BY <1>0, <1>1 DEF ListJobsFails, SupGoto, IInv, TodoByPhase, TypeOK, SupTypes
<1>2. CASE RefreshRead \/ ReadDemand
  BY <1>0, <1>2 DEF RefreshRead, ReadDemand, Applying, TypeOK, SupTypes
<1>3. CASE RefreshPoll
  BY <1>0, <1>3 DEF RefreshPoll, PollSkipped, PollQuiet, PollActive, Done, Applying, TypeOK, SupTypes
<1>4. CASE ListJobs \/ SweepList \/ SupRestarts
  BY <1>0, <1>4 DEF ListJobs, SweepList, SupRestarts, SupGoto, Applying, TypeOK, SupTypes
<1>5. CASE Sweep \/ SweepListFails \/ SupCrashes
  BY <1>5 DEF Sweep, SweepListFails, SupCrashes, TickStart, Applying
<1>6. QED
  BY <1>1, <1>2, <1>3, <1>4, <1>5

(* So the rest of the tick keeps HIInv: it makes nothing READY.            *)
LEMMA RestKeepsHandoff ==
    ASSUME HIInv, IInv',
           \/ RefreshRead \/ RefreshPoll \/ ReadDemand \/ ListJobs \/ ListJobsFails
           \/ SweepList \/ SweepListFails \/ Sweep \/ SupCrashes \/ SupRestarts
    PROVE  HIInv'
<1>0. TypeOK /\ IInv
  BY DEF HIInv, IInv
<1>1. Applying' => sup'.todo = {}
  BY <1>0, RestEmptiesList
<1>2. Unread'
  <2> USE RecordsSince DEF Unread, NoCopies, ReadyUndrained, BringUpsUndrained
  <2>1. CASE RefreshPoll
    <3>1. PICK d \in sup.todo : PollSkipped(d) \/ PollQuiet(d) \/ PollActive(d)
      BY <2>1 DEF RefreshPoll
    <3>2. CASE PollSkipped(d)
      BY <3>2 DEF HIInv, PollSkipped, jobVars
    <3>3. CASE PollQuiet(d)
      <4>1. d.job \in Jobs
        BY <1>0, <3>3 DEF PollQuiet, TypeOK, SupTypes, Decisions, JobActions, ModelActions,
                          Polls, Decision
      <4>2. QED
        BY <1>0, <3>3, <4>1, CancelUnread DEF HIInv, PollQuiet
    <3>4. CASE PollActive(d)
      <4>1. /\ job' = job /\ beat' = beat
            /\ \A k \in Jobs : rec'[k] \in {rec[k], HeartbeatFromJob(rec[k])}
        BY <1>0, <3>4 DEF PollActive, TypeOK, jobVars
      <4>2. \A k \in Jobs : /\ rec'[k].since = rec[k].since
                            /\ rec'[k].state = "ready" => rec[k].state = "ready"
        BY <1>0, <4>1 DEF TypeOK
      <4>3. QED
        BY <4>1, <4>2 DEF HIInv
    <3>5. QED
      BY <3>1, <3>2, <3>3, <3>4
  <2>2. CASE Sweep
    <3>1. job' = job /\ beat' = beat /\ \A k \in Jobs : rec'[k] \in {rec[k], NoRecord}
      BY <2>2 DEF Sweep, jobVars
    <3>2. QED
      BY <3>1 DEF HIInv
  <2>3. CASE ~(RefreshPoll \/ Sweep)
    <3>1. UNCHANGED <<job, rec, beat>>
      BY <2>3 DEF RefreshRead, ReadDemand, ListJobs, ListJobsFails, SweepList, SweepListFails,
                  SupCrashes, SupRestarts, jobVars
    <3>2. QED
      BY <3>1 DEF HIInv
  <2>4. QED
    BY <2>1, <2>2, <2>3
<1>3. QED
  BY <1>1, <1>2 DEF HIInv, OneDrain, LastKept

(* docs/architecture.md: the incumbent is drained only when a successor is *)
(* up.  For every set of jobs, every command and every fault but an        *)
(* overlapping heartbeat: another backend of the list's snapshot is READY, *)
(* undrained, or has ended by itself since.                                *)
THEOREM DrainKeepsOne ==
    ASSUME "overlap" \notin Faults
    PROVE  Spec => []HandoffKeepsOne
<1>1. Init => Unread /\ OneDrain /\ LastKept
  BY RecordsSince DEF Init, TickStart, Unread, NoCopies, ReadyUndrained, BringUpsUndrained,
                      OneDrain, LastKept, Applying
<1>2. IInv /\ IInv' /\ Unread /\ OneDrain /\ LastKept /\ [Next]_vars
        => (Unread /\ OneDrain /\ LastKept)'
  <2> SUFFICES ASSUME HIInv, IInv', [Next]_vars PROVE HIInv'
    BY DEF HIInv
  <2>1. CASE UNCHANGED vars
    BY <2>1 DEF vars, HIInv, Unread, NoCopies, ReadyUndrained, BringUpsUndrained, OneDrain,
                LastKept, Kept, Applying
  <2>2. CASE Next
    BY <2>2, OutsidersKeepHandoff, DecideKeepsHandoff, ApplyKeepsHandoff, RestKeepsHandoff
       DEF Next, Supervisor, SupervisorFaults
  <2>3. QED
    BY <2>1, <2>2
<1>3. LastKept => HandoffKeepsOne
  BY DEF LastKept, HandoffKeepsOne, Applying, Kept
<1>4. QED
  BY <1>1, <1>2, <1>3, Inductive, PTL DEF Spec
-----------------------------------------------------------------------------
(* The refinement of Lifecycle, job by job.                                *)

NotYetReady == {"none", "queued", "loading"}

\* A cancel that interrupts the readiness probe: the job goes on, and fails.
Probed == {"probeTerm", "probeEvict", "probed"}

\* No record is ahead of what its job is about to publish.
RecordsBehind ==
    \A j \in Jobs :
        /\ job[j] \in {"none", "queued", "started"} => rec[j].state \in {"none", "queued"}
        /\ job[j] \in {"loading", "probeTerm", "probed"} => rec[j].state \in NotYetReady
        /\ job[j] = "probeEvict" => rec[j].state # "ready"

\* Nor will the supervisor drain a job that may still publish FAILED.
DrainsAnswered ==
    Applying => \A d \in sup.todo : d.action = "start_drain" => job[d.job] \notin Probed

BIInv == NoCopies /\ RecordsBehind /\ DrainsAnswered

\* How a state may follow another: the steps of Lifecycle, spelled out.
Forward(s, t) ==
    \/ t \in {s, "none", "draining"}
    \/ t = "queued" /\ s = "none"
    \/ t = "loading" /\ s \in {"none", "queued"}
    \/ t \in {"ready", "failed"} /\ s \in NotYetReady

RecordsForward == \A k \in Jobs : Forward(rec[k].state, rec'[k].state)

\* What a step does to the jobs leaves the decisions to drain as they should be.
ProbesNoOther == \A k \in Jobs : job'[k] \in Probed => job[k] \in Probed \cup {"loading"}

BehindKept == NoCopies' /\ RecordsBehind' /\ RecordsForward /\ ProbesNoOther

LEMMA ForwardIsLife ==
    ASSUME NEW j \in Jobs, rec[j].state \in RecordStates, Forward(rec[j].state, rec'[j].state)
    PROVE  [Life(j)!Next]_(rec[j].state)
BY DEF RecordStates, Forward, NotYetReady, Life!Next, Life!Advance, Life!Evict, Life!Order

(* heartbeat_from_job changes no state but that of a missing record.       *)
LEMMA HeartbeatForward ==
    ASSUME NEW r \in Records
    PROVE  /\ HeartbeatFromJob(r).state \in {r.state, "queued"}
           /\ HeartbeatFromJob(r).state # r.state => r.state = "none"
BY DEF HeartbeatFromJob, NoRecord, Blank, Records

LEMMA CancelProbes ==
    ASSUME TypeOK, NEW j \in Jobs, Cancel(j)
    PROVE  /\ \A k \in Jobs : job'[k] \in {job[k], "gone", "term", "probeTerm"}
           /\ \A k \in Jobs : job'[k] = "probeTerm" => job[k] \in {"probeTerm", "loading"}
           /\ \A k \in Jobs : beat'[k] \in {beat[k], NoRecord}
<1> PICK s \in Cancelled[job[j]] : job' = [job EXCEPT ![j] = s]
  BY DEF Cancel
<1>1. job[j] \in JobStates
  BY DEF TypeOK
<1>2. /\ s \in {job[j], "gone", "term", "probeTerm"}
      /\ s = "probeTerm" => job[j] \in {"probeTerm", "loading"}
  BY <1>1 DEF Cancelled, JobStates
<1>3. QED
  BY <1>2 DEF Cancel, TypeOK

(* A cancel, with the record it may evict.                                 *)
LEMMA CancelForward ==
    ASSUME TypeOK, BIInv, NEW j \in Jobs, Cancel(j),
           rec' = rec \/ rec' = [rec EXCEPT ![j] = NoRecord]
    PROVE  BehindKept
<1>1. \A k \in Jobs : rec'[k] \in {rec[k], NoRecord}
  BY DEF TypeOK
<1>2. NoRecord.state = "none"
  BY DEF NoRecord
<1>3. NoCopies'
  BY CancelProbes DEF BIInv, NoCopies
<1>4. RecordsBehind'
  BY <1>1, <1>2, CancelProbes DEF BIInv, RecordsBehind, NotYetReady
<1>5. RecordsForward
  BY <1>1, <1>2 DEF RecordsForward, Forward
<1>6. ProbesNoOther
  BY CancelProbes DEF ProbesNoOther, Probed
<1>7. QED
  BY <1>3, <1>4, <1>5, <1>6 DEF BehindKept

(* A step of the script by which one job goes on, with what it publishes.  *)
LEMMA ScriptForward ==
    ASSUME TypeOK, BIInv, NEW j \in Jobs, beat' = beat \/ beat' = [beat EXCEPT ![j] = NoRecord],
           \A k \in Jobs \ {j} : job'[k] = job[k] /\ rec'[k] = rec[k],
           Forward(rec[j].state, rec'[j].state),
           job'[j] \in {"none", "queued", "started"} => rec'[j].state \in {"none", "queued"},
           job'[j] \in {"loading", "probeTerm", "probed"} => rec'[j].state \in NotYetReady,
           job'[j] = "probeEvict" => rec'[j].state # "ready",
           job'[j] \in Probed => job[j] \in Probed \cup {"loading"}
    PROVE  BehindKept
<1>1. NoCopies'
  BY DEF BIInv, NoCopies, TypeOK
<1>2. RecordsBehind'
  BY DEF BIInv, RecordsBehind
<1>3. RecordsForward
  BY DEF RecordsForward, Forward
<1>4. ProbesNoOther
  BY DEF ProbesNoOther
<1>5. QED
  BY <1>1, <1>2, <1>3, <1>4 DEF BehindKept

LEMMA JobForward ==
    ASSUME IInv, BIInv, "overlap" \notin Faults, NEW j \in Jobs, JobProgress(j) \/ JobEvents(j)
    PROVE  BehindKept
<1>0. TypeOK /\ DeadHeartbeats
  BY DEF IInv
<1>a. /\ job[j] \in {"none", "queued", "started"} => rec[j].state \in {"none", "queued"}
      /\ job[j] \in {"loading", "probeTerm", "probed"} => rec[j].state \in NotYetReady
      /\ job[j] = "probeEvict" => rec[j].state # "ready"
  BY DEF BIInv, RecordsBehind
<1>b. Forward(rec[j].state, rec[j].state)
  BY DEF Forward
<1>1. CASE SlurmStarts(j)
  BY <1>0, <1>a, <1>b, <1>1, ScriptForward DEF SlurmStarts, Goto, TypeOK, Probed
<1>2. CASE PublishLoading(j)
  <2>1. HeartbeatFromJob(rec[j]) \in Records
    BY <1>0, RecordFacts DEF TypeOK
  <2>2. [HeartbeatFromJob(rec[j]) EXCEPT !.state = "loading", !.placed = TRUE].state = "loading"
    BY <2>1 DEF Records
  <2>3. /\ rec'[j].state = "loading" /\ job[j] = "started" /\ job'[j] = "loading" /\ beat' = beat
        /\ \A k \in Jobs \ {j} : job'[k] = job[k] /\ rec'[k] = rec[k]
    BY <1>0, <1>2, <2>2 DEF PublishLoading, Goto, TypeOK
  <2>4. QED
    BY <1>0, <1>a, <2>3, ScriptForward DEF Forward, NotYetReady, Probed
<1>3. CASE EngineAnswers(j)
  <2>1. /\ rec'[j].state = "ready" /\ \A k \in Jobs \ {j} : rec'[k] = rec[k]
    BY <1>0, <1>3, PublishSince DEF EngineAnswers, RecordStates
  <2>2. /\ job[j] = "loading" /\ job'[j] = "answering" /\ beat' = beat
        /\ \A k \in Jobs \ {j} : job'[k] = job[k]
    BY <1>0, <1>3 DEF EngineAnswers, Goto, TypeOK
  <2>3. QED
    BY <1>0, <1>a, <2>1, <2>2, ScriptForward DEF Forward, Probed
<1>4. CASE ResetFailures(j) \/ RecordFailure(j) \/ ScriptDies(j) \/ EngineExits(j) \/ JobLeaves(j)
           \/ NodeFails(j)
  <2>1. /\ rec' = rec /\ (beat' = beat \/ beat' = [beat EXCEPT ![j] = NoRecord])
        /\ job'[j] \in {"serving", "exit", "gone"} /\ \A k \in Jobs \ {j} : job'[k] = job[k]
    BY <1>0, <1>4 DEF ResetFailures, RecordFailure, ScriptDies, EngineExits, JobLeaves, NodeFails,
                      Goto, TypeOK
  <2>2. QED
    BY <1>0, <1>b, <2>1, ScriptForward DEF Probed
<1>5. CASE BringUpFails(j)
  <2>1. /\ rec'[j].state = "failed" /\ \A k \in Jobs \ {j} : rec'[k] = rec[k]
    BY <1>0, <1>5, PublishSince DEF BringUpFails, RecordStates
  <2>2. /\ job[j] \in {"loading", "probed"} /\ job'[j] \in {"failing", "probeFailing"} /\ beat' = beat
        /\ \A k \in Jobs \ {j} : job'[k] = job[k]
    BY <1>0, <1>5 DEF BringUpFails, Goto, TypeOK
  <2>3. QED
    BY <1>0, <1>a, <2>1, <2>2, ScriptForward DEF Forward, Probed
<1>6. CASE CleanupPublish(j)
  <2>1. /\ rec'[j].state = "draining" /\ \A k \in Jobs \ {j} : rec'[k] = rec[k]
    BY <1>0, <1>6, PublishSince DEF CleanupPublish, RecordStates
  <2>2. /\ job'[j] \in {"termEvict", "probeEvict", "exitEvict"} /\ beat' = beat
        /\ job'[j] = "probeEvict" => job[j] = "probeTerm"
        /\ \A k \in Jobs \ {j} : job'[k] = job[k]
    BY <1>0, <1>6 DEF CleanupPublish, Goto, TypeOK
  <2>3. QED
    BY <1>0, <2>1, <2>2, ScriptForward DEF Forward, Probed
<1>7. CASE CleanupEvict(j)
  <2>1. /\ rec'[j].state = "none" /\ \A k \in Jobs \ {j} : rec'[k] = rec[k]
    BY <1>0, <1>7 DEF CleanupEvict, TypeOK, NoRecord
  <2>2. /\ job'[j] \in {"exit", "probed", "done"} /\ beat' = beat
        /\ job'[j] = "probed" => job[j] = "probeEvict"
        /\ \A k \in Jobs \ {j} : job'[k] = job[k]
    BY <1>0, <1>7 DEF CleanupEvict, Goto, TypeOK
  <2>3. QED
    BY <1>0, <2>1, <2>2, ScriptForward DEF Forward, Probed, NotYetReady
<1>8. CASE HeartbeatWrites(j) \/ HeartbeatReads(j)
  BY <1>8 DEF HeartbeatWrites, HeartbeatReads, Fault, BIInv, NoCopies
<1>9. CASE GraceElapses(j)
  <2>1. /\ job' = job /\ beat'[j] = beat[j] /\ \A k \in Jobs \ {j} : rec'[k] = rec[k] /\ beat'[k] = beat[k]
        /\ rec'[j].state = rec[j].state
    BY <1>0, <1>9, RecordsSince DEF GraceElapses, TypeOK, BIInv, NoCopies
  <2>2. beat' = beat
    BY <1>0, <1>9, <2>1 DEF GraceElapses, TypeOK
  <2>3. QED
    BY <1>0, <1>a, <1>b, <2>1, <2>2, ScriptForward
<1>10. CASE Recycle(j)
  <2>1. /\ rec' = rec /\ beat' = beat /\ job'[j] = "none" /\ rec[j].state = "none"
        /\ \A k \in Jobs \ {j} : job'[k] = job[k]
    BY <1>0, <1>10 DEF Recycle, Goto, TypeOK, NoRecord
  <2>2. QED
    BY <1>0, <1>b, <2>1, ScriptForward DEF Probed
<1>11. CASE HeartbeatRecreates(j)
  <2>1. /\ job' = job /\ beat' = beat /\ rec[j].state = "none" /\ rec'[j].state = "queued"
        /\ \A k \in Jobs \ {j} : rec'[k] = rec[k]
    BY <1>0, <1>11 DEF HeartbeatRecreates, jobVars, TypeOK, NoRecord, Blank
  <2>2. QED
    BY <1>0, <2>1, ScriptForward DEF Forward, NotYetReady, Probed
<1>12. CASE WallApproaches(j)
  BY <1>0, <1>a, <1>b, <1>12, ScriptForward DEF WallApproaches, Probed
<1>13. CASE TimeLimit(j)
  BY <1>0, <1>13, CancelForward DEF TimeLimit
<1>14. QED
  BY <1>1, <1>2, <1>3, <1>4, <1>5, <1>6, <1>7, <1>8, <1>9, <1>10, <1>11, <1>12, <1>13
     DEF JobProgress, JobEvents
(* A step that moves no job and drains only what has answered.             *)
LEMMA RecordsStepForward ==
    ASSUME TypeOK, BIInv, job' = job, beat' = beat,
           \A k \in Jobs :
              \/ rec'[k].state \in {rec[k].state, "none"}
              \/ rec[k].state = "none" /\ rec'[k].state = "queued"
              \/ rec'[k].state = "draining" /\ job[k] \notin BringUp \cup {"none"} \cup Probed
    PROVE  BehindKept
<1>1. NoCopies'
  BY DEF BIInv, NoCopies
<1>2. RecordsBehind'
  BY DEF BIInv, RecordsBehind, NotYetReady, BringUp, Probed
<1>3. RecordsForward
  BY DEF RecordsForward, Forward
<1>4. ProbesNoOther
  BY DEF ProbesNoOther
<1>5. QED
  BY <1>1, <1>2, <1>3, <1>4 DEF BehindKept

LEMMA SubmitForward ==
    ASSUME TypeOK, BIInv, NEW j \in Jobs, Submit(j), rec' = rec
    PROVE  BehindKept
<1>1. /\ job[j] = "none" /\ job'[j] = "queued" /\ beat' = beat
      /\ \A k \in Jobs \ {j} : job'[k] = job[k] /\ rec'[k] = rec[k]
  BY DEF Submit, Goto, TypeOK
<1>2. rec'[j].state \in {"none", "queued"} /\ Forward(rec[j].state, rec'[j].state)
  BY <1>1 DEF BIInv, RecordsBehind, Forward
<1>3. QED
  BY <1>1, <1>2, ScriptForward DEF Probed

(* What the list still wants drained is no bring-up, so it probes nothing. *)
LEMMA DrainsKept ==
    ASSUME IInv, BIInv, BehindKept, Applying' => Applying /\ sup'.todo \subseteq sup.todo
    PROVE  BIInv'
<1>1. ASSUME Applying', NEW d \in sup'.todo, d.action = "start_drain"
      PROVE  job'[d.job] \notin Probed
  <2>1. Applying /\ d \in sup.todo
    BY <1>1
  <2>2. job[d.job] \notin Probed \cup {"loading"} /\ d.job \in Jobs
    BY <1>1, <2>1 DEF BIInv, DrainsAnswered, IInv, TouchesServedOnly, TodoByPhase, BringUp,
                      Decisions, ModelActions
  <2>3. QED
    BY <2>2 DEF BehindKept, ProbesNoOther
<1>2. DrainsAnswered'
  BY <1>1 DEF DrainsAnswered
<1>3. QED
  BY <1>2 DEF BehindKept, BIInv

LEMMA OutsidersForward ==
    ASSUME IInv, BIInv, "overlap" \notin Faults,
           Operator \/ \E j \in Jobs : JobProgress(j) \/ JobEvents(j)
    PROVE  BIInv' /\ RecordsForward
<1>0. TypeOK
  BY DEF IInv
<1>1. BehindKept
  <2>1. CASE \E j \in Jobs : JobProgress(j) \/ JobEvents(j)
    BY <2>1, JobForward
  <2>2. CASE DownRecord \/ DownJob
    <3>1. PICK j \in cli.todo : /\ Cancel(j)
                                /\ rec' = rec \/ rec' = [rec EXCEPT ![j] = NoRecord]
      BY <2>2 DEF DownRecord, DownJob
    <3>2. j \in Jobs
      BY <1>0 DEF TypeOK, CliTypes
    <3>3. QED
      BY <1>0, <3>1, <3>2, CancelForward
  <2>3. CASE UpSubmits /\ \E j \in Jobs : Submit(j)
    BY <1>0, <2>3, SubmitForward DEF UpSubmits
  <2>4. CASE /\ Operator
             /\ ~(DownRecord \/ DownJob \/ (UpSubmits /\ \E j \in Jobs : Submit(j)))
    <3>1. UNCHANGED <<job, rec, beat>>
      BY <2>4 DEF Operator, CliContinues, Wake, UpWakes, UpResets, UpSubmits, DownClearsDemand,
                  DownListsRecords, DownListsJobs, DownEnds, jobVars
    <3>2. QED
      BY <1>0, <3>1, RecordsStepForward
  <2>5. QED
    BY <2>1, <2>2, <2>3, <2>4
<1>2. Applying' => Applying /\ sup'.todo \subseteq sup.todo
  BY <1>0, OutsidersLeaveList DEF Applying
<1>3. QED
  BY <1>1, <1>2, DrainsKept DEF BehindKept

(* decide drains what is READY, and nothing that is READY is being probed. *)
LEMMA DecideForward ==
    ASSUME IInv, BIInv, DecideTick
    PROVE  BIInv' /\ RecordsForward
<1>0. TypeOK
  BY DEF IInv
<1>a. sup.want \in {0, 1} /\ sup.live \in SUBSET Jobs /\ rec \in [Jobs -> Records]
  BY <1>0 DEF TypeOK, SupTypes
<1>1. PICK idle \in SUBSET Ready(sup.live, rec),
           oldest \in Oldest(sup.live, rec, low) \cup {NoJob} :
        /\ oldest = NoJob => Ready(sup.live, rec) = {}
        /\ sup' = [sup EXCEPT !.pc = "apply", !.todo =
                     Decide(sup.want, sup.live, rec, low, idle,
                            fails >= MaxConsecutive, oldest)]
  BY DEF DecideTick
<1>2. sup'.todo = Decide(sup.want, sup.live, rec, low, idle, fails >= MaxConsecutive, oldest)
  BY <1>0, <1>1 DEF TypeOK, SupTypes
<1>3. UNCHANGED <<job, rec, beat>>
  BY DEF DecideTick, jobVars
<1>4. \A d \in sup'.todo : d.action = "start_drain" => d.job \in Ready(sup.live, rec)
  <2> DEFINE blocked == fails >= MaxConsecutive
  <2>1. blocked \in BOOLEAN /\ (oldest = NoJob => Ready(sup.live, rec) = {})
    BY <1>0, <1>1, ReconcileAssumption DEF TypeOK
  <2>2. sup'.todo = Decide(sup.want, sup.live, rec, low, idle, blocked, oldest)
    BY <1>2
  <2> HIDE DEF blocked
  <2>3. TAKE d \in sup'.todo
  <2>4. d \in Decide(sup.want, sup.live, rec, low, idle, blocked, oldest)
    BY <2>2
  <2>5. QED
    BY <1>a, <2>1, <2>4, DecideFacts
<1>5. BehindKept
  BY <1>0, <1>3, RecordsStepForward
<1>6. ASSUME NEW d \in sup'.todo, d.action = "start_drain"
      PROVE  job'[d.job] \notin Probed
  <2>1. d.job \in Ready(sup.live, rec)
    BY <1>2, <1>4, <1>6
  <2>2. d.job \in Jobs /\ rec[d.job].state = "ready"
    BY <1>a, <2>1 DEF Ready, InState
  <2>3. QED
    BY <1>3, <2>2 DEF BIInv, RecordsBehind, NotYetReady, Probed
<1>7. QED
  BY <1>5, <1>6 DEF BIInv, BehindKept, DrainsAnswered

(* apply writes DRAINING over a job that was READY and serves no more, at  *)
(* the worst.                                                              *)
LEMMA ApplyForward ==
    ASSUME IInv, BIInv,
           \/ ApplyStartDrain \/ ApplyCancel \/ ApplyReap \/ ReapClearsDemand
           \/ ApplyBlocked \/ ApplyLaunch \/ PreflightFails \/ SubmitFails
           \/ CancelFails
           \/ \E j \in Jobs : SupSubmits(j)
    PROVE  BIInv' /\ RecordsForward
<1>0. TypeOK
  BY DEF IInv
<1>1. Applying /\ sup'.todo \subseteq sup.todo
  <2>1. CASE ReapClearsDemand \/ SubmitFails
    BY <1>0, <2>1 DEF ReapClearsDemand, SubmitFails, SupGoto, Applying, TypeOK, SupTypes
  <2>2. CASE \E j \in Jobs : SupSubmits(j)
    BY <1>0, <2>2 DEF SupSubmits, Applying, TypeOK, SupTypes
  <2>3. CASE \/ ApplyStartDrain \/ ApplyCancel \/ ApplyReap \/ ApplyBlocked
             \/ ApplyLaunch \/ PreflightFails \/ CancelFails
    <3>1. CASE ApplyStartDrain \/ ApplyBlocked
      BY <1>0, <3>1, TakeShrinks DEF ApplyStartDrain, ApplyBlocked, Applying
    <3>2. CASE ApplyCancel \/ ApplyReap \/ CancelFails
      BY <1>0, <3>2, TakeShrinks DEF ApplyCancel, ApplyReap, CancelFails, Applying
    <3>3. CASE ApplyLaunch \/ PreflightFails
      BY <1>0, <3>3, TakeShrinks DEF ApplyLaunch, PreflightFails, Applying
    <3>4. QED
      BY <2>3, <3>1, <3>2, <3>3
  <2>4. QED
    BY <2>1, <2>2, <2>3
<1>2. BehindKept
  <2>1. CASE ApplyStartDrain
    <3>1. PICK d \in Head :
            /\ Take(d, {"start_drain"}, "apply")
            /\ rec' = [rec EXCEPT ![d.job] =
                         [HeartbeatFromJob(@) EXCEPT !.state = "draining", !.since = "counting"]]
            /\ UNCHANGED <<jobVars, desired, fails, faults, cli, auto>>
      BY <2>1 DEF ApplyStartDrain
    <3>2. d \in sup.todo /\ d.action = "start_drain"
      BY <3>1 DEF Take, Head
    <3>3. d.job \in Jobs /\ job[d.job] \notin BringUp \cup {"none"} \cup Probed
      BY <1>1, <3>2 DEF IInv, TouchesServedOnly, TodoByPhase, Decisions, ModelActions,
                        BIInv, DrainsAnswered
    <3>4. HeartbeatFromJob(rec[d.job]) \in Records
      BY <1>0, <3>3, RecordFacts DEF TypeOK
    <3>5. [HeartbeatFromJob(rec[d.job]) EXCEPT !.state = "draining", !.since = "counting"].state = "draining"
      BY <3>4 DEF Records
    <3>6. rec'[d.job].state = "draining" /\ \A k \in Jobs \ {d.job} : rec'[k] = rec[k]
      BY <1>0, <3>1, <3>3, <3>5 DEF TypeOK
    <3>7. QED
      BY <1>0, <3>1, <3>3, <3>6, RecordsStepForward DEF jobVars
  <2>2. CASE ApplyCancel \/ ApplyReap
    <3>1. PICK d \in Head : /\ d.action \in {"cancel", "reap_idle"}
                            /\ Cancel(d.job) /\ rec' = rec
      BY <2>2 DEF ApplyCancel, ApplyReap, Take
    <3>2. d.job \in Jobs
      BY <1>1, <3>1 DEF Head, IInv, TodoByPhase, Decisions, ModelActions
    <3>3. QED
      BY <1>0, <3>1, <3>2, CancelForward
  <2>3. CASE \E j \in Jobs : SupSubmits(j)
    BY <1>0, <2>3, SubmitForward DEF SupSubmits
  <2>4. CASE \/ ReapClearsDemand \/ ApplyBlocked \/ ApplyLaunch \/ PreflightFails
             \/ SubmitFails \/ CancelFails
    <3>1. UNCHANGED <<job, rec, beat>>
      BY <2>4 DEF ReapClearsDemand, ApplyBlocked, ApplyLaunch, PreflightFails, SubmitFails,
                  CancelFails, jobVars
    <3>2. QED
      BY <1>0, <3>1, RecordsStepForward
  <2>5. QED
    BY <2>1, <2>2, <2>3, <2>4
<1>3. QED
  BY <1>1, <1>2, DrainsKept DEF BehindKept

(* The rest of the tick refreshes records, cancels and evicts.             *)
LEMMA RestForward ==
    ASSUME IInv, BIInv,
           \/ RefreshRead \/ RefreshPoll \/ ReadDemand \/ ListJobs \/ ListJobsFails
           \/ SweepList \/ SweepListFails \/ Sweep \/ SupCrashes \/ SupRestarts
    PROVE  BIInv' /\ RecordsForward
<1>0. TypeOK
  BY DEF IInv
<1>1. BehindKept
  <2>1. CASE RefreshPoll
    <3>1. PICK d \in sup.todo : PollSkipped(d) \/ PollQuiet(d) \/ PollActive(d)
      BY <2>1 DEF RefreshPoll
    <3>2. CASE PollSkipped(d)
      BY <1>0, <3>2, RecordsStepForward DEF PollSkipped, jobVars
    <3>3. CASE PollQuiet(d)
      <4>1. d.job \in Jobs
        BY <1>0, <3>3 DEF PollQuiet, TypeOK, SupTypes, Decisions, JobActions, ModelActions,
                          Polls, Decision
      <4>2. QED
        BY <1>0, <3>3, <4>1, CancelForward DEF PollQuiet
    <3>4. CASE PollActive(d)
      <4>1. /\ job' = job /\ beat' = beat
            /\ \A k \in Jobs : rec'[k] \in {rec[k], HeartbeatFromJob(rec[k])}
        BY <1>0, <3>4 DEF PollActive, TypeOK, jobVars
      <4>2. \A k \in Jobs : \/ rec'[k].state = rec[k].state
                            \/ rec[k].state = "none" /\ rec'[k].state = "queued"
        BY <1>0, <4>1, HeartbeatForward DEF TypeOK
      <4>3. QED
        BY <1>0, <4>1, <4>2, RecordsStepForward
    <3>5. QED
      BY <3>1, <3>2, <3>3, <3>4
  <2>2. CASE Sweep
    <3>1. job' = job /\ beat' = beat /\ \A k \in Jobs : rec'[k] \in {rec[k], NoRecord}
      BY <2>2 DEF Sweep, jobVars
    <3>2. NoRecord.state = "none"
      BY DEF NoRecord
    <3>3. QED
      BY <1>0, <3>1, <3>2, RecordsStepForward
  <2>3. CASE ~(RefreshPoll \/ Sweep)
    <3>1. UNCHANGED <<job, rec, beat>>
      BY <2>3 DEF RefreshRead, ReadDemand, ListJobs, ListJobsFails, SweepList, SweepListFails,
                  SupCrashes, SupRestarts, jobVars
    <3>2. QED
      BY <1>0, <3>1, RecordsStepForward
  <2>4. QED
    BY <2>1, <2>2, <2>3
<1>2. Applying' => sup'.todo = {}
  BY RestEmptiesList
<1>3. QED
  BY <1>1, <1>2 DEF BehindKept, BIInv, DrainsAnswered

(* Every record moves through Lifecycle, for any number of jobs, any       *)
(* commands and any faults but an overlapping heartbeat: no writer, acting *)
(* on what it has read a few steps before, moves one backwards, not even   *)
(* the supervisor that drains a job which has meanwhile gone on to fail.   *)
THEOREM RecordsImplementLifecycle ==
    ASSUME "overlap" \notin Faults
    PROVE  Spec => RecordsMoveForward
<1>1. Init => BIInv /\ \A j \in Jobs : Life(j)!Init
  BY DEF Init, TickStart, NoRecord, BIInv, NoCopies, RecordsBehind, NotYetReady, DrainsAnswered,
         Applying, Life!Init
<1>2. IInv /\ BIInv /\ [Next]_vars
        => /\ BIInv'
           /\ [\A j \in Jobs : [Life(j)!Next]_(rec[j].state)]_rec
  <2> SUFFICES ASSUME IInv, BIInv, [Next]_vars
               PROVE  BIInv' /\ \A j \in Jobs : [Life(j)!Next]_(rec[j].state)
    OBVIOUS
  <2>1. BIInv' /\ RecordsForward
    <3>1. CASE UNCHANGED vars
      BY <3>1 DEF vars, BIInv, NoCopies, RecordsBehind, DrainsAnswered, Applying,
                  RecordsForward, Forward
    <3>2. CASE Next
      BY <3>2, OutsidersForward, DecideForward, ApplyForward, RestForward
         DEF Next, Supervisor, SupervisorFaults
    <3>3. QED
      BY <3>1, <3>2
  <2>2. \A j \in Jobs : rec[j].state \in RecordStates
    BY DEF IInv, TypeOK, Records
  <2>3. \A j \in Jobs : [Life(j)!Next]_(rec[j].state)
    BY <2>1, <2>2, ForwardIsLife DEF RecordsForward
  <2>4. QED
    BY <2>1, <2>3
<1>3. QED
  BY <1>1, <1>2, Inductive, PTL DEF Spec, RecordsMoveForward
(* Each record by itself implements Lifecycle, its initial state included. *)
COROLLARY EachRecordImplementsLifecycle ==
    ASSUME "overlap" \notin Faults, NEW k \in Jobs
    PROVE  Spec => Life(k)!Spec
<1>1. (\A j \in Jobs : Life(j)!Init) => Life(k)!Init
  OBVIOUS
<1>2. [\A j \in Jobs : [Life(j)!Next]_(rec[j].state)]_rec => [Life(k)!Next]_(rec[k].state)
  OBVIOUS
<1>3. Spec => RecordsMoveForward
  BY RecordsImplementLifecycle
<1>4. Spec => Life(k)!Init /\ [][Life(k)!Next]_(rec[k].state)
  BY <1>1, <1>2, <1>3, PTL DEF RecordsMoveForward
<1>5. QED
  BY <1>4 DEF Life!Spec
=============================================================================
