----------------------------- MODULE JobRecord -----------------------------
(***************************************************************************)
(* One job's registry record under all its writers.  heartbeat_from_job    *)
(* reads the record, changes some fields and replaces the whole file: the  *)
(* read and the replacement are separate steps here.  The batch script,    *)
(* its heartbeat subshell and the supervisor (activity, start_drain) go    *)
(* through it; the script's trap, sweep (supervisor and `mrctl status`)    *)
(* and `mrctl down` unlink the file.                                       *)
(*                                                                         *)
(* The supervisor's tick is reduced to what it does to this one job, with  *)
(* the demand, the other jobs and the clocks as the environment's choice.  *)
(* A second SIGTERM to a script already in its trap is not modelled.       *)
(***************************************************************************)
EXTENDS Registry

CONSTANTS
    Commands    \* the `mrctl` commands an operator may give

ASSUME JobRecordAssumption ==
    Commands \subseteq {"status", "down"}

VARIABLES
    disk,      \* the record
    main,      \* where the batch script is
    beating,   \* whether its heartbeat subshell is alive
    copy,      \* what each writer has read and not yet written back
    sup,       \* where the supervisor's tick is
    cli,       \* the operator's `mrctl status` or `mrctl down`
    answered,  \* ghost: the engine has answered on /v1/models
    overlapped \* ghost: another step has come between a read and its write

vars == <<disk, main, beating, copy, sup, cli, answered, overlapped>>

Writers == {"script", "heartbeat", "supervisor"}

\* Mutant: the trap misspells the state it publishes.
PublicationsMisspelt ==
    {<<"started", "loading", "loading">>, <<"answered", "ready", "serving">>,
     <<"failing", "failed", "exit">>, <<"term", "drain", "termEvict">>,
     <<"probeTerm", "drain", "probeEvict">>, <<"exit", "drain", "exitEvict">>}

\* What the script publishes where, and where it goes on: the EXIT trap after
\* a failure, the eviction after a trap's publish.
Publications ==
    {<<"started", "loading", "loading">>, <<"answered", "ready", "serving">>,
     <<"failing", "failed", "exit">>, <<"term", "draining", "termEvict">>,
     <<"probeTerm", "draining", "probeEvict">>, <<"exit", "draining", "exitEvict">>}

\* The trap's evictions.  After the TERM trap an interrupted sleep or wait
\* makes `set -e` exit, an interrupted probe only makes the next check fail.
Evictions == {<<"termEvict", "exit">>, <<"probeEvict", "probed">>, <<"exitEvict", "done">>}

ScriptPCs == {p[1] : p \in Publications} \cup {p[3] : p \in Publications}
               \cup {e[1] : e \in Evictions} \cup {e[2] : e \in Evictions}

Places == ScriptPCs \cup {"none", "queued", "gone"}

EngineUp == {"answered", "serving", "term", "termEvict"}
InSqueue == main \notin {"none", "gone"}

SupPCs == {"refresh", "poll", "pollDrain", "touch", "squeue", "registry",
           "drain", "cancel", "list", "sweep"}

Init ==
    /\ disk = NoRecord
    /\ main = "none"
    /\ beating = FALSE
    /\ copy = [w \in Writers |-> NoRecord]
    /\ sup = "refresh"
    /\ cli = "idle"
    /\ answered = FALSE
    /\ overlapped = FALSE

\* No writer is between its read and its write.
Quiet == \A w \in Writers : copy[w] = NoRecord

Goto(from, to) == main = from /\ main' = to
SupGoto(from, to) == sup = from /\ sup' = to
CliGoto(from, to) == cli = from /\ cli' = to

-----------------------------------------------------------------------------
(* heartbeat_from_job and evict.                                           *)

Reads(w) ==
    /\ copy[w] = NoRecord
    /\ overlapped' = (overlapped \/ ~Quiet)
    /\ copy' = [copy EXCEPT ![w] = HeartbeatFromJob(disk)]

Writes(w, r) ==
    /\ copy[w] # NoRecord
    /\ disk' = r
    /\ copy' = [copy EXCEPT ![w] = NoRecord]

Evicts ==
    /\ overlapped' = (overlapped \/ ~Quiet)
    /\ disk' = NoRecord

-----------------------------------------------------------------------------
(* The batch script.                                                       *)

Submitted ==
    /\ Goto("none", "queued")
    /\ UNCHANGED <<disk, beating, copy, sup, cli, answered, overlapped>>

SlurmStarts ==
    /\ Goto("queued", "started")
    /\ UNCHANGED <<disk, beating, copy, sup, cli, answered, overlapped>>

ScriptReads ==
    /\ \E p \in Publications : main = p[1]
    /\ Reads("script")
    /\ UNCHANGED <<disk, main, beating, sup, cli, answered>>

\* The first publish carries the address and expires_at, and the heartbeat
\* starts after it.
ScriptWrites == \E p \in Publications :
    /\ Goto(p[1], p[3])
    /\ Writes("script", [copy["script"] EXCEPT !.state = p[2],
                                               !.placed = @ \/ p[1] = "started"])
    /\ beating' = (beating \/ p[1] = "started")
    /\ UNCHANGED <<sup, cli, answered, overlapped>>

EngineAnswers ==
    /\ Goto("loading", "answered")
    /\ answered' = TRUE
    /\ UNCHANGED <<disk, beating, copy, sup, cli, overlapped>>

BringUpFails ==
    /\ \E s \in {"loading", "probed"} : Goto(s, "failing")
    /\ UNCHANGED <<disk, beating, copy, sup, cli, answered, overlapped>>

\* `set -e` stops the script at its first publish, the trap set already.
ScriptDies ==
    /\ copy["script"] = NoRecord
    /\ Goto("started", "exit")
    /\ UNCHANGED <<disk, beating, copy, sup, cli, answered, overlapped>>

\* `set -e` skips the kill of the heartbeat when the engine exits with an error.
EngineExits ==
    /\ Goto("serving", "exit")
    /\ beating' \in {beating, FALSE}
    /\ UNCHANGED <<disk, copy, sup, cli, answered, overlapped>>

CleanupEvict ==
    /\ \E e \in Evictions : Goto(e[1], e[2])
    /\ Evicts
    /\ UNCHANGED <<beating, copy, sup, cli, answered>>

\* The heartbeat of a job that is still there.
HeartbeatReads ==
    /\ beating
    /\ Reads("heartbeat")
    /\ UNCHANGED <<disk, main, beating, sup, cli, answered>>

\* Mutant: the heartbeat repeats the state of the first publish.
HeartbeatSaysLoading ==
    /\ Writes("heartbeat", [copy["heartbeat"] EXCEPT !.state = "loading"])
    /\ UNCHANGED <<main, beating, sup, cli, answered, overlapped>>

HeartbeatWrites ==
    /\ Writes("heartbeat", copy["heartbeat"])
    /\ UNCHANGED <<main, beating, sup, cli, answered, overlapped>>

\* The job's processes are gone, and with them what they have not written.
Killed ==
    /\ beating' = FALSE
    /\ copy' = [copy EXCEPT !["script"] = NoRecord, !["heartbeat"] = NoRecord]

\* Slurm reaps the finished job, or a node failure ends it without any trap.
JobLeaves ==
    /\ main \in ScriptPCs
    /\ main' = "gone"
    /\ Killed
    /\ UNCHANGED <<disk, sup, cli, answered, overlapped>>

\* SIGTERM to every process of the job: where the script goes.
Cancelled(pc) ==
    CASE pc = "queued"  -> {"gone"}
      [] pc = "started" -> {"gone", "term"}
      [] pc = "loading" -> {"term", "probeTerm"}
      [] pc \in {"answered", "serving", "failing", "probed"} -> {"term"}
      [] OTHER -> {}

Cancel ==
    \/ Cancelled(main) = {} /\ UNCHANGED <<main, beating, copy>>
    \/ main' \in Cancelled(main) /\ Killed

TimeLimit ==
    /\ main \in ScriptPCs
    /\ Cancel
    /\ UNCHANGED <<disk, sup, cli, answered, overlapped>>

-----------------------------------------------------------------------------
(* The supervisor's tick.                                                  *)

\* refresh_activity lists the record; what it polls, it polls as listed.
SupRefreshes ==
    /\ sup = "refresh"
    /\ sup' = CASE disk.state = "ready"    -> "poll"
                [] disk.state = "draining" -> "pollDrain"
                [] OTHER                   -> "squeue"
    /\ UNCHANGED <<disk, main, beating, copy, cli, answered, overlapped>>

\* No answer, nothing new, or a record too old to be polled.
PollSkipped ==
    /\ \E s \in {"poll", "pollDrain"} : SupGoto(s, "squeue")
    /\ UNCHANGED <<disk, main, beating, copy, cli, answered, overlapped>>

PollQuiet ==
    /\ main \in EngineUp
    /\ SupGoto("pollDrain", "squeue")
    /\ Cancel
    /\ UNCHANGED <<disk, cli, answered, overlapped>>

PollActive ==
    /\ main \in EngineUp
    /\ \E s \in {"poll", "pollDrain"} : SupGoto(s, "touch")
    /\ UNCHANGED <<disk, main, beating, copy, cli, answered, overlapped>>

SupReads ==
    /\ sup \in {"touch", "drain"}
    /\ Reads("supervisor")
    /\ UNCHANGED <<disk, main, beating, sup, cli, answered>>

\* last_active_at and last_activity_count.
SupTouches ==
    /\ SupGoto("touch", "squeue")
    /\ Writes("supervisor", copy["supervisor"])
    /\ UNCHANGED <<main, beating, cli, answered, overlapped>>

SupLists ==
    /\ SupGoto("squeue", IF InSqueue THEN "registry" ELSE "list")
    /\ UNCHANGED <<disk, main, beating, copy, cli, answered, overlapped>>

\* Mutant: with desired=0 a backend is drained before it is up, too.
DecideDrainsAll ==
    /\ \E action \in {"drain", "cancel", "list"} : SupGoto("registry", action)
    /\ UNCHANGED <<disk, main, beating, copy, cli, answered, overlapped>>

\* decide on this job: start_drain (desired=0, or a successor is READY) and
\* reap_idle for a READY record, cancel past the grace of a drain or, with
\* desired=0, of a job on its way up; or nothing.
Decide ==
    /\ \E action \in {"drain", "cancel", "list"} :
          /\ SupGoto("registry", action)
          /\ action = "drain"  => disk.state = "ready"
          /\ action = "cancel" => disk.state # "draining" \/ disk.since # "unset"
    /\ UNCHANGED <<disk, main, beating, copy, cli, answered, overlapped>>

SupDrains ==
    /\ SupGoto("drain", "list")
    /\ Writes("supervisor", [copy["supervisor"] EXCEPT !.state = "draining", !.since = "counting"])
    /\ UNCHANGED <<main, beating, cli, answered, overlapped>>

SupCancels ==
    /\ SupGoto("cancel", "list")
    /\ Cancel
    /\ UNCHANGED <<disk, cli, answered, overlapped>>

\* The sweep's own squeue.
SupListsAgain ==
    /\ SupGoto("list", IF InSqueue THEN "refresh" ELSE "sweep")
    /\ UNCHANGED <<disk, main, beating, copy, cli, answered, overlapped>>

\* Mutant: the sweep leaves a record that is draining to its job.
SweepSparesDraining ==
    /\ SupGoto("sweep", "refresh")
    /\ IF disk.state = "draining" THEN UNCHANGED <<disk, overlapped>> ELSE Evicts
    /\ UNCHANGED <<main, beating, copy, cli, answered>>

SupSweeps ==
    /\ SupGoto("sweep", "refresh")
    /\ Evicts
    /\ UNCHANGED <<main, beating, copy, cli, answered>>

Supervisor ==
    \/ SupRefreshes \/ PollSkipped \/ PollQuiet \/ PollActive \/ SupReads
    \/ SupTouches \/ SupLists \/ Decide \/ SupDrains \/ SupCancels
    \/ SupListsAgain \/ SupSweeps

-----------------------------------------------------------------------------
(* The operator.                                                           *)

\* `mrctl status` asks squeue first and sweeps what was not in the answer.
StatusLists ==
    /\ "status" \in Commands
    /\ ~InSqueue
    /\ CliGoto("idle", "evict")
    /\ UNCHANGED <<disk, main, beating, copy, sup, answered, overlapped>>

\* `mrctl down` lists the records, cancels, evicts.
DownLists ==
    /\ "down" \in Commands
    /\ disk # NoRecord
    /\ CliGoto("idle", "down")
    /\ UNCHANGED <<disk, main, beating, copy, sup, answered, overlapped>>

DownCancels ==
    /\ CliGoto("down", "evict")
    /\ Cancel
    /\ UNCHANGED <<disk, sup, answered, overlapped>>

CliEvicts ==
    /\ CliGoto("evict", "idle")
    /\ Evicts
    /\ UNCHANGED <<main, beating, copy, sup, answered>>

-----------------------------------------------------------------------------

Script ==
    \/ SlurmStarts \/ ScriptReads \/ ScriptWrites \/ EngineAnswers
    \/ BringUpFails \/ CleanupEvict

Environment ==
    \/ Submitted \/ ScriptDies \/ EngineExits \/ JobLeaves \/ TimeLimit
    \/ StatusLists \/ DownLists

Cli == DownCancels \/ CliEvicts

Next == Script \/ HeartbeatReads \/ HeartbeatWrites \/ Environment \/ Supervisor \/ Cli

Spec == Init /\ [][Next]_vars

\* The supervisor keeps ticking.
FairSpec == Spec /\ WF_vars(Supervisor)

-----------------------------------------------------------------------------
(* Properties.                                                             *)

\* All but the ghost of the overlaps.
Types ==
    /\ disk \in Records
    /\ main \in Places
    /\ beating \in BOOLEAN
    /\ copy \in [Writers -> Records]
    /\ sup \in SupPCs
    /\ cli \in {"idle", "down", "evict"}
    /\ answered \in BOOLEAN

(* Every variable has its type.                                            *)
TypeOK == Types /\ overlapped \in BOOLEAN

(* Whatever the writers overwrite and resurrect, a record that says READY, *)
(* or that the supervisor has drained, is that of a job whose engine has   *)
(* answered: a lost update may take READY away, it never invents it.       *)
ServedHasAnswered == disk.state = "ready" \/ disk.since # "unset" => answered

(* A job that has left Slurm ends up without a record for good, though the *)
(* supervisor may write its record back once more.                         *)
GoneIsForgotten == main = "gone" ~> [](disk = NoRecord)

(* The record goes through its lifecycle forward only, for as long as no   *)
(* two writers have overlapped: from then on nothing is promised of it.    *)
Shown == IF overlapped THEN "none" ELSE disk.state
Life  == INSTANCE Lifecycle WITH state <- Shown
MovesForward == Life!Spec

(* Violated when writers overlap: apply's comment says that a bare         *)
(* heartbeat "re-publishes whatever state is already on disk" and so never *)
(* conflicts with start_drain.                                             *)
HeartbeatKeepsState ==
    [][copy["heartbeat"] # NoRecord /\ copy'["heartbeat"] = NoRecord /\ main' = main
          => disk = NoRecord \/ disk'.state = disk.state]_vars
=============================================================================
