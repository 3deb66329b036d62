---------------------------- MODULE CrashBackoff ----------------------------
(***************************************************************************)
(* The crash backoff of one model under several of its jobs: what          *)
(* failures.record, a read-modify-write without a lock, and the two resets *)
(* make of the count, and what the count makes of the launches.            *)
(*                                                                         *)
(* A tick is one step here (its interleaving is in Reconcile), and demand  *)
(* is always there: the waker sets it with every client's retry.           *)
(***************************************************************************)
EXTENDS Naturals

CONSTANTS
    Jobs,           \* job ids, each free again when its job has gone
    MaxConsecutive, \* MAX_CONSECUTIVE
    MaxCommands     \* bound on the operator's commands

ASSUME CrashBackoffAssumption ==
    /\ MaxConsecutive \in Nat \ {0}
    /\ MaxCommands \in Nat

VARIABLES
    works,      \* can the model come up at all?
    phase,      \* where each job is
    seen,       \* the count its call of record has read
    cancelled,  \* the jobs that were sent a TERM
    count,      \* consecutive, 0 without a file
    failed,     \* bring-ups that failed by themselves since the last reset
    tainted,    \* has that reset or a cancel since then been miscounted?
    op,         \* the operator's command: "rest", or "submit" after up's reset
    commands

counts == <<count, failed, tainted>>
vars   == <<works, phase, seen, cancelled, counts, op, commands>>

\* "fail" is fail() before record, "record" between its read and its write,
\* "reset" between publishing READY and failures.reset.
Phases == {"none", "queued", "loading", "fail", "record", "reset", "ready"}
Coming == {j \in Jobs : phase[j] \in {"queued", "loading", "fail", "record"}}
Blocked == count >= MaxConsecutive

\* Beyond MAX_CONSECUTIVE no count is told from another.
Another(n) == IF n < MaxConsecutive THEN n + 1 ELSE n

Init ==
    /\ works \in BOOLEAN
    /\ phase = [j \in Jobs |-> "none"]
    /\ seen = [j \in Jobs |-> 0]
    /\ cancelled = {}
    /\ count = 0 /\ failed = 0 /\ tainted = FALSE
    /\ op = "rest" /\ commands = 0

Goto(j, from, to) == phase[j] = from /\ phase' = [phase EXCEPT ![j] = to]

\* What a reset does not keep from being written later: the call of record
\* that has read the count, and the one a cancelled job has yet to make.
Late(j) == phase[j] = "record" \/ (phase[j] = "fail" /\ j \in cancelled)

\* Mutant: a reset takes one failure back.
ResetsOne ==
    /\ count' = count - 1
    /\ failed' = 0
    /\ tainted' = \E j \in Jobs : Late(j)

\* The file is unlinked.
Resets ==
    /\ count' = 0
    /\ failed' = 0
    /\ tainted' = \E j \in Jobs : Late(j)

-----------------------------------------------------------------------------
(* The supervisor and the operator.                                        *)

Submits(j) ==
    /\ Goto(j, "none", "queued")
    /\ cancelled' = cancelled \ {j}
    /\ UNCHANGED seen

\* Mutant: a failed bring-up no longer counts as pending while its failure is
\* being recorded.
LaunchesBeforeRecord(j) ==
    /\ \A k \in Coming \ cancelled : phase[k] = "record"
    /\ ~Blocked
    /\ Submits(j)
    /\ UNCHANGED <<works, counts, op, commands>>

\* Mutant: the supervisor's launch resets the count, as the operator's does.
LaunchesAsOperator(j) ==
    /\ Coming \ cancelled = {} /\ ~Blocked
    /\ Submits(j)
    /\ Resets
    /\ UNCHANGED <<works, op, commands>>

\* A cold start, or a successor while a backend is READY.  A cancelled job's
\* trap has the record DRAINING for a while, when it holds no launch back.
Launches(j) ==
    /\ Coming \ cancelled = {} /\ ~Blocked
    /\ Submits(j)
    /\ UNCHANGED <<works, counts, op, commands>>

\* `mrctl up --force`.
UpResets ==
    /\ op = "rest" /\ op' = "submit"
    /\ commands < MaxCommands /\ commands' = commands + 1
    /\ Resets
    /\ UNCHANGED <<works, phase, seen, cancelled>>

UpSubmits(j) ==
    /\ op = "submit" /\ op' = "rest"
    /\ Submits(j)
    /\ UNCHANGED <<works, counts, commands>>

\* `mrctl down` or a drain.  The trap runs, and a TERM that interrupts the
\* readiness probe leaves the loop to find the engine dead.
Cancelled(j) ==
    /\ commands < MaxCommands /\ commands' = commands + 1
    /\ \/ /\ phase[j] \in {"queued", "loading", "ready"}
          /\ phase' = [phase EXCEPT ![j] = "none"]
          /\ UNCHANGED tainted
       \/ /\ Goto(j, "loading", "fail")
          /\ tainted' = TRUE
    /\ cancelled' = cancelled \cup {j}
    /\ UNCHANGED <<works, seen, count, failed, op>>

-----------------------------------------------------------------------------
(* A job.                                                                  *)

Starts(j) ==
    /\ Goto(j, "queued", "loading")
    /\ UNCHANGED <<works, seen, cancelled, counts, op, commands>>

EngineAnswers(j) ==
    /\ works
    /\ Goto(j, "loading", "reset")
    /\ UNCHANGED <<works, seen, cancelled, counts, op, commands>>

ReadyResets(j) ==
    /\ Goto(j, "reset", "ready")
    /\ Resets
    /\ UNCHANGED <<works, seen, cancelled, op, commands>>

\* The engine dies during the load or misses its deadline.
BringUpFails(j) ==
    /\ Goto(j, "loading", "fail")
    /\ UNCHANGED <<works, seen, cancelled, counts, op, commands>>

RecordReads(j) ==
    /\ Goto(j, "fail", "record")
    /\ seen' = [seen EXCEPT ![j] = count]
    /\ UNCHANGED <<works, cancelled, counts, op, commands>>

\* Mutant: a failure during load is recorded once more by the trap.
RecordsTwice(j) ==
    /\ Goto(j, "record", "none")
    /\ count' = Another(Another(seen[j]))
    /\ failed' = IF j \in cancelled THEN failed ELSE Another(failed)
    /\ UNCHANGED <<works, seen, cancelled, tainted, op, commands>>

\* And the job ends.
RecordWrites(j) ==
    /\ Goto(j, "record", "none")
    /\ count' = Another(seen[j])
    /\ failed' = IF j \in cancelled THEN failed ELSE Another(failed)
    /\ UNCHANGED <<works, seen, cancelled, tainted, op, commands>>

\* The walltime ends before the load, or the script before its trap is set.
EndsUncounted(j) ==
    /\ Goto(j, "loading", "none")
    /\ UNCHANGED <<works, seen, cancelled, counts, op, commands>>

EngineExits(j) ==
    /\ Goto(j, "ready", "none")
    /\ UNCHANGED <<works, seen, cancelled, counts, op, commands>>

-----------------------------------------------------------------------------

JobSteps(j) ==
    \/ Starts(j) \/ EngineAnswers(j) \/ ReadyResets(j)
    \/ BringUpFails(j) \/ RecordReads(j) \/ RecordWrites(j) \/ EndsUncounted(j)

Next ==
    \/ UpResets
    \/ \E j \in Jobs : Launches(j) \/ UpSubmits(j) \/ Cancelled(j) \/ JobSteps(j) \/ EngineExits(j)

Spec == Init /\ [][Next]_vars

\* The supervisor ticks, jobs start and their bring-ups end one way or another.
FairSpec ==
    /\ Spec
    /\ WF_vars(\E j \in Jobs : Launches(j))
    /\ \A j \in Jobs : WF_vars(JobSteps(j)) /\ WF_vars(UpSubmits(j))

-----------------------------------------------------------------------------
(* Properties.                                                             *)

(* Every variable has its type.                                            *)
TypeOK ==
    /\ works \in BOOLEAN /\ tainted \in BOOLEAN
    /\ phase \in [Jobs -> Phases]
    /\ seen \in [Jobs -> 0..MaxConsecutive]
    /\ cancelled \subseteq Jobs
    /\ count \in 0..MaxConsecutive /\ failed \in 0..MaxConsecutive
    /\ op \in {"rest", "submit"} /\ commands \in 0..MaxCommands

(* Nothing but a bring-up that failed by itself since the last reset       *)
(* counts: concurrent failures may lose a count, never invent one, so a    *)
(* model an operator has just reset or that has just come up is not        *)
(* blocked.  The exceptions, until the next reset: the reset fell between  *)
(* a record's read and its write, or a cancel interrupted the readiness    *)
(* probe and was counted.                                                  *)
CountIsReal == ~tainted => count <= failed

(* While nothing is cancelled and no operator launches, no failure is lost *)
(* either, though record takes no lock: a bring-up that has failed holds   *)
(* the next launch back until it has been counted.                         *)
NoCountLost == commands = 0 => failed <= count

(* A model that can never come up is in the end left alone, whatever       *)
(* counts are lost to concurrent failures and late resets, unless its      *)
(* bring-ups keep ending without being counted at all.                     *)
LeftAlone ==
    \/ <>[](~works => Coming = {})
    \/ []<><<\E j \in Jobs : EndsUncounted(j)>>_vars
=============================================================================
