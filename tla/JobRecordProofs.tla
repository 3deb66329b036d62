-------------------------- MODULE JobRecordProofs --------------------------
(***************************************************************************)
(* Proofs about JobRecord: with any overlap of the writers nothing makes   *)
(* up a READY or drained record, and until the first overlap the record's  *)
(* state implements Lifecycle.                                             *)
(***************************************************************************)
EXTENDS JobRecord, Naturals, TLAPS

(* The inductive invariant behind ServedHasAnswered.                       *)

Invented(r) == r.state = "ready" \/ r.since # "unset"

AnsweredIInv ==
    /\ Types
    /\ Invented(disk) => answered
    /\ \A w \in Writers : Invented(copy[w]) => answered
    /\ main \in {"answered", "serving"} \/ sup = "drain" => answered

(* The inductive invariant behind MovesForward, while no writers overlap.  *)

NotYetReady == {"none", "queued", "loading"}

\* The one copy there is, is what is on disk.
CopiesCurrent ==
    /\ \A v, w \in Writers : copy[v] # NoRecord /\ copy[w] # NoRecord => v = w
    /\ \A w \in Writers : copy[w] # NoRecord => copy[w] = HeartbeatFromJob(disk)

\* Each process reads at its publishing steps only.
CopiesPlaced ==
    /\ copy["script"] # NoRecord => \E p \in Publications : main = p[1]
    /\ copy["supervisor"] # NoRecord => sup \in {"touch", "drain"}

HeartbeatOver == ~beating /\ copy["heartbeat"] = NoRecord

\* Until READY is published nothing but the script and its heartbeat writes.
BeforeReady ==
    main \in {"none", "queued", "started", "loading", "answered"} =>
        /\ disk.state \in NotYetReady
        /\ sup \notin {"poll", "pollDrain", "touch", "drain"}
        /\ main \in {"none", "queued", "started"} => HeartbeatOver /\ disk = NoRecord

\* On the way to a failed bring-up neither does the supervisor.
BeforeFailed ==
    /\ main \in {"probeTerm", "probeEvict", "probed", "failing"} => sup \notin {"touch", "drain"}
    /\ main \in {"probeTerm", "probed", "failing"} => disk.state \in NotYetReady
    /\ main \in {"probeTerm", "probeEvict", "probed"} => HeartbeatOver
    /\ main = "probeEvict" => disk.state # "ready"

ForwardIInv == Types /\ CopiesCurrent /\ CopiesPlaced /\ BeforeReady /\ BeforeFailed

-----------------------------------------------------------------------------

\* What heartbeat_from_job starts from: a record, and the one on disk if any.
LEMMA HeartbeatFacts ==
    /\ NoRecord \in Records
    /\ ~Invented(NoRecord)
    /\ \A r \in Records : /\ HeartbeatFromJob(r) \in Records \ {NoRecord}
                          /\ Invented(HeartbeatFromJob(r)) => Invented(r)
BY DEF NoRecord, Records, RecordStates, Graces, Invented, HeartbeatFromJob, Blank

\* Every publication writes a state of the lifecycle, READY only after an answer.
LEMMA PublicationFacts ==
    \A p \in Publications :
        /\ p[1] \in Places /\ p[3] \in Places
        /\ p[2] \in RecordStates \ {"none"}
        /\ p[2] = "ready" => p[1] = "answered"
        /\ p[3] \in {"answered", "serving"} => p[1] = "answered"
BY DEF Publications, Places, ScriptPCs, RecordStates, Evictions

LEMMA EvictionFacts ==
    \A e \in Evictions : e[2] \in Places /\ e[2] \notin {"answered", "serving"}
BY DEF Evictions, Places, ScriptPCs, Publications

\* The places of a job, written out.
LEMMA PlaceFacts ==
    /\ {"none", "queued", "gone", "started", "loading", "answered", "serving", "failing",
        "term", "termEvict", "probeTerm", "probeEvict", "probed", "exit", "exitEvict",
        "done"} \subseteq Places
    /\ ScriptPCs \subseteq Places
BY DEF Places, ScriptPCs, Publications, Evictions

\* A SIGTERM kills what the job has not yet written and moves the script on.
LEMMA CancelFacts ==
    ASSUME Types, Cancel
    PROVE  /\ main' \in Places
           /\ main' \in {"answered", "serving"} => main' = main
           /\ beating' \in BOOLEAN
           /\ copy' \in [Writers -> Records]
           /\ \A w \in Writers : copy'[w] \in {copy[w], NoRecord}
  <1>1. CASE UNCHANGED <<main, beating, copy>>
    BY <1>1 DEF Types
  <1>2. CASE main' \in Cancelled(main) /\ Killed
    <2>1. main' \in Places /\ main' \notin {"answered", "serving"}
      BY <1>2, PlaceFacts DEF Cancelled
    <2>2. beating' \in BOOLEAN /\ copy' \in [Writers -> Records]
      BY <1>2, HeartbeatFacts DEF Types, Killed
    <2>3. \A w \in Writers : copy'[w] \in {copy[w], NoRecord}
      BY <1>2 DEF Types, Killed, Writers
    <2>. QED  BY <2>1, <2>2, <2>3
  <1>. QED  BY <1>1, <1>2 DEF Cancel

\* A read copies the record on disk, or a blank one.
LEMMA ReadFacts ==
    ASSUME Types, NEW w \in Writers, Reads(w)
    PROVE  /\ copy' \in [Writers -> Records]
           /\ \A v \in Writers : Invented(copy'[v]) => Invented(copy[v]) \/ Invented(disk)
BY HeartbeatFacts DEF Reads, Types, Writers

\* A write puts a record on disk and forgets the copy.
LEMMA WriteFacts ==
    ASSUME Types, NEW w \in Writers, NEW r \in Records, Writes(w, r)
    PROVE  /\ disk' = r
           /\ copy' \in [Writers -> Records]
           /\ \A v \in Writers : Invented(copy'[v]) => Invented(copy[v])
BY HeartbeatFacts DEF Writes, Types, Writers

\* The script's publishes.
LEMMA ScriptWritesKeepsAnswered ==
    ASSUME AnsweredIInv, ScriptWrites
    PROVE  AnsweredIInv'
  <1>1. PICK p \in Publications :
            /\ Goto(p[1], p[3])
            /\ Writes("script", [copy["script"] EXCEPT !.state = p[2],
                                    !.placed = @ \/ p[1] = "started"])
            /\ beating' = (beating \/ p[1] = "started")
            /\ UNCHANGED <<sup, cli, answered>>
    BY DEF ScriptWrites
  <1> DEFINE c == copy["script"]
             r == [c EXCEPT !.state = p[2], !.placed = @ \/ p[1] = "started"]
  <1>2. "script" \in Writers /\ c \in Records
    BY DEF AnsweredIInv, Types, Writers
  <1>3. r \in Records /\ r.state = p[2] /\ r.since = c.since
    BY <1>2, PublicationFacts DEF Records
  <1>4. /\ disk' = r
        /\ copy' \in [Writers -> Records]
        /\ \A v \in Writers : Invented(copy'[v]) => Invented(copy[v])
    <2>1. Writes("script", r)
      BY <1>1
    <2>2. Types
      BY DEF AnsweredIInv
    <2>. HIDE DEF r
    <2>. QED  BY <1>2, <1>3, <2>1, <2>2, WriteFacts
  <1>5. main = p[1] /\ main' = p[3] /\ answered' = answered
    BY <1>1 DEF Goto
  <1>6. Types'
    BY <1>1, <1>3, <1>4, <1>5, PublicationFacts DEF AnsweredIInv, Types
  <1>7. Invented(disk)' => answered'
    BY <1>2, <1>3, <1>4, <1>5, PublicationFacts DEF AnsweredIInv, Invented
  <1>8. \A v \in Writers : Invented(copy'[v]) => answered'
    BY <1>4, <1>5 DEF AnsweredIInv
  <1>9. main' \in {"answered", "serving"} \/ sup' = "drain" => answered'
    BY <1>1, <1>5, PublicationFacts DEF AnsweredIInv
  <1>. QED  BY <1>6, <1>7, <1>8, <1>9 DEF AnsweredIInv, Invented

\* The script's other steps: none writes, none answers but EngineAnswers.
LEMMA ScriptKeepsAnswered ==
    ASSUME AnsweredIInv, Script \/ HeartbeatReads \/ HeartbeatWrites
    PROVE  AnsweredIInv'
  <1>0. Types
    BY DEF AnsweredIInv
  <1>1. CASE SlurmStarts
    BY <1>1, PlaceFacts DEF SlurmStarts, Goto, AnsweredIInv, Types, Invented
  <1>2. CASE ScriptReads
    <2>1. Reads("script") /\ "script" \in Writers /\ UNCHANGED <<disk, main, beating, sup, cli, answered>>
      BY <1>2 DEF ScriptReads, Writers
    <2>. QED  BY <1>0, <2>1, ReadFacts DEF AnsweredIInv, Types, Invented
  <1>3. CASE ScriptWrites
    BY <1>3, ScriptWritesKeepsAnswered
  <1>4. CASE EngineAnswers
    BY <1>4, PlaceFacts DEF EngineAnswers, Goto, AnsweredIInv, Types, Invented
  <1>5. CASE BringUpFails
    BY <1>5, PlaceFacts DEF BringUpFails, Goto, AnsweredIInv, Types, Invented
  <1>6. CASE CleanupEvict
    <2>1. main' \in Places /\ main' \notin {"answered", "serving"} /\ disk' = NoRecord
      BY <1>6, EvictionFacts DEF CleanupEvict, Goto, Evicts
    <2>. QED  BY <1>6, <2>1, HeartbeatFacts DEF CleanupEvict, AnsweredIInv, Types, Invented
  <1>7. CASE HeartbeatReads
    <2>1. Reads("heartbeat") /\ "heartbeat" \in Writers /\ UNCHANGED <<disk, main, beating, sup, cli, answered>>
      BY <1>7 DEF HeartbeatReads, Writers
    <2>. QED  BY <1>0, <2>1, ReadFacts DEF AnsweredIInv, Types, Invented
  <1>8. CASE HeartbeatWrites
    <2>1. /\ Writes("heartbeat", copy["heartbeat"]) /\ UNCHANGED <<main, beating, sup, cli, answered>>
          /\ "heartbeat" \in Writers /\ copy["heartbeat"] \in Records
      BY <1>0, <1>8 DEF HeartbeatWrites, Writers, Types
    <2>. QED  BY <1>0, <2>1, WriteFacts DEF AnsweredIInv, Types, Invented
  <1>. QED
    BY <1>1, <1>2, <1>3, <1>4, <1>5, <1>6, <1>7, <1>8 DEF Script

\* Whatever a SIGTERM is sent for, it leaves the record and the ghost alone.
LEMMA CancelKeepsAnswered ==
    ASSUME AnsweredIInv, Cancel, UNCHANGED <<disk, answered>>,
           sup' \in SupPCs, sup' = "drain" => sup = "drain",
           cli' \in {"idle", "down", "evict"}
    PROVE  AnsweredIInv'
  <1>1. Types
    BY DEF AnsweredIInv
  <1>2. Types'
    BY <1>1, CancelFacts DEF Types
  <1>3. \A w \in Writers : Invented(copy[w])' => answered'
    BY <1>1, CancelFacts, HeartbeatFacts DEF AnsweredIInv, Invented
  <1>. QED  BY <1>1, <1>2, <1>3, CancelFacts DEF AnsweredIInv, Invented

\* Slurm and the operator only take away.
LEMMA EnvironmentKeepsAnswered ==
    ASSUME AnsweredIInv, Environment \/ Cli
    PROVE  AnsweredIInv'
  <1>0. Types
    BY DEF AnsweredIInv
  <1>1. CASE Submitted
    BY <1>1, PlaceFacts DEF Submitted, Goto, AnsweredIInv, Types, Invented
  <1>2. CASE EngineExits \/ ScriptDies
    BY <1>2, PlaceFacts DEF EngineExits, ScriptDies, Goto, AnsweredIInv, Types, Invented
  <1>3. CASE JobLeaves
    <2>1. \A w \in Writers : copy'[w] \in {copy[w], NoRecord}
      BY <1>0, <1>3 DEF JobLeaves, Killed, Types, Writers
    <2>2. copy' \in [Writers -> Records] /\ beating' \in BOOLEAN
      BY <1>0, <1>3, HeartbeatFacts DEF JobLeaves, Killed, Types
    <2>. QED  BY <1>0, <1>3, <2>1, <2>2, PlaceFacts, HeartbeatFacts
              DEF JobLeaves, AnsweredIInv, Types, Invented
  <1>4. CASE TimeLimit
    BY <1>0, <1>4, CancelKeepsAnswered DEF TimeLimit, Types
  <1>5. CASE StatusLists
    BY <1>5 DEF StatusLists, CliGoto, AnsweredIInv, Types, Invented
  <1>6. CASE DownLists
    BY <1>6 DEF DownLists, CliGoto, AnsweredIInv, Types, Invented
  <1>7. CASE DownCancels
    BY <1>0, <1>7, CancelKeepsAnswered DEF DownCancels, CliGoto, Types
  <1>8. CASE CliEvicts
    BY <1>8, HeartbeatFacts DEF CliEvicts, CliGoto, Evicts, AnsweredIInv, Types, Invented
  <1>. QED
    BY <1>1, <1>2, <1>3, <1>4, <1>5, <1>6, <1>7, <1>8 DEF Environment, Cli

\* The supervisor drains what it has read as READY, and READY is never made up.
LEMMA SupervisorKeepsAnswered ==
    ASSUME AnsweredIInv, Supervisor
    PROVE  AnsweredIInv'
  <1>0. Types /\ "supervisor" \in Writers
    BY DEF AnsweredIInv, Writers
  <1>1. CASE SupRefreshes \/ PollSkipped \/ PollActive \/ SupLists \/ SupListsAgain
    BY <1>1 DEF SupRefreshes, PollSkipped, PollActive, SupLists, SupListsAgain, SupGoto,
                AnsweredIInv, Types, SupPCs, Invented
  <1>2. CASE PollQuiet \/ SupCancels
    BY <1>0, <1>2, CancelKeepsAnswered DEF PollQuiet, SupCancels, SupGoto, SupPCs, Types
  <1>3. CASE SupReads
    BY <1>0, <1>3, ReadFacts DEF SupReads, AnsweredIInv, Types, Invented
  <1>4. CASE SupTouches
    <2>1. /\ Writes("supervisor", copy["supervisor"]) /\ copy["supervisor"] \in Records
          /\ sup' = "squeue" /\ UNCHANGED <<main, beating, cli, answered>>
      BY <1>0, <1>4 DEF SupTouches, SupGoto, Types
    <2>. QED  BY <1>0, <2>1, WriteFacts DEF AnsweredIInv, Types, SupPCs, Invented
  <1>5. CASE Decide
    BY <1>5 DEF Decide, SupGoto, AnsweredIInv, Types, SupPCs, Invented
  <1>6. CASE SupDrains
    <2> DEFINE r == [copy["supervisor"] EXCEPT !.state = "draining", !.since = "counting"]
    <2>1. r \in Records
      BY <1>0 DEF Types, Records, RecordStates, Graces
    <2>2. /\ Writes("supervisor", r) /\ sup = "drain" /\ sup' = "list"
          /\ UNCHANGED <<main, beating, cli, answered>>
      BY <1>6 DEF SupDrains, SupGoto
    <2>. HIDE DEF r
    <2>. QED  BY <1>0, <2>1, <2>2, WriteFacts DEF AnsweredIInv, Types, SupPCs, Invented
  <1>7. CASE SupSweeps
    BY <1>7, HeartbeatFacts DEF SupSweeps, SupGoto, Evicts, AnsweredIInv, Types, SupPCs, Invented
  <1>. QED
    BY <1>1, <1>2, <1>3, <1>4, <1>5, <1>6, <1>7 DEF Supervisor

(* AnsweredIInv is an invariant of the specification, overlaps or not.     *)
LEMMA AnsweredAlways == Spec => []AnsweredIInv
  <1>1. Init => AnsweredIInv
    BY HeartbeatFacts, PlaceFacts DEF Init, AnsweredIInv, Types, SupPCs, Writers, Invented
  <1>2. AnsweredIInv /\ [Next]_vars => AnsweredIInv'
    <2>1. CASE UNCHANGED vars
      BY <2>1 DEF vars, AnsweredIInv, Types, Invented
    <2>. QED
      BY <2>1, ScriptKeepsAnswered, EnvironmentKeepsAnswered, SupervisorKeepsAnswered DEF Next
  <1>. QED  BY <1>1, <1>2, PTL DEF Spec

\* An overlap is noted, and never forgotten.
LEMMA OverlapStays ==
    ASSUME overlapped \in BOOLEAN, [Next]_vars
    PROVE  overlapped' \in BOOLEAN /\ (~overlapped' => ~overlapped)
  <1>0. overlapped' = overlapped \/ overlapped' = (overlapped \/ ~Quiet)
        => overlapped' \in BOOLEAN /\ (~overlapped' => ~overlapped)
    <2>1. (overlapped \/ ~Quiet) \in BOOLEAN
      OBVIOUS
    <2>2. ASSUME overlapped' = (overlapped \/ ~Quiet)
          PROVE  overlapped' \in BOOLEAN
      BY <2>1, <2>2
    <2>3. ASSUME overlapped' = (overlapped \/ ~Quiet), overlapped
          PROVE  overlapped'
      BY <2>3
    <2>. QED  BY <2>2, <2>3, Zenon
  <1>1. CASE Script \/ HeartbeatReads \/ HeartbeatWrites
    BY <1>0, <1>1, Zenon DEF Script, SlurmStarts, ScriptReads, ScriptWrites, EngineAnswers, BringUpFails,
       CleanupEvict, HeartbeatReads, HeartbeatWrites, Reads, Evicts
  <1>2. CASE Environment \/ Cli
    BY <1>0, <1>2, Zenon DEF Environment, Cli, Submitted, ScriptDies, EngineExits, JobLeaves, TimeLimit,
       StatusLists, DownLists, DownCancels, CliEvicts, Evicts
  <1>3. CASE Supervisor
    BY <1>0, <1>3, Zenon DEF Supervisor, SupRefreshes, PollSkipped, PollQuiet, PollActive, SupReads, SupTouches,
       SupLists, Decide, SupDrains, SupCancels, SupListsAgain, SupSweeps, Reads, Evicts
  <1>4. CASE UNCHANGED vars
    BY <1>0, <1>4, Zenon DEF vars
  <1>. QED  BY <1>1, <1>2, <1>3, <1>4 DEF Next

(* JobRecord is type-correct: every published state is one of the          *)
(* registry's, whichever writer's copy the file holds.                     *)
THEOREM TypeCorrect == Spec => []TypeOK
  <1>1. AnsweredIInv /\ overlapped \in BOOLEAN => TypeOK
    BY DEF AnsweredIInv, TypeOK
  <1>2. Init => overlapped \in BOOLEAN
    BY Zenon DEF Init
  <1>3. overlapped \in BOOLEAN /\ [Next]_vars => (overlapped \in BOOLEAN)'
    BY OverlapStays
  <1>. QED  BY <1>1, <1>2, <1>3, AnsweredAlways, PTL DEF Spec

(* Whatever the writers' overlaps, a READY or drained record belongs to a  *)
(* job whose engine answered on /v1/models (registry.heartbeat_from_job    *)
(* under all its callers).                                                 *)
THEOREM ReadyIsNeverInvented == Spec => []ServedHasAnswered
  <1>1. AnsweredIInv => ServedHasAnswered
    BY DEF AnsweredIInv, ServedHasAnswered, Invented
  <1>. QED  BY <1>1, AnsweredAlways, PTL

-----------------------------------------------------------------------------
(* Until writers overlap.                                                  *)

\* A step of the lifecycle, or none.
Forward(s, t) == t = s \/ t = "none" \/ (t \in DOMAIN Life!Order /\ Life!Order[s] < Life!Order[t])

\* As long as nobody overlaps, a writer reads and a record is evicted in quiet.
LEMMA QuietRead ==
    ASSUME ~overlapped', ForwardIInv, NEW w \in Writers, Reads(w), disk' = disk
    PROVE  CopiesCurrent'
  <1>1. \A v \in Writers : copy'[v] # NoRecord => v = w
    BY DEF Reads, Quiet, ForwardIInv, Types
  <1>2. copy'[w] = HeartbeatFromJob(disk)
    BY DEF Reads, ForwardIInv, Types
  <1>. QED  BY <1>1, <1>2 DEF CopiesCurrent

\* A write is the last copy's.
LEMMA LastWrite ==
    ASSUME ForwardIInv, NEW w \in Writers, NEW r \in Records, Writes(w, r)
    PROVE  CopiesCurrent' /\ \A v \in Writers : copy'[v] = NoRecord
BY DEF ForwardIInv, CopiesCurrent, Types, Writes

\* The copies that are left are still current when the record is unchanged.
LEMMA FewerCopies ==
    ASSUME ForwardIInv, disk' = disk, copy' \in [Writers -> Records],
           \A w \in Writers : copy'[w] \in {copy[w], NoRecord}
    PROVE  CopiesCurrent'
BY DEF ForwardIInv, CopiesCurrent

\* A copy written back changes nothing, unless the record was missing.
LEMMA CopyState ==
    ASSUME ForwardIInv, NEW w \in Writers, copy[w] # NoRecord
    PROVE  /\ copy[w] \in Records
           /\ disk # NoRecord => copy[w] = disk
           /\ disk = NoRecord => copy[w].state = "queued"
BY DEF ForwardIInv, CopiesCurrent, Types, HeartbeatFromJob, Blank

LEMMA BlankState == NoRecord.state = "none" /\ "none" \in NotYetReady /\ "queued" \in NotYetReady
BY DEF NoRecord, NotYetReady

\* The supervisor before READY and on the way to a failure, written as what
\* the phases of the script exclude.
Phases == CopiesPlaced /\ BeforeReady /\ BeforeFailed

LEMMA ScriptWritesForward ==
    ASSUME ~overlapped', ForwardIInv, Types', ScriptWrites
    PROVE  Phases' /\ CopiesCurrent' /\ Forward(disk.state, disk'.state)
  <1>1. PICK p \in Publications :
            /\ Goto(p[1], p[3])
            /\ Writes("script", [copy["script"] EXCEPT !.state = p[2],
                                    !.placed = @ \/ p[1] = "started"])
            /\ beating' = (beating \/ p[1] = "started")
            /\ UNCHANGED <<sup, cli, answered>>
    BY DEF ScriptWrites
  <1>2. "script" \in Writers /\ copy["script"] \in Records /\ copy["script"] # NoRecord
    BY <1>1 DEF ForwardIInv, Types, Writers, Writes
  <1>3. disk' \in Records /\ disk'.state = p[2] /\ disk' # NoRecord
    <2>1. p[2] # "none"
      BY PublicationFacts
    <2>2. disk'.state = p[2]
      BY <1>1, <1>2 DEF Writes, Records
    <2>. QED  BY <2>1, <2>2 DEF Types, NoRecord
  <1>4. main = p[1] /\ main' = p[3] /\ sup' = sup
    BY <1>1 DEF Goto
  <1>5. CopiesCurrent' /\ \A w \in Writers : copy'[w] = NoRecord
    BY <1>1, <1>2, <1>3, LastWrite DEF Writes
  <1>6. CopiesPlaced'
    BY <1>5 DEF CopiesPlaced, Writers
  <1>7. \/ main = "started" /\ disk'.state = "loading" /\ main' = "loading"
        \/ main = "answered" /\ disk'.state = "ready" /\ main' = "serving"
        \/ main = "failing" /\ disk'.state = "failed" /\ main' = "exit"
        \/ main = "probeTerm" /\ disk'.state = "draining" /\ main' = "probeEvict"
        \/ main \in {"term", "exit"} /\ disk'.state = "draining" /\ main' \in {"termEvict", "exitEvict"}
    BY <1>3, <1>4 DEF Publications
  <1>8. BeforeReady' /\ BeforeFailed'
    BY <1>4, <1>5, <1>7, <1>1 DEF ForwardIInv, BeforeReady, BeforeFailed,
                                  HeartbeatOver, NotYetReady, Writers
  <1>9. Forward(disk.state, disk'.state)
    BY <1>7 DEF ForwardIInv, Types, Records, RecordStates, BeforeReady,
       BeforeFailed, NotYetReady, Forward, Life!Order
  <1>. QED  BY <1>5, <1>6, <1>8, <1>9 DEF Phases

\* The heartbeat's and the supervisor's writes.
LEMMA OthersWriteForward ==
    ASSUME ~overlapped', ForwardIInv, Types', HeartbeatWrites \/ SupTouches \/ SupDrains
    PROVE  Phases' /\ CopiesCurrent' /\ Forward(disk.state, disk'.state)
  <1>1. CASE HeartbeatWrites
    <2>1. /\ "heartbeat" \in Writers /\ copy["heartbeat"] # NoRecord
          /\ disk' = copy["heartbeat"] /\ main' = main /\ sup' = sup /\ beating' = beating
      BY <1>1 DEF HeartbeatWrites, Writes, Writers
    <2>2. CopiesCurrent' /\ \A w \in Writers : copy'[w] = NoRecord
      BY <1>1, <2>1, LastWrite, CopyState DEF HeartbeatWrites
    <2>3. /\ disk' = disk \/ (disk.state = "none" /\ disk'.state = "queued")
          /\ disk = NoRecord => disk.state = "none"
      BY <2>1, CopyState, BlankState
    <2>4. Phases'
      BY <2>1, <2>2, <2>3 DEF Phases, ForwardIInv, CopiesPlaced, BeforeReady, BeforeFailed,
                              HeartbeatOver, NotYetReady, Writers
    <2>. QED  BY <2>2, <2>3, <2>4 DEF Forward, Life!Order
  <1>2. CASE SupTouches \/ SupDrains
    <2>1. /\ "supervisor" \in Writers /\ copy["supervisor"] # NoRecord
          /\ sup \in {"touch", "drain"} /\ sup' \in {"squeue", "list"}
          /\ main' = main /\ beating' = beating
          /\ \/ disk' = copy["supervisor"]
             \/ disk' = [copy["supervisor"] EXCEPT !.state = "draining", !.since = "counting"]
      BY <1>2 DEF SupTouches, SupDrains, SupGoto, Writes, Writers
    <2>2. disk' \in Records /\ Writes("supervisor", disk')
      BY <1>2 DEF Types, SupTouches, SupDrains, Writes
    <2>3. CopiesCurrent' /\ \A w \in Writers : copy'[w] = NoRecord
      BY <2>1, <2>2, LastWrite
    <2>4. /\ disk' = disk \/ (disk.state = "none" /\ disk'.state = "queued")
             \/ disk'.state = "draining"
          /\ disk.state \in RecordStates
      <3>1. disk \in Records /\ copy["supervisor"] \in Records
        BY <2>1, CopyState DEF ForwardIInv, Types
      <3>2. disk'.state \in {copy["supervisor"].state, "draining"}
        BY <2>1, <3>1 DEF Records
      <3>3. disk'.state = "draining" \/ disk' = copy["supervisor"]
        BY <2>1, <3>1 DEF Records
      <3>. QED  BY <2>1, <3>1, <3>3, CopyState, BlankState DEF Records
    <2>5. Phases'
      <3>1. CopiesPlaced'
        BY <2>3 DEF CopiesPlaced, Writers
      <3>2. main \notin {"none", "queued", "started", "loading", "answered", "probeTerm",
                         "probeEvict", "probed", "failing"}
        BY <2>1 DEF ForwardIInv, BeforeReady, BeforeFailed
      <3>. QED  BY <2>1, <3>1, <3>2 DEF Phases, BeforeReady, BeforeFailed
    <2>. QED  BY <2>3, <2>4, <2>5 DEF Forward, Life!Order, RecordStates
  <1>. QED  BY <1>1, <1>2

\* Evictions.
LEMMA EvictsForward ==
    ASSUME ~overlapped', ForwardIInv, Types', CleanupEvict \/ CliEvicts \/ SupSweeps
    PROVE  Phases' /\ CopiesCurrent' /\ Forward(disk.state, disk'.state)
  <1>1. /\ disk' = NoRecord /\ Quiet /\ copy' = copy /\ beating' = beating
        /\ sup' = sup \/ sup' = "refresh"
        /\ main' = main \/ (\E e \in Evictions : main = e[1] /\ main' = e[2])
    BY DEF CleanupEvict, CliEvicts, SupSweeps, Evicts, Goto, CliGoto, SupGoto
  <1>2. \A w \in Writers : copy'[w] = NoRecord
    BY <1>1 DEF Quiet
  <1>3. CopiesCurrent' /\ CopiesPlaced'
    BY <1>2 DEF CopiesCurrent, CopiesPlaced, Writers
  <1>4. main' = main \/ (main = "probeEvict" /\ main' = "probed") \/ main' \in {"exit", "done"}
    BY <1>1 DEF Evictions
  <1>5. BeforeReady' /\ BeforeFailed'
    BY <1>1, <1>2, <1>4, BlankState DEF ForwardIInv, BeforeReady, BeforeFailed, HeartbeatOver,
                                        NotYetReady, Writers
  <1>6. Forward(disk.state, disk'.state)
    BY <1>1, BlankState DEF Forward
  <1>. QED  BY <1>3, <1>5, <1>6 DEF Phases

\* Reads.
LEMMA ReadsForward ==
    ASSUME ~overlapped', ForwardIInv, Types', ScriptReads \/ HeartbeatReads \/ SupReads
    PROVE  Phases' /\ CopiesCurrent' /\ disk' = disk
  <1>1. disk' = disk /\ main' = main /\ sup' = sup /\ beating' = beating
    BY DEF ScriptReads, HeartbeatReads, SupReads
  <1>2. CASE ScriptReads
    <2>1. Reads("script") /\ "script" \in Writers /\ \E p \in Publications : main = p[1]
      BY <1>2 DEF ScriptReads, Writers
    <2>2. copy'["heartbeat"] = copy["heartbeat"] /\ copy'["supervisor"] = copy["supervisor"]
      BY <2>1 DEF Reads, ForwardIInv, Types, Writers
    <2>. QED  BY <1>1, <2>1, <2>2, QuietRead DEF Phases, ForwardIInv, CopiesPlaced, BeforeReady,
              BeforeFailed, HeartbeatOver
  <1>3. CASE HeartbeatReads
    <2>1. Reads("heartbeat") /\ "heartbeat" \in Writers /\ beating
      BY <1>3 DEF HeartbeatReads, Writers
    <2>2. copy'["script"] = copy["script"] /\ copy'["supervisor"] = copy["supervisor"]
      BY <2>1 DEF Reads, ForwardIInv, Types, Writers
    <2>. QED  BY <1>1, <2>1, <2>2, QuietRead DEF Phases, ForwardIInv, CopiesPlaced, BeforeReady,
              BeforeFailed, HeartbeatOver
  <1>4. CASE SupReads
    <2>1. Reads("supervisor") /\ "supervisor" \in Writers /\ sup \in {"touch", "drain"}
      BY <1>4 DEF SupReads, Writers
    <2>2. copy'["script"] = copy["script"] /\ copy'["heartbeat"] = copy["heartbeat"]
      BY <2>1 DEF Reads, ForwardIInv, Types, Writers
    <2>. QED  BY <1>1, <2>1, <2>2, QuietRead DEF Phases, ForwardIInv, CopiesPlaced, BeforeReady,
              BeforeFailed, HeartbeatOver
  <1>. QED  BY <1>2, <1>3, <1>4, <1>1

\* A SIGTERM, whoever sent it: the supervisor at most leaves a phase.
LEMMA CancelForward ==
    ASSUME ForwardIInv, Types', Cancel, disk' = disk,
           sup' = sup \/ sup' \in {"squeue", "list"}, copy["supervisor"] # NoRecord => sup' = sup
    PROVE  Phases' /\ CopiesCurrent'
  <1>1. \A w \in Writers : copy'[w] \in {copy[w], NoRecord}
    BY CancelFacts DEF ForwardIInv
  <1>2. CopiesCurrent'
    BY <1>1, FewerCopies DEF Types
  <1>3. CASE UNCHANGED <<main, beating, copy>>
    BY <1>2, <1>3 DEF Phases, ForwardIInv, CopiesPlaced, BeforeReady, BeforeFailed, HeartbeatOver
  <1>4. CASE main' \in Cancelled(main) /\ Killed
    <2>1. /\ main' \in {"gone", "term", "probeTerm"}
          /\ main' = "probeTerm" => main = "loading"
      BY <1>4 DEF Cancelled
    <2>2. /\ copy'["script"] = NoRecord /\ copy'["heartbeat"] = NoRecord /\ beating' = FALSE
          /\ copy'["supervisor"] = copy["supervisor"]
      BY <1>4 DEF Killed, ForwardIInv, Types, Writers
    <2>. QED  BY <1>2, <2>1, <2>2 DEF Phases, ForwardIInv, CopiesPlaced, BeforeReady,
              BeforeFailed, HeartbeatOver
  <1>. QED  BY <1>2, <1>3, <1>4 DEF Cancel

\* The steps of the script, Slurm and the operator that write nothing.
LEMMA JobForward ==
    ASSUME ForwardIInv, Types',
           \/ SlurmStarts \/ EngineAnswers \/ BringUpFails \/ Submitted \/ ScriptDies \/ EngineExits
           \/ JobLeaves \/ TimeLimit \/ StatusLists \/ DownLists \/ DownCancels
    PROVE  Phases' /\ CopiesCurrent' /\ disk' = disk
  <1>1. CASE SlurmStarts \/ Submitted
    BY <1>1 DEF SlurmStarts, Submitted, Goto, Phases, ForwardIInv, CopiesCurrent,
        CopiesPlaced, BeforeReady, BeforeFailed, HeartbeatOver, Publications
  <1>2. CASE EngineAnswers
    BY <1>2 DEF EngineAnswers, Goto, Phases, ForwardIInv, CopiesCurrent,
        CopiesPlaced, BeforeReady, BeforeFailed, HeartbeatOver, Publications
  <1>3. CASE BringUpFails
    BY <1>3 DEF BringUpFails, Goto, Phases, ForwardIInv, CopiesCurrent,
        CopiesPlaced, BeforeReady, BeforeFailed, HeartbeatOver, Publications
  <1>4. CASE EngineExits \/ ScriptDies
    BY <1>4 DEF EngineExits, ScriptDies, Goto, Phases, ForwardIInv, CopiesCurrent,
        CopiesPlaced, BeforeReady, BeforeFailed, HeartbeatOver, Publications
  <1>5. CASE JobLeaves
    <2>1. /\ copy'["script"] = NoRecord /\ copy'["heartbeat"] = NoRecord
          /\ copy'["supervisor"] = copy["supervisor"]
          /\ main' = "gone" /\ sup' = sup /\ disk' = disk
      BY <1>5 DEF JobLeaves, Killed, ForwardIInv, Types, Writers
    <2>2. CopiesCurrent'
      BY <2>1, FewerCopies DEF Types, Writers
    <2>. QED  BY <2>1, <2>2 DEF Phases, ForwardIInv, CopiesPlaced, BeforeReady,
              BeforeFailed, HeartbeatOver
  <1>6. CASE TimeLimit \/ DownCancels
    BY <1>6, CancelForward DEF TimeLimit, DownCancels
  <1>7. CASE StatusLists \/ DownLists
    BY <1>7 DEF StatusLists, DownLists, Phases, ForwardIInv, CopiesCurrent,
        CopiesPlaced, BeforeReady, BeforeFailed, HeartbeatOver
  <1>. QED  BY <1>1, <1>2, <1>3, <1>4, <1>5, <1>6, <1>7

\* The steps of the tick that write nothing: it gets to "drain" and "touch"
\* on a READY record, or a DRAINING one of an engine that still answers.
LEMMA TickForward ==
    ASSUME ForwardIInv, Types',
           \/ SupRefreshes \/ PollSkipped \/ PollQuiet \/ PollActive \/ SupLists
           \/ Decide \/ SupCancels \/ SupListsAgain
    PROVE  Phases' /\ CopiesCurrent' /\ disk' = disk
  <1>0. copy["supervisor"] # NoRecord => sup \in {"touch", "drain"}
    BY DEF ForwardIInv, CopiesPlaced
  <1>1. CASE SupRefreshes
    BY <1>0, <1>1 DEF SupRefreshes, Phases, ForwardIInv, CopiesCurrent,
        CopiesPlaced, BeforeReady, BeforeFailed, HeartbeatOver, NotYetReady
  <1>2. CASE PollSkipped \/ SupLists \/ SupListsAgain
    BY <1>0, <1>2 DEF PollSkipped, SupLists, SupListsAgain, SupGoto, Phases, ForwardIInv,
        CopiesCurrent, CopiesPlaced, BeforeReady, BeforeFailed, HeartbeatOver
  <1>3. CASE PollQuiet \/ SupCancels
    BY <1>0, <1>3, CancelForward DEF PollQuiet, SupCancels, SupGoto
  <1>4. CASE PollActive
    BY <1>0, <1>4 DEF PollActive, SupGoto, EngineUp, Phases, ForwardIInv, CopiesCurrent,
        CopiesPlaced, BeforeReady, BeforeFailed, HeartbeatOver
  <1>5. CASE Decide
    BY <1>0, <1>5 DEF Decide, SupGoto, Phases, ForwardIInv, CopiesCurrent,
        CopiesPlaced, BeforeReady, BeforeFailed, HeartbeatOver, NotYetReady
  <1>. QED  BY <1>1, <1>2, <1>3, <1>4, <1>5

ForwardUntilOverlap == ~overlapped => ForwardIInv

(* As long as no two writers of a record have overlapped, its state goes   *)
(* through the lifecycle of docs/architecture.md section 4 forward only,   *)
(* until it is evicted, whatever the interleaving of the script, the       *)
(* supervisor's tick and the operator: JobRecord implements Lifecycle.     *)
THEOREM RecordMovesForward == Spec => MovesForward
  <1>1. Init => AnsweredIInv /\ ForwardUntilOverlap /\ Life!Init
    <2>. SUFFICES ASSUME Init PROVE AnsweredIInv /\ ForwardIInv /\ Life!Init
      BY DEF ForwardUntilOverlap
    <2>1. AnsweredIInv
      BY HeartbeatFacts, PlaceFacts DEF Init, AnsweredIInv, Types, SupPCs, Writers, Invented
    <2>2. CopiesCurrent /\ CopiesPlaced
      BY DEF Init, CopiesCurrent, CopiesPlaced, Writers
    <2>3. BeforeReady /\ BeforeFailed
      BY BlankState DEF Init, BeforeReady, BeforeFailed, HeartbeatOver, Writers
    <2>4. Life!Init
      BY BlankState DEF Init, Life!Init, Shown
    <2>. QED  BY <2>1, <2>2, <2>3, <2>4 DEF AnsweredIInv, ForwardIInv
  <1>2. ASSUME TypeOK, AnsweredIInv, ForwardUntilOverlap, [Next]_vars
        PROVE  AnsweredIInv' /\ ForwardUntilOverlap' /\ [Life!Next]_Shown
    <2>1. AnsweredIInv'
      <3>1. CASE UNCHANGED vars
        BY <1>2, <3>1 DEF vars, AnsweredIInv, Types, Invented
      <3>. QED  BY <1>2, <3>1, ScriptKeepsAnswered, EnvironmentKeepsAnswered,
                   SupervisorKeepsAnswered DEF Next
    <2>2. Types'
      BY <2>1 DEF AnsweredIInv
    <2>3. CASE overlapped'
      <3>1. ForwardUntilOverlap' /\ Shown' = "none"
        BY <2>3 DEF ForwardUntilOverlap, Shown
      <3>. QED  BY <2>1, <3>1 DEF Life!Next, Life!Evict
    <2>4. CASE ~overlapped'
      <3>0. ~overlapped /\ ForwardIInv
        BY <1>2, <2>4, OverlapStays DEF ForwardUntilOverlap, TypeOK
      <3>1. Phases' /\ CopiesCurrent' /\ Forward(disk.state, disk'.state)
        <4>1. CASE UNCHANGED vars
          BY <3>0, <4>1 DEF vars, Phases, ForwardIInv, CopiesCurrent, CopiesPlaced, BeforeReady,
                            BeforeFailed, HeartbeatOver, Forward
        <4>2. CASE Script \/ HeartbeatReads \/ HeartbeatWrites
          BY <2>2, <2>4, <3>0, <4>2, ScriptWritesForward, OthersWriteForward, EvictsForward,
             ReadsForward, JobForward DEF Script, Forward
        <4>3. CASE Environment \/ Cli
          BY <2>2, <2>4, <3>0, <4>3, EvictsForward, JobForward DEF Environment, Cli, Forward
        <4>4. CASE Supervisor
          BY <2>2, <2>4, <3>0, <4>4, OthersWriteForward, EvictsForward, ReadsForward, TickForward
             DEF Supervisor, Forward
        <4>. QED  BY <1>2, <4>1, <4>2, <4>3, <4>4 DEF Next
      <3>2. Shown = disk.state /\ Shown' = disk'.state
        BY <2>4, <3>0 DEF Shown
      <3>3. [Life!Next]_Shown
        BY <3>1, <3>2 DEF Forward, Life!Next, Life!Advance, Life!Evict
      <3>. QED  BY <2>1, <2>2, <3>1, <3>3 DEF ForwardUntilOverlap, ForwardIInv, Phases
    <2>. QED  BY <2>3, <2>4
  <1>. QED  BY <1>1, <1>2, TypeCorrect, PTL DEF Spec, MovesForward, Life!Spec
=============================================================================
