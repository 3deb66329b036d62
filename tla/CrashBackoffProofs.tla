------------------------- MODULE CrashBackoffProofs -------------------------
(***************************************************************************)
(* Type correctness of CrashBackoff, and for any number of jobs, commands  *)
(* and failures: without a lock concurrent records may lose a failure, but *)
(* the count never exceeds the failures since the last reset, unless that  *)
(* reset fell into a record or a cancel since then into a readiness probe; *)
(* and as long as no operator acts, none is lost.                          *)
(***************************************************************************)
EXTENDS CrashBackoff, TLAPS

(* Another counts up to MAX_CONSECUTIVE and keeps the order.               *)
LEMMA AnotherFacts ==
    /\ \A n \in 0..MaxConsecutive : Another(n) \in 0..MaxConsecutive
    /\ \A m, n \in 0..MaxConsecutive : m <= n => Another(m) <= Another(n) /\ m <= Another(n)
BY CrashBackoffAssumption DEF Another

LEMMA FlagReset == Resets => tainted' \in BOOLEAN
<1>1. ASSUME Resets, \E j \in Jobs : Late(j) PROVE tainted' = TRUE
  BY <1>1, Zenon DEF Resets
<1>2. ASSUME Resets, ~(\E j \in Jobs : Late(j)) PROVE tainted' = FALSE
  BY <1>2, Zenon DEF Resets
<1>3. QED
  BY <1>1, <1>2, Zenon

(* Type correctness.                                                       *)
THEOREM TypeCorrect == Spec => []TypeOK
<1> USE CrashBackoffAssumption
<1>1. Init => TypeOK
  <2>1. Init => works \in BOOLEAN /\ tainted \in BOOLEAN
    BY Zenon DEF Init
  <2>2. QED
    BY <2>1 DEF Init, TypeOK, Phases
<1>2. TypeOK /\ [Next]_vars => TypeOK'
  <2> SUFFICES ASSUME TypeOK, [Next]_vars PROVE TypeOK'
    OBVIOUS
  <2> USE DEF TypeOK, Phases, Goto, Resets, counts
  <2>1. CASE UpResets
    BY <2>1 DEF UpResets
  <2>2. ASSUME NEW j \in Jobs, Launches(j) \/ UpSubmits(j)
        PROVE  TypeOK'
    BY <2>2 DEF Launches, UpSubmits, Submits
  <2>3. ASSUME NEW j \in Jobs, Cancelled(j)
        PROVE  TypeOK'
    <3>1. phase' \in [Jobs -> Phases] /\ works' = works
      BY <2>3 DEF Cancelled
    <3>2. tainted' = tainted \/ tainted' = TRUE
      BY <2>3, Zenon DEF Cancelled
    <3>3. tainted' \in BOOLEAN
      BY <3>2, Zenon
    <3>4. commands' \in 0..MaxCommands
      BY <2>3 DEF Cancelled
    <3>5. cancelled' \subseteq Jobs
      BY <2>3 DEF Cancelled
    <3>6. UNCHANGED <<seen, count, failed, op>>
      BY <2>3 DEF Cancelled
    <3>7. QED
      BY <3>1, <3>3, <3>4, <3>5, <3>6
  <2>4. ASSUME NEW j \in Jobs,
               \/ Starts(j) \/ EngineAnswers(j) \/ ReadyResets(j)
               \/ BringUpFails(j) \/ EndsUncounted(j) \/ EngineExits(j)
        PROVE  TypeOK'
    <3>1. phase' \in [Jobs -> Phases] /\ UNCHANGED <<works, seen, cancelled, op, commands>>
      BY <2>4 DEF Starts, EngineAnswers, ReadyResets, BringUpFails, EndsUncounted, EngineExits
    <3>2. UNCHANGED counts \/ Resets
      BY <2>4, Zenon
         DEF Starts, EngineAnswers, ReadyResets, BringUpFails, EndsUncounted, EngineExits
    <3>3. tainted' \in BOOLEAN
      <4>1. tainted \in BOOLEAN
        BY DEF TypeOK
      <4>2. CASE UNCHANGED counts
        <5>1. tainted' = tainted
          BY <4>2
        <5>2. QED
          BY <4>1, <5>1, Zenon
      <4>3. CASE Resets
        BY <4>3, FlagReset, Zenon
      <4>4. QED
        BY <3>2, <4>2, <4>3
    <3>4. (count' = count /\ failed' = failed) \/ (count' = 0 /\ failed' = 0)
      BY <3>2, Zenon
    <3>5. count' \in 0..MaxConsecutive /\ failed' \in 0..MaxConsecutive
      BY <3>4
    <3>6. QED
      BY <3>1, <3>3, <3>5
  <2>5. ASSUME NEW j \in Jobs, RecordReads(j) \/ RecordWrites(j)
        PROVE  TypeOK'
    BY <2>5, AnotherFacts DEF RecordReads, RecordWrites
  <2>6. CASE UNCHANGED vars
    BY <2>6 DEF vars
  <2>7. QED
    BY <2>1, <2>2, <2>3, <2>4, <2>5, <2>6 DEF Next, JobSteps
<1>3. QED
  BY <1>1, <1>2, PTL DEF Spec

\* What a record under way has read is no more than what has failed since,
\* and a job that was told to end has ended, or is one whose cancel taints.
RecordsAreReal ==
    /\ \A j \in cancelled : phase[j] \in {"none", "fail", "record"}
    /\ ~tainted =>
        /\ count <= failed
        /\ \A j \in Jobs : phase[j] = "record" => seen[j] <= failed
        /\ \A j \in cancelled : phase[j] = "none"

(* A reset starts a count that is real, or is tainted.                     *)
LEMMA ResetIsReal ==
    ASSUME TypeOK, RecordsAreReal, Resets
    PROVE  ~tainted' => /\ count' <= failed'
                        /\ \A j \in Jobs : phase[j] # "record"
                        /\ \A j \in cancelled : phase[j] = "none"
BY DEF TypeOK, RecordsAreReal, Resets, Late

(* For any number of jobs whose reads and writes of the count overlap, any *)
(* resets, cancels and uncounted endings: nothing but a bring-up that      *)
(* failed by itself counts, or a reset or cancel has tainted the count.    *)
THEOREM NoFailureIsInvented == Spec => []CountIsReal
<1> USE CrashBackoffAssumption
<1>1. Init => RecordsAreReal
  BY DEF Init, RecordsAreReal
<1>2. TypeOK /\ RecordsAreReal /\ [Next]_vars => RecordsAreReal'
  <2> SUFFICES ASSUME TypeOK, RecordsAreReal, [Next]_vars PROVE RecordsAreReal'
    OBVIOUS
  <2> USE DEF TypeOK, RecordsAreReal, Goto, counts
  <2>1. CASE UpResets
    BY <2>1, ResetIsReal DEF UpResets
  <2>2. ASSUME NEW j \in Jobs, Launches(j) \/ UpSubmits(j)
        PROVE  RecordsAreReal'
    BY <2>2 DEF Launches, UpSubmits, Submits
  <2>3. ASSUME NEW j \in Jobs, Cancelled(j)
        PROVE  RecordsAreReal'
    BY <2>3 DEF Cancelled
  <2>4. ASSUME NEW j \in Jobs, Starts(j) \/ EngineAnswers(j) \/ EndsUncounted(j) \/ EngineExits(j)
        PROVE  RecordsAreReal'
    BY <2>4 DEF Starts, EngineAnswers, EndsUncounted, EngineExits
  <2>5. ASSUME NEW j \in Jobs, ReadyResets(j)
        PROVE  RecordsAreReal'
    <3>1. j \notin cancelled
      BY <2>5 DEF ReadyResets
    <3>2. QED
      BY <2>5, <3>1, ResetIsReal DEF ReadyResets
  <2>6. ASSUME NEW j \in Jobs, BringUpFails(j)
        PROVE  RecordsAreReal'
    BY <2>6 DEF BringUpFails
  <2>7. ASSUME NEW j \in Jobs, RecordReads(j)
        PROVE  RecordsAreReal'
    BY <2>7 DEF RecordReads
  <2>8. ASSUME NEW j \in Jobs, RecordWrites(j)
        PROVE  RecordsAreReal'
    <3>1. /\ phase[j] = "record" /\ phase' = [phase EXCEPT ![j] = "none"]
          /\ count' = Another(seen[j]) /\ UNCHANGED <<seen, cancelled, tainted>>
      BY <2>8 DEF RecordWrites
    <3>2. \A k \in cancelled : phase'[k] \in {"none", "fail", "record"}
      BY <3>1
    <3>3. ASSUME ~tainted
          PROVE  /\ count' <= failed'
                 /\ \A k \in Jobs : phase'[k] = "record" => seen[k] <= failed'
                 /\ \A k \in cancelled : phase'[k] = "none"
      <4>1. j \notin cancelled /\ seen[j] <= failed
        BY <3>1, <3>3
      <4>2. failed' = Another(failed)
        BY <2>8, <4>1 DEF RecordWrites
      <4>3. failed <= failed' /\ count' <= failed' /\ failed' \in Nat
        BY <3>1, <4>1, <4>2, AnotherFacts
      <4>4. QED
        BY <3>1, <3>3, <4>3
    <3>4. QED
      BY <3>1, <3>2, <3>3
  <2>9. CASE UNCHANGED vars
    BY <2>9 DEF vars
  <2>10. QED
    BY <2>1, <2>2, <2>3, <2>4, <2>5, <2>6, <2>7, <2>8, <2>9 DEF Next, JobSteps
<1>3. RecordsAreReal => CountIsReal
  BY DEF RecordsAreReal, CountIsReal
<1>4. QED
  BY <1>1, <1>2, <1>3, TypeCorrect, PTL DEF Spec

-----------------------------------------------------------------------------

\* Left to itself the supervisor has one bring-up at a time, and nothing else
\* adds to the count between the read and the write of its failure.
OneAtATime ==
    /\ op = "rest" /\ cancelled = {}
    /\ \A j, k \in Coming : j = k
    /\ failed <= count
    /\ \A j \in Jobs : phase[j] = "record" => failed <= seen[j]

UnlessCommanded == commands = 0 => OneAtATime

(* For any number of jobs and failures, and resets by jobs that come up:   *)
(* without cancels and launches of an operator every failed bring-up is    *)
(* counted, for all that record takes no lock.                             *)
THEOREM EveryFailureCounts == Spec => []NoCountLost
<1> USE CrashBackoffAssumption
<1>1. Init => UnlessCommanded
  BY DEF Init, UnlessCommanded, OneAtATime, Coming
<1>2. TypeOK /\ UnlessCommanded /\ [Next]_vars => UnlessCommanded'
  <2> SUFFICES ASSUME TypeOK, UnlessCommanded, [Next]_vars, commands' = 0
               PROVE  OneAtATime'
    BY DEF UnlessCommanded
  <2>1. ASSUME UpResets \/ \E j \in Jobs : Cancelled(j)
        PROVE  FALSE
    BY <2>1 DEF UpResets, Cancelled, TypeOK
  <2>2. OneAtATime
    BY <2>1 DEF UnlessCommanded, Next, vars, Launches, UpSubmits, JobSteps, Starts, EngineAnswers,
                ReadyResets, BringUpFails, RecordReads, RecordWrites, EndsUncounted, EngineExits
  <2> USE <2>2 DEF TypeOK, OneAtATime, Coming, Goto, counts
  <2>3. ASSUME NEW j \in Jobs, Launches(j)
        PROVE  OneAtATime'
    BY <2>3 DEF Launches, Submits
  <2>4. ASSUME NEW j \in Jobs, Starts(j) \/ EngineAnswers(j) \/ EndsUncounted(j) \/ EngineExits(j)
        PROVE  OneAtATime'
    BY <2>4 DEF Starts, EngineAnswers, EndsUncounted, EngineExits
  <2>5. ASSUME NEW j \in Jobs, ReadyResets(j)
        PROVE  OneAtATime'
    BY <2>5 DEF ReadyResets, Resets
  <2>6. ASSUME NEW j \in Jobs, BringUpFails(j) \/ RecordReads(j)
        PROVE  OneAtATime'
    BY <2>6 DEF BringUpFails, RecordReads
  <2>7. ASSUME NEW j \in Jobs, RecordWrites(j)
        PROVE  OneAtATime'
    <3>1. /\ phase[j] = "record" /\ phase' = [phase EXCEPT ![j] = "none"]
          /\ count' = Another(seen[j]) /\ failed' = Another(failed)
          /\ UNCHANGED <<seen, cancelled, op>>
      BY <2>7 DEF RecordWrites
    <3>2. failed' <= count'
      BY <3>1, AnotherFacts
    <3>3. \A k \in Jobs : phase'[k] # "record"
      BY <3>1
    <3>4. \A k, l \in Coming' : k = l
      BY <3>1
    <3>5. QED
      BY <3>1, <3>2, <3>3, <3>4
  <2>8. CASE UNCHANGED vars
    BY <2>8 DEF vars
  <2>9. QED
    BY <2>1, <2>3, <2>4, <2>5, <2>6, <2>7, <2>8 DEF Next, JobSteps, UpSubmits
<1>3. UnlessCommanded => NoCountLost
  BY DEF UnlessCommanded, OneAtATime, NoCountLost
<1>4. QED
  BY <1>1, <1>2, <1>3, TypeCorrect, PTL DEF Spec
=============================================================================
