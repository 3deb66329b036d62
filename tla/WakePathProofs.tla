--------------------------- MODULE WakePathProofs ---------------------------
(***************************************************************************)
(* Type correctness of WakePath, and for every value of its clocks and any *)
(* number of faults: a cleared demand holds no nodes; and as long as every *)
(* poll was answered and the heartbeat beat, only an idle backend is       *)
(* reaped; a dead backend is routed to no longer than its heartbeat counts *)
(* as fresh; and a start the waker promised follows in time, unless a      *)
(* fault breaks the promise.                                               *)
(***************************************************************************)
EXTENDS WakePath, TLAPS

(* Ages stay below their bound, and keep their order.                      *)
LEMMA OlderFacts ==
    /\ \A max \in Nat : \A a \in 0..max : Older(a, max) \in 0..max
    /\ \A max \in Nat : \A a, b \in 0..max : a <= b => Older(a, max) <= Older(b, max)
BY DEF Older

\* TypeOK in parts, since no prover treats flags, sets and numbers all well.
Flags ==
    /\ silent \in BOOLEAN /\ busy \in BOOLEAN /\ unseen \in BOOLEAN
    /\ late \in BOOLEAN /\ synced \in BOOLEAN

Values ==
    /\ job \in Jobs /\ lingers \in 0..Linger
    /\ rec \in {"none", "loading", "ready"} /\ beat \in 0..Stale + 1
    /\ since \in 0..Idle + 1 /\ quiet \in 0..Idle + 1
    /\ desired \in {0, 1}
    /\ pc \in SupPCs /\ toTick \in 0..Tick
    /\ route \in {"waker", "backend"}
    /\ deadFor \in 0..DeadMax /\ told \in 0..PromiseMax
    /\ faults \in 0..MaxFaults

Harms == harm \subseteq {"promise", "sight"}

LEMMA Parts == TypeOK <=> Flags /\ Values /\ Harms
BY DEF TypeOK, Flags, Values, Harms

(* Every step keeps the flags' type.                                       *)
LEMMA FlagsKept ==
    ASSUME Flags, [Next]_vars
    PROVE  Flags'
<1> USE DEF Flags, slurm, record, engine, sup, gw, trouble
<1>1. CASE Wakes \/ Begins \/ Completes
  BY <1>1 DEF Wakes, Begins, Completes
<1>2. CASE JobProgress
  BY <1>2 DEF JobProgress, Starts, EngineAnswers, Leaves
<1>3. CASE EngineExits \/ NodeFails \/ HeartbeatDies
  BY <1>3 DEF EngineExits, Ends, NodeFails, HeartbeatDies
<1>4. CASE Refresh \/ RefreshUnanswered
  BY <1>4 DEF Refresh, RefreshUnanswered, Polls
<1>5. CASE Decides \/ Launches \/ ReapClears \/ Sweeps \/ SupDies \/ SupRestarts
  BY <1>5 DEF Decides, Launches, ReapClears, Sweeps, SupDies, SupRestarts
<1>6. CASE ReapCancels
  BY <1>6 DEF ReapCancels, Ends
<1>7. CASE Syncs \/ Passes
  BY <1>7 DEF Syncs, Routes, Passes
<1>8. CASE UNCHANGED vars
  BY <1>8 DEF vars
<1>9. QED
  BY <1>1, <1>2, <1>3, <1>4, <1>5, <1>6, <1>7, <1>8 DEF Next, Supervisor

(* Every step keeps the types of all the rest.                             *)
LEMMA ValuesKept ==
    ASSUME Values, [Next]_vars
    PROVE  Values'
<1> USE WakePathAssumption
        DEF Values, Jobs, SupPCs, SupGoto, Fault, slurm, record, engine, sup, gw, trouble, PromiseMax
<1>1. CASE Wakes \/ Begins \/ Completes
  BY <1>1 DEF Wakes, Begins, Completes
<1>2. CASE JobProgress
  BY <1>2 DEF JobProgress, Starts, EngineAnswers, Leaves
<1>3. CASE EngineExits \/ NodeFails \/ HeartbeatDies
  BY <1>3 DEF EngineExits, Ends, NodeFails, HeartbeatDies
<1>4. CASE Refresh \/ RefreshUnanswered
  <2>1. /\ UNCHANGED <<job, lingers, rec, quiet, desired, toTick, route, deadFor, told>>
        /\ pc' = "decide"
    BY <1>4 DEF Refresh, RefreshUnanswered, Polls
  <2>2. faults' = faults \/ (faults < MaxFaults /\ faults' = faults + 1)
    BY <1>4 DEF Refresh, RefreshUnanswered, Polls
  <2>3. since' \in {0, since} /\ beat' \in {0, beat}
    BY <1>4 DEF Refresh, RefreshUnanswered, Polls
  <2>4. QED
    BY <2>1, <2>2, <2>3
<1>5. CASE Decides
  <2>1. pc' \in SupPCs
    BY <1>5 DEF Decides
  <2>2. QED
    BY <1>5, <2>1 DEF Decides
<1>6. CASE Launches \/ ReapClears \/ Sweeps
  BY <1>6 DEF Launches, ReapClears, Sweeps
<1>7. CASE ReapCancels
  <2>1. /\ job' \in {job, "leaving"} /\ lingers' \in {lingers, 0} /\ rec' \in {rec, "none"}
        /\ UNCHANGED <<beat, since, quiet, desired, toTick, route, deadFor, told, trouble>>
        /\ pc' = "clear"
    BY <1>7 DEF ReapCancels, Ends
  <2>2. QED
    BY <2>1
<1>8. CASE SupDies \/ SupRestarts
  BY <1>8 DEF SupDies, SupRestarts
<1>9. CASE Syncs
  BY <1>9 DEF Syncs, Routes
<1>10. CASE Passes
  <2>1. Stale + 1 \in Nat /\ Idle + 1 \in Nat /\ DeadMax \in Nat /\ PromiseMax \in Nat
    BY DEF DeadMax
  <2>2. /\ Older(beat, Stale + 1) \in 0..Stale + 1
        /\ Older(since, Idle + 1) \in 0..Idle + 1 /\ Older(quiet, Idle + 1) \in 0..Idle + 1
        /\ Older(deadFor, DeadMax) \in 0..DeadMax /\ Older(told, PromiseMax) \in 0..PromiseMax
    BY <2>1, OlderFacts
  <2>3. /\ beat' \in 0..Stale + 1 /\ since' \in 0..Idle + 1 /\ quiet' \in 0..Idle + 1
        /\ deadFor' \in 0..DeadMax /\ told' \in 0..PromiseMax
    BY <1>10, <2>1, <2>2 DEF Passes
  <2>4. toTick' \in 0..Tick /\ faults' \in 0..MaxFaults /\ lingers' \in 0..Linger
    BY <1>10 DEF Passes
  <2>5. QED
    BY <1>10, <2>3, <2>4 DEF Passes
<1>11. CASE UNCHANGED vars
  BY <1>11 DEF vars
<1>12. QED
  BY <1>1, <1>2, <1>3, <1>4, <1>5, <1>6, <1>7, <1>8, <1>9, <1>10, <1>11 DEF Next, Supervisor

(* Harm is of a known kind and never undone.                               *)
LEMMA HarmStays ==
    ASSUME Harms, [Next]_vars
    PROVE  Harms' /\ harm \subseteq harm'
<1> USE DEF Harms, trouble, Fault
<1>1. CASE Wakes \/ Begins \/ Completes \/ JobProgress \/ EngineExits \/ NodeFails \/ HeartbeatDies
  BY <1>1 DEF Wakes, Begins, Completes, JobProgress, Starts, EngineAnswers, Leaves, EngineExits,
              NodeFails, HeartbeatDies
<1>2. CASE Refresh \/ RefreshUnanswered \/ Decides \/ Launches \/ ReapCancels \/ ReapClears
  BY <1>2 DEF Refresh, RefreshUnanswered, Decides, Launches, ReapCancels, ReapClears
<1>3. CASE Sweeps \/ SupDies \/ SupRestarts \/ Syncs \/ Passes \/ UNCHANGED vars
  BY <1>3 DEF Sweeps, SupDies, SupRestarts, Syncs, Routes, Passes, vars
<1>4. QED
  BY <1>1, <1>2, <1>3 DEF Next, Supervisor

(* Type correctness.                                                       *)
THEOREM TypeCorrect == Spec => []TypeOK
<1>1. Init => TypeOK
  <2>1. Init => Flags
    BY DEF Init, Flags
  <2>2. Init => Values
    BY WakePathAssumption DEF Init, Values, Jobs, SupPCs, DeadMax, PromiseMax
  <2>3. Init => Harms
    BY DEF Init, Harms
  <2>4. QED
    BY <2>1, <2>2, <2>3, Parts
<1>2. TypeOK /\ [Next]_vars => TypeOK'
  <2>1. TypeOK' <=> Flags' /\ Values' /\ Harms'
    BY DEF TypeOK, Flags, Values, Harms
  <2>2. QED
    BY <2>1, Parts, FlagsKept, ValuesKept, HarmStays
<1>3. QED
  BY <1>1, <1>2, PTL DEF Spec

-----------------------------------------------------------------------------

\* Between the reap's cancel and the clearing of the demand no job comes up.
CancelledFirst ==
    /\ ClearedHoldsNoNodes
    /\ pc = "clear" => job \in {"none", "leaving"}

(* Whatever happens to jobs, heartbeats, polls and the supervisor: while   *)
(* the demand is cleared the model holds no nodes.                         *)
THEOREM ClearedIsReleased == Spec => []ClearedHoldsNoNodes
<1>1. Init => CancelledFirst
  BY DEF Init, CancelledFirst, ClearedHoldsNoNodes
<1>2. CancelledFirst /\ [Next]_vars => CancelledFirst'
  <2> SUFFICES ASSUME CancelledFirst, [Next]_vars PROVE CancelledFirst'
    OBVIOUS
  <2> USE DEF CancelledFirst, ClearedHoldsNoNodes, SupGoto, slurm, record, engine, sup, gw, trouble
  <2>1. CASE Wakes \/ Begins \/ Completes \/ Syncs \/ Passes \/ HeartbeatDies
    BY <2>1 DEF Wakes, Begins, Completes, Syncs, Routes, Passes, HeartbeatDies
  <2>2. CASE JobProgress \/ EngineExits \/ NodeFails
    BY <2>2 DEF JobProgress, Starts, EngineAnswers, Leaves, EngineExits, Ends, NodeFails
  <2>3. CASE Refresh \/ RefreshUnanswered
    BY <2>3 DEF Refresh, RefreshUnanswered, Polls
  <2>4. CASE Decides
    BY <2>4 DEF Decides
  <2>5. CASE Launches \/ ReapClears \/ Sweeps \/ SupDies \/ SupRestarts
    BY <2>5 DEF Launches, ReapClears, Sweeps, SupDies, SupRestarts
  <2>6. CASE ReapCancels
    BY <2>6 DEF ReapCancels, Ends, InSqueue
  <2>7. CASE UNCHANGED vars
    BY <2>7 DEF vars
  <2>8. QED
    BY <2>1, <2>2, <2>3, <2>4, <2>5, <2>6, <2>7 DEF Next, Supervisor
<1>3. CancelledFirst => ClearedHoldsNoNodes
  BY DEF CancelledFirst
<1>4. QED
  BY <1>1, <1>2, <1>3, PTL DEF Spec

-----------------------------------------------------------------------------

\* The record's age never says more than the engine's real quiet, save for a
\* request that still runs, or has completed since the count was last read.
ActivityIsKnown ==
    /\ ~silent
    /\ job \in {"loading", "ready"} => beat = 0
    /\ job \in {"queued", "loading"} => rec # "ready" /\ pc # "reap"
    /\ job = "ready" /\ rec = "ready" => busy \/ unseen \/ since <= quiet
    /\ pc = "decide" /\ job = "ready" /\ rec = "ready" => late \/ since <= quiet
    /\ ReapsIdleOnly

SightUnlessHarmed == "sight" \notin harm => ActivityIsKnown

(* For every idle_timeout_s, tick and staleness bound, and any number of   *)
(* engine exits, node failures and crashes of the supervisor: a backend    *)
(* that serves is reaped only after idle_timeout_s without a request.      *)
THEOREM ReapSparesBusy == Spec => []ReapsIdleOnly
<1> USE WakePathAssumption
<1>1. Init => SightUnlessHarmed
  BY DEF Init, SightUnlessHarmed, ActivityIsKnown, ReapsIdleOnly
<1>2. TypeOK /\ SightUnlessHarmed /\ [Next]_vars => SightUnlessHarmed'
  <2> SUFFICES ASSUME TypeOK, SightUnlessHarmed, [Next]_vars, "sight" \notin harm'
               PROVE  ActivityIsKnown'
    BY DEF SightUnlessHarmed
  <2>a. "sight" \notin harm /\ ActivityIsKnown
    BY HarmStays, Parts DEF SightUnlessHarmed
  <2>0. /\ since \in 0..Idle + 1 /\ quiet \in 0..Idle + 1 /\ Idle \in Nat
        /\ busy \in BOOLEAN /\ unseen \in BOOLEAN /\ late \in BOOLEAN
    BY DEF TypeOK
  <2> USE <2>0, <2>a DEF ActivityIsKnown, ReapsIdleOnly, SupGoto, Fault, slurm, record, engine, sup, gw, trouble
  <2>1. CASE Wakes \/ Begins \/ Completes \/ Syncs
    BY <2>1 DEF Wakes, Begins, Completes, Syncs, Routes
  <2>2. CASE JobProgress
    <3>1. CASE Starts \/ Leaves
      BY <2>2, <3>1 DEF Starts, Leaves
    <3>2. CASE EngineAnswers
      BY <2>2, <3>2 DEF EngineAnswers
    <3>3. QED
      BY <2>2, <3>1, <3>2 DEF JobProgress
  <2>3. CASE EngineExits \/ NodeFails \/ HeartbeatDies
    BY <2>3 DEF EngineExits, Ends, NodeFails, HeartbeatDies
  <2>4. CASE Refresh
    <3>1. Fresh \/ job # "ready"
      BY DEF Fresh
    <3>2. QED
      BY <2>4, <3>1 DEF Refresh, Polls
  <2>5. CASE RefreshUnanswered
    BY <2>5 DEF RefreshUnanswered
  <2>6. CASE Decides
    BY <2>6 DEF Decides, InSqueue
  <2>7. CASE Launches \/ ReapClears \/ Sweeps \/ SupDies \/ SupRestarts
    BY <2>7 DEF Launches, ReapClears, Sweeps, SupDies, SupRestarts
  <2>8. CASE ReapCancels
    BY <2>8 DEF ReapCancels, Ends, InSqueue
  <2>9. CASE Passes
    <3>1. pc' = pc /\ pc \in {"rest", "down", "clear"}
      BY <2>9 DEF Passes
    <3>2. job \in {"loading", "ready"} => beat' = 0
      BY <2>9 DEF Passes
    <3>3. since <= quiet => Older(since, Idle + 1) <= Older(quiet, Idle + 1)
      BY OlderFacts
    <3>4. job' = "ready" /\ rec' = "ready" => busy' \/ unseen' \/ since' <= quiet'
      BY <2>9, <3>3 DEF Passes
    <3>5. QED
      BY <2>9, <3>1, <3>2, <3>4 DEF Passes
  <2>10. CASE UNCHANGED vars
    BY <2>10 DEF vars
  <2>11. QED
    BY <2>1, <2>2, <2>3, <2>4, <2>5, <2>6, <2>7, <2>8, <2>9, <2>10 DEF Next, Supervisor
<1>3. SightUnlessHarmed => ReapsIdleOnly
  BY DEF SightUnlessHarmed, ActivityIsKnown, ReapsIdleOnly
<1>4. QED
  BY <1>1, <1>2, <1>3, TypeCorrect, PTL DEF Spec
-----------------------------------------------------------------------------

\* A dead route is kept up by the record of a job that was lost, which ages
\* with it, or by one sync that came before the record was evicted.
DeadRoutesAge ==
    /\ job \in {"queued", "loading"} => rec # "ready"
    /\ ~synced /\ route = "waker" => deadFor = 0
    /\ job = "ready" /\ deadFor > 0 => route = "waker"
    /\ route = "backend" /\ rec = "ready" /\ job # "ready" => deadFor <= beat
    /\ synced /\ route = "backend" /\ rec = "ready" => beat <= Stale
    /\ synced /\ route = "backend" => deadFor <= Stale
    /\ DeadRouteBounded

(* For every staleness bound, tick and lingering, whatever fails, in any   *)
(* number: the gateway stops routing to a backend that is gone one sync    *)
(* after a heartbeat would be stale.                                       *)
THEOREM DeadRoutesEnd == Spec => []DeadRouteBounded
<1> USE WakePathAssumption
<1>1. Init => DeadRoutesAge
  BY DEF Init, DeadRoutesAge, DeadRouteBounded
<1>2. TypeOK /\ DeadRoutesAge /\ [Next]_vars => DeadRoutesAge'
  <2> SUFFICES ASSUME TypeOK, DeadRoutesAge, [Next]_vars
               PROVE  DeadRoutesAge'
    OBVIOUS
  <2>0. /\ beat \in 0..Stale + 1 /\ deadFor \in 0..DeadMax
        /\ route \in {"waker", "backend"} /\ Stale \in Nat
    BY DEF TypeOK
  <2> USE <2>0 DEF DeadRoutesAge, DeadRouteBounded, SupGoto, slurm, record, engine, sup, gw, trouble
  <2>1. CASE Wakes \/ Begins \/ Completes
    BY <2>1 DEF Wakes, Begins, Completes
  <2>2. CASE JobProgress
    <3>1. CASE Starts \/ Leaves
      BY <2>2, <3>1 DEF Starts, Leaves
    <3>2. CASE EngineAnswers
      BY <2>2, <3>2 DEF EngineAnswers
    <3>3. QED
      BY <2>2, <3>1, <3>2 DEF JobProgress
  <2>3. CASE EngineExits \/ NodeFails \/ HeartbeatDies
    BY <2>3 DEF EngineExits, Ends, NodeFails, HeartbeatDies
  <2>4. CASE Refresh \/ RefreshUnanswered
    <3>1. UNCHANGED <<job, rec, route, synced, deadFor>> /\ (beat' = beat \/ (beat' = 0 /\ job = "ready"))
      BY <2>4 DEF Refresh, RefreshUnanswered, Polls
    <3>2. QED
      BY <3>1
  <2>5. CASE Decides \/ ReapClears \/ SupDies \/ SupRestarts
    BY <2>5 DEF Decides, ReapClears, SupDies, SupRestarts
  <2>6. CASE Launches \/ Sweeps
    BY <2>6 DEF Launches, Sweeps
  <2>7. CASE ReapCancels
    BY <2>7 DEF ReapCancels, Ends, InSqueue
  <2>8. CASE Syncs
    BY <2>8 DEF Syncs, Routes, Fresh
  <2>9. CASE Passes
    <3>1. /\ synced /\ ~synced' /\ UNCHANGED <<job, rec, route>>
          /\ beat' = IF job \in {"loading", "ready"} /\ ~silent THEN 0 ELSE Older(beat, Stale + 1)
          /\ deadFor' = IF DeadRoute THEN Older(deadFor, DeadMax) ELSE 0
      BY <2>9 DEF Passes
    <3>2. CASE DeadRoute
      <4>1. route = "backend" /\ job # "ready" /\ deadFor' = deadFor + 1
        BY <3>1, <3>2 DEF DeadRoute, Older, DeadMax
      <4>2. rec = "ready" => job # "loading" /\ beat' = beat + 1
        BY <3>1, <4>1 DEF Older
      <4>3. QED
        BY <3>1, <4>1, <4>2
    <3>3. CASE ~DeadRoute
      <4>1. deadFor' = 0 /\ beat' \in Nat
        BY <3>1, <3>3 DEF Older
      <4>2. ~synced' /\ UNCHANGED <<job, rec, route>>
        BY <3>1
      <4>3. QED
        BY <4>1, <4>2
    <3>4. QED
      BY <3>2, <3>3
  <2>10. CASE UNCHANGED vars
    BY <2>10 DEF vars
  <2>11. QED
    BY <2>1, <2>2, <2>3, <2>4, <2>5, <2>6, <2>7, <2>8, <2>9, <2>10 DEF Next, Supervisor
<1>3. DeadRoutesAge => DeadRouteBounded
  BY DEF DeadRoutesAge
<1>4. QED
  BY <1>1, <1>2, <1>3, TypeCorrect, PTL DEF Spec
-----------------------------------------------------------------------------

\* Without a crash of the supervisor, a lost node or a dead heartbeat the
\* record tells what the job does.
RecordTells ==
    /\ ~silent /\ pc # "down" /\ job # "lost"
    /\ job = "loading" <=> rec = "loading"
    /\ job = "ready" <=> rec = "ready"
    /\ job \in {"loading", "ready"} => beat = 0

\* What is old enough to be reaped is routed to, and stays so until the reap
\* is over: no wake comes between.
ReapsTheRouted ==
    /\ job = "ready" /\ since > 0 => lingers = 0 /\ (synced => route = "backend")
    /\ job = "ready" /\ since > 1 => route = "backend"
    /\ pc \in {"reap", "clear"} => route = "backend" /\ lingers = 0
    /\ pc = "clear" => job \in {"none", "leaving"}

\* While a start is owed only a job that is leaving holds it back, first of
\* this tick and then, unless it has left, of the next.
StartIsOwed ==
    told > 0 =>
        /\ desired = 1 /\ job \in {"none", "leaving"} /\ pc \notin {"reap", "clear"}
        /\ job = "leaving" => told <= lingers + 1
        /\ pc = "sweep" => told <= Linger + 1
        /\ pc = "rest" => told + toTick <= Tick + Linger + 1
        /\ told <= Tick + Linger + 1

PromiseKept == RecordTells /\ ReapsTheRouted /\ StartIsOwed
PromiseUnlessHarmed == "promise" \notin harm => PromiseKept

\* What an invariant of the promise needs of the types.
Clocks ==
    /\ Tick \in Nat /\ Linger \in Nat /\ Idle \in Nat \ {0} /\ Stale \in Nat
    /\ toTick \in Nat /\ toTick <= Tick
    /\ lingers \in Nat /\ lingers <= Linger
    /\ told \in Nat /\ since \in Nat /\ beat \in Nat

LEMMA ClocksTyped == TypeOK => Clocks
BY WakePathAssumption DEF TypeOK, Clocks

(* Every step but those that harm the promise keeps the record true.       *)
LEMMA RecordTellsKept ==
    ASSUME TypeOK, RecordTells, [Next]_vars, "promise" \notin harm'
    PROVE  RecordTells'
<1>0. rec \in {"none", "loading", "ready"} /\ job \in Jobs
  BY DEF TypeOK
<1> USE <1>0 DEF RecordTells, Jobs, SupGoto, Fault, slurm, record, engine, sup, gw, trouble
<1>1. CASE Wakes \/ Begins \/ Completes \/ Syncs
  BY <1>1 DEF Wakes, Begins, Completes, Syncs, Routes
<1>2. CASE JobProgress
  BY <1>2 DEF JobProgress, Starts, EngineAnswers, Leaves
<1>3. CASE EngineExits \/ NodeFails \/ HeartbeatDies
  BY <1>3 DEF EngineExits, Ends, NodeFails, HeartbeatDies
<1>4. CASE Refresh \/ RefreshUnanswered
  BY <1>4 DEF Refresh, RefreshUnanswered, Polls
<1>5. CASE Decides \/ Launches \/ ReapClears \/ SupDies \/ SupRestarts
  BY <1>5 DEF Decides, Launches, ReapClears, SupDies, SupRestarts
<1>6. CASE ReapCancels \/ Sweeps
  BY <1>6 DEF ReapCancels, Ends, InSqueue, Sweeps
<1>7. CASE Passes
  BY <1>7 DEF Passes
<1>8. CASE UNCHANGED vars
  BY <1>8 DEF vars
<1>9. QED
  BY <1>1, <1>2, <1>3, <1>4, <1>5, <1>6, <1>7, <1>8 DEF Next, Supervisor

(* Nor does a wake come between a reap's decision and its end.             *)
LEMMA ReapsTheRoutedKept ==
    ASSUME TypeOK, RecordTells, ReapsTheRouted, [Next]_vars, "promise" \notin harm'
    PROVE  ReapsTheRouted'
<1>0. Clocks
  BY ClocksTyped
<1> USE <1>0 DEF Clocks, ReapsTheRouted, SupGoto, Fault, slurm, record, engine, sup, gw, trouble
<1>1. CASE Wakes \/ Begins \/ Completes
  BY <1>1 DEF Wakes, Begins, Completes
<1>2. CASE JobProgress
  BY <1>2 DEF JobProgress, Starts, EngineAnswers, Leaves
<1>3. CASE EngineExits \/ NodeFails \/ HeartbeatDies
  BY <1>3 DEF EngineExits, Ends, NodeFails, HeartbeatDies
<1>4. CASE Refresh \/ RefreshUnanswered
  <2>1. UNCHANGED <<job, lingers, route, synced>> /\ since' \in {0, since} /\ pc' = "decide"
    BY <1>4 DEF Refresh, RefreshUnanswered, Polls
  <2>2. QED
    BY <2>1
<1>5. CASE Decides
  <2>1. UNCHANGED <<job, lingers, route, synced, since>>
    BY <1>5 DEF Decides
  <2>2. pc' = "reap" => job = "ready" /\ since > Idle
    BY <1>5 DEF Decides, RecordTells
  <2>3. pc' # "clear"
    BY <1>5 DEF Decides
  <2>4. QED
    BY <2>1, <2>2, <2>3
<1>6. CASE Launches \/ ReapClears \/ Sweeps \/ SupDies \/ SupRestarts
  BY <1>6 DEF Launches, ReapClears, Sweeps, SupDies, SupRestarts
<1>7. CASE ReapCancels
  BY <1>7 DEF ReapCancels, Ends, InSqueue
<1>8. CASE Syncs
  <2>1. job = "ready" => route' = "backend"
    BY <1>8 DEF Syncs, Routes, Fresh, RecordTells
  <2>2. QED
    BY <1>8, <2>1 DEF Syncs, Routes
<1>9. CASE Passes
  <2>1. /\ synced /\ ~synced' /\ UNCHANGED <<job, route, pc>>
        /\ lingers' = IF job = "leaving" THEN lingers + 1 ELSE 0
        /\ since' = Older(since, Idle + 1)
        /\ pc # "clear" /\ pc # "reap"
    BY <1>9 DEF Passes, RecordTells
  <2>2. since' > 1 => since > 0
    BY <2>1 DEF Older
  <2>3. QED
    BY <2>1, <2>2
<1>10. CASE UNCHANGED vars
  BY <1>10 DEF vars
<1>11. QED
  BY <1>1, <1>2, <1>3, <1>4, <1>5, <1>6, <1>7, <1>8, <1>9, <1>10 DEF Next, Supervisor

(* And what is owed stays within its time.                                 *)
LEMMA StartIsOwedKept ==
    ASSUME TypeOK, RecordTells, ReapsTheRouted, StartIsOwed, [Next]_vars, "promise" \notin harm'
    PROVE  StartIsOwed'
<1>0. Clocks /\ job \in Jobs /\ desired \in {0, 1}
  BY ClocksTyped DEF TypeOK
<1> USE <1>0 DEF Clocks, StartIsOwed, SupGoto, Fault, slurm, record, engine, sup, gw, trouble
<1>1. CASE Wakes
  <2>1. told' = told \/ (told' = 1 /\ NothingComing)
    BY <1>1 DEF Wakes
  <2>2. NothingComing => job \in {"none", "leaving"}
    BY DEF NothingComing, Fresh, RecordTells, Jobs
  <2>3. desired' = 1 /\ pc \notin {"reap", "clear"}
    BY <1>1 DEF Wakes, ReapsTheRouted
  <2>4. UNCHANGED <<job, lingers, pc, toTick>>
    BY <1>1 DEF Wakes
  <2>5. QED
    BY <2>1, <2>2, <2>3, <2>4
<1>2. CASE Begins \/ Completes \/ Syncs
  BY <1>2 DEF Begins, Completes, Syncs, Routes
<1>3. CASE JobProgress
  BY <1>3 DEF JobProgress, Starts, EngineAnswers, Leaves
<1>4. CASE EngineExits \/ NodeFails \/ HeartbeatDies
  BY <1>4 DEF EngineExits, Ends, NodeFails, HeartbeatDies
<1>5. CASE Refresh \/ RefreshUnanswered
  <2>1. UNCHANGED <<job, lingers, desired, toTick, told>> /\ pc' = "decide"
    BY <1>5 DEF Refresh, RefreshUnanswered, Polls
  <2>2. QED
    BY <2>1
<1>6. CASE Decides
  <2>1. UNCHANGED <<job, lingers, desired, toTick, told>>
    BY <1>6 DEF Decides
  <2>2. pc' \in {"launch", "reap", "sweep"} /\ (pc' = "reap" => job = "ready")
    BY <1>6 DEF Decides, RecordTells
  <2>3. pc' = "sweep" /\ told > 0 => job = "leaving"
    BY <1>6 DEF Decides, InSqueue
  <2>4. QED
    BY <2>1, <2>2, <2>3
<1>7. CASE Launches \/ ReapClears \/ Sweeps \/ SupDies \/ SupRestarts
  BY <1>7 DEF Launches, ReapClears, Sweeps, SupDies, SupRestarts, RecordTells
<1>8. CASE ReapCancels
  BY <1>8 DEF ReapCancels
<1>9. CASE Passes
  <2>1. /\ UNCHANGED <<job, desired, pc>>
        /\ pc = "rest" /\ toTick > 0 /\ toTick' = toTick - 1
        /\ lingers' = IF job = "leaving" THEN lingers + 1 ELSE 0
        /\ told' = IF told = 0 THEN 0 ELSE Older(told, PromiseMax)
    BY <1>9 DEF Passes, RecordTells
  <2>2. told' > 0 => told > 0 /\ told' <= told + 1
    BY <2>1 DEF Older, PromiseMax
  <2>3. told' \in Nat
    BY <2>1 DEF Older, PromiseMax
  <2>4. QED
    BY <2>1, <2>2, <2>3
<1>10. CASE UNCHANGED vars
  BY <1>10 DEF vars
<1>11. QED
  BY <1>1, <1>2, <1>3, <1>4, <1>5, <1>6, <1>7, <1>8, <1>9, <1>10 DEF Next, Supervisor

(* For every tick, idle_timeout_s, staleness bound and lingering, and any  *)
(* number of failed bring-ups, exits of the engine, reaps and unanswered   *)
(* polls: a start that is promised is requested within Tick + Linger.      *)
THEOREM PromisedStartFollows == Spec => []StartFollows
<1>1. Init => PromiseUnlessHarmed
  <2>1. Init => RecordTells /\ ReapsTheRouted
    BY DEF Init, RecordTells, ReapsTheRouted
  <2>2. Init => StartIsOwed
    BY DEF Init, StartIsOwed
  <2>3. QED
    BY <2>1, <2>2 DEF PromiseUnlessHarmed, PromiseKept
<1>2. TypeOK /\ PromiseUnlessHarmed /\ [Next]_vars => PromiseUnlessHarmed'
  <2> SUFFICES ASSUME TypeOK, PromiseUnlessHarmed, [Next]_vars, "promise" \notin harm'
               PROVE  PromiseKept'
    BY DEF PromiseUnlessHarmed
  <2>1. PromiseKept
    BY HarmStays, Parts DEF PromiseUnlessHarmed
  <2>2. QED
    BY <2>1, RecordTellsKept, ReapsTheRoutedKept, StartIsOwedKept DEF PromiseKept
<1>3. TypeOK /\ PromiseUnlessHarmed => StartFollows
  BY ClocksTyped DEF PromiseUnlessHarmed, PromiseKept, StartIsOwed, StartFollows, Clocks
<1>4. QED
  BY <1>1, <1>2, <1>3, TypeCorrect, PTL DEF Spec
=============================================================================
