---------------------------- MODULE GatewayProofs ----------------------------
(***************************************************************************)
(* Type correctness of Gateway, and what holds for every set of configs,   *)
(* any number of children and faults: a litellm run holds serves the       *)
(* file's config unless SIGTERM has cut a restart short; as long as no     *)
(* restart, boot or run has been cut short there is one litellm at a time, *)
(* and the gateway leaves none behind.                                     *)
(***************************************************************************)
EXTENDS Gateway, FiniteSetTheorems, TLAPS

(* Every action of run keeps the types.                                    *)
LEMMA RunTypes ==
    ASSUME TypeOK, Run
    PROVE  TypeOK'
<1> USE DEF TypeOK, PCs, SyncPCs, StartPCs, Goto, loop, procs, trouble
<1>1. CASE LoopWakes
  BY <1>1 DEF LoopWakes
<1>2. CASE Look \/ Relook
  BY <1>2 DEF Look, Relook, Renders
<1>3. CASE Write \/ Rewrite
  BY <1>3 DEF Write, Rewrite, Replaces
<1>4. CASE Stop \/ Finally
  BY <1>4 DEF Stop, Finally, Signalled, Alive
<1>5. CASE Wait
  BY <1>5 DEF Wait
<1>6. CASE Spawn
  BY <1>6 DEF Spawn, Alive
<1>7. CASE Assign
  BY <1>7 DEF Assign
<1>8. QED
  BY <1>1, <1>2, <1>3, <1>4, <1>5, <1>6, <1>7 DEF Run

(* Type correctness.                                                       *)
THEOREM TypeCorrect == Spec => []TypeOK
<1>1. Init => TypeOK
  <2> SUFFICES ASSUME Init PROVE TypeOK
    OBVIOUS
  <2>1. 0 \in 0..MaxFaults
    BY GatewayAssumption
  <2>2. /\ child \in [Children -> {"none", "booting", "up", "stopping"}]
        /\ loaded \in [Children -> SUBSET Configs]
    BY DEF Init
  <2>3. 0 \in 0..2
    OBVIOUS
  <2>4. QED
    BY <2>1, <2>2, <2>3, Zenon DEF Init, TypeOK, PCs, StartPCs
<1>2. TypeOK /\ [Next]_vars => TypeOK'
  <2> SUFFICES ASSUME TypeOK, [Next]_vars PROVE TypeOK'
    OBVIOUS
  <2> USE GatewayAssumption DEF TypeOK, PCs, SyncPCs, StartPCs, Goto, loop, procs, trouble, Fault, Harms
  <2>1. CASE Run
    BY <2>1, RunTypes
  <2>2. CASE Raises
    BY <2>2 DEF Raises, Caught
  <2>3. CASE Sigterm
    BY <2>3 DEF Sigterm, SigtermTo, Caught
  <2>4. CASE Killed
    BY <2>4 DEF Killed
  <2>5. CASE Reruns
    BY <2>5 DEF Reruns
  <2>6. CASE BackendsChange
    BY <2>6 DEF BackendsChange
  <2>7. ASSUME NEW c \in Children, Boots(c) \/ Exits(c) \/ Crashes(c)
        PROVE  TypeOK'
    <3>1. file \in SUBSET Configs
      OBVIOUS
    <3>2. QED
      BY <2>7, <3>1 DEF Boots, Exits, Crashes
  <2>8. CASE UNCHANGED vars
    BY <2>8 DEF vars
  <2>9. QED
    BY <2>1, <2>2, <2>3, <2>4, <2>5, <2>6, <2>7, <2>8 DEF Next
<1>3. QED
  BY <1>1, <1>2, PTL DEF Spec

-----------------------------------------------------------------------------

(* Harm is never undone.                                                   *)
LEMMA HarmStays ==
    ASSUME TypeOK, [Next]_vars
    PROVE  harm' \in 0..2 /\ harm <= harm'
<1> USE DEF TypeOK, trouble
<1>1. CASE Run
  BY <1>1 DEF Run, LoopWakes, Look, Relook, Renders, Write, Rewrite, Replaces, Stop, Wait, Spawn,
              Assign, Finally
<1>2. CASE Raises \/ Sigterm \/ Killed \/ \E c \in Children : Crashes(c)
  BY <1>2 DEF Raises, Sigterm, SigtermTo, Killed, Crashes, Fault, Harms
<1>3. CASE Reruns \/ BackendsChange \/ (\E c \in Children : Boots(c) \/ Exits(c)) \/ UNCHANGED vars
  BY <1>3 DEF Reruns, BackendsChange, Boots, Exits, vars
<1>4. QED
  BY <1>1, <1>2, <1>3 DEF Next

\* The child run would go back to sleep with is either dead or on the file's
\* config, from boot to boot, except while it is being replaced.
HeldIsCurrent ==
    /\ main \in SyncPCs \cup {"sleep"} /\ proc \in Children /\ child[proc] = "up" =>
           loaded[proc] = file
    /\ main \in StartPCs => proc \notin Alive
    /\ main = "pid" => fresh \in Children /\ (child[fresh] = "up" => loaded[fresh] = file)
HeldUnlessSwallowed == harm < 2 => HeldIsCurrent

(* For every bound on the faults: run is never asleep with a litellm that  *)
(* serves a config other than the file's, unless SIGTERM has interrupted a *)
(* restart, maybe between the replacement of the file and the stop.        *)
THEOREM AsleepServesFile == Spec => []ServesFile
<1> USE GatewayAssumption
<1>1. Init => HeldUnlessSwallowed
  BY DEF Init, HeldUnlessSwallowed, HeldIsCurrent, Alive, SyncPCs, StartPCs
<1>2. TypeOK /\ HeldUnlessSwallowed /\ [Next]_vars => HeldUnlessSwallowed'
  <2> SUFFICES ASSUME TypeOK, HeldUnlessSwallowed, [Next]_vars, harm' < 2
               PROVE  HeldIsCurrent'
    BY DEF HeldUnlessSwallowed
  <2>0. HeldIsCurrent
    BY HarmStays DEF TypeOK, HeldUnlessSwallowed
  <2> USE DEF HeldIsCurrent, TypeOK, Alive, SyncPCs, StartPCs, Goto, loop, procs, trouble
  <2>1. CASE LoopWakes \/ Look \/ Relook \/ Rewrite
    BY <2>0, <2>1 DEF LoopWakes, Look, Relook, Rewrite, Renders, Replaces
  <2>2. CASE Write \/ Stop \/ Finally
    BY <2>0, <2>2 DEF Write, Replaces, Stop, Finally
  <2>3. CASE Wait
    BY <2>0, <2>3 DEF Wait
  <2>4. CASE Spawn
    BY <2>0, <2>4 DEF Spawn
  <2>5. CASE Assign
    BY <2>0, <2>5 DEF Assign
  <2>6. CASE Raises
    BY <2>0, <2>6 DEF Raises, Caught
  <2>7. CASE Sigterm
    <3>1. main' \in {"finally", "over"} \/ (main \in SyncPCs /\ main' = "sleep")
      BY <2>0, <2>7 DEF Sigterm, SigtermTo, Caught, Harms
    <3>2. QED
      BY <2>0, <2>7, <3>1 DEF Sigterm, SigtermTo
  <2>8. CASE Killed
    BY <2>0, <2>8 DEF Killed
  <2>9. CASE Reruns
    BY <2>0, <2>9 DEF Reruns
  <2>10. CASE BackendsChange \/ UNCHANGED vars
    BY <2>0, <2>10 DEF BackendsChange, vars
  <2>11. ASSUME NEW c \in Children, Boots(c)
         PROVE  HeldIsCurrent'
    BY <2>0, <2>11 DEF Boots
  <2>12. ASSUME NEW c \in Children, Exits(c) \/ Crashes(c)
         PROVE  HeldIsCurrent'
    BY <2>0, <2>12 DEF Exits, Crashes
  <2>13. QED
    BY <2>1, <2>2, <2>3, <2>4, <2>5, <2>6, <2>7, <2>8, <2>9, <2>10, <2>11, <2>12 DEF Next, Run
<1>3. HeldUnlessSwallowed => ServesFile
  BY DEF HeldUnlessSwallowed, HeldIsCurrent, ServesFile
<1>4. QED
  BY <1>1, <1>2, <1>3, TypeCorrect, PTL DEF Spec

-----------------------------------------------------------------------------

\* The only litellm that lives is the one run holds, or the one start_litellm
\* is about to return; while it looks for the config none does.
OneHolds ==
    /\ Alive \subseteq IF main = "pid" THEN {fresh} ELSE {proc}
    /\ main \in {"relook", "rewrite", "spawn"} => Alive = {}
    /\ main \in SyncPCs \cup {"sleep"} => guarded
    /\ main = "over" => \A c \in Alive : child[c] = "stopping"
OneUnlessHarmed == harm = 0 => OneHolds

(* OneHolds is inductive: the finally clause is on every way out.          *)
LEMMA OneHoldsAlways == Spec => []OneUnlessHarmed
<1> USE GatewayAssumption
<1>1. Init => OneUnlessHarmed
  BY DEF Init, OneUnlessHarmed, OneHolds, Alive, SyncPCs
<1>2. TypeOK /\ OneUnlessHarmed /\ [Next]_vars => OneUnlessHarmed'
  <2> SUFFICES ASSUME TypeOK, OneUnlessHarmed, [Next]_vars, harm' = 0
               PROVE  OneHolds'
    BY DEF OneUnlessHarmed
  <2>0. harm = 0 /\ OneHolds
    BY HarmStays DEF TypeOK, OneUnlessHarmed
  <2> USE <2>0 DEF OneHolds, TypeOK, Alive, SyncPCs, Goto, loop, procs
  <2>1. CASE LoopWakes \/ Look \/ Relook
    BY <2>1 DEF LoopWakes, Look, Relook, Renders
  <2>2. CASE Write \/ Rewrite
    BY <2>2 DEF Write, Rewrite, Replaces
  <2>3. CASE Stop
    BY <2>3 DEF Stop, Signalled
  <2>4. CASE Finally
    BY <2>4 DEF Finally, Signalled
  <2>5. CASE Wait
    BY <2>5 DEF Wait
  <2>6. CASE Spawn
    BY <2>6 DEF Spawn
  <2>7. CASE Assign
    BY <2>7 DEF Assign
  <2>8. CASE Raises
    BY <2>8 DEF Raises, Caught, Fault, Harms
  <2>9. CASE Sigterm
    <3>1. \/ main \in SyncPCs /\ main' = "sleep"
          \/ main = "sleep" /\ main' = "finally"
      BY <2>9 DEF Sigterm, SigtermTo, Caught, Harms
    <3>2. QED
      BY <2>9, <3>1 DEF Sigterm, SigtermTo
  <2>10. CASE Killed
    BY <2>10 DEF Killed, Fault, Harms
  <2>11. CASE Reruns
    BY <2>11 DEF Reruns
  <2>12. CASE BackendsChange \/ UNCHANGED vars
    BY <2>12 DEF BackendsChange, vars
  <2>13. ASSUME NEW c \in Children, Boots(c)
         PROVE  OneHolds'
    <3>1. Alive' \subseteq Alive /\ main # "over"
      BY <2>13 DEF Boots
    <3>2. QED
      BY <2>13, <3>1 DEF Boots
  <2>14. ASSUME NEW c \in Children, Exits(c) \/ Crashes(c)
         PROVE  OneHolds'
    <3>1. Alive' \subseteq Alive
      BY <2>14 DEF Exits, Crashes
    <3>2. QED
      BY <2>14, <3>1 DEF Exits, Crashes
  <2>15. QED
    BY <2>1, <2>2, <2>3, <2>4, <2>5, <2>6, <2>7, <2>8, <2>9, <2>10, <2>11, <2>12, <2>13, <2>14
       DEF Next, Run
<1>3. QED
  BY <1>1, <1>2, TypeCorrect, PTL DEF Spec

(* For any number of children and reruns, as long as nothing has been cut  *)
(* short: no second litellm is ever started while one lives.               *)
THEOREM OneLitellm == Spec => []OneChild
<1>1. OneUnlessHarmed => OneChild
  <2> SUFFICES ASSUME OneHolds, harm = 0 PROVE OneChild
    BY DEF OneChild, OneUnlessHarmed
  <2>1. PICK x : Alive \subseteq {x}
    BY DEF OneHolds
  <2>2. Alive = {} \/ Alive = {x}
    BY <2>1
  <2>3. CASE Alive = {}
    <3>1. Cardinality(Alive) = 0
      BY <2>3, FS_EmptySet
    <3>2. QED
      BY <3>1 DEF OneChild
  <2>4. CASE Alive = {x}
    <3>1. Cardinality({x}) = 1
      BY FS_Singleton
    <3>2. QED
      BY <2>4, <3>1 DEF OneChild
  <2>5. QED
    BY <2>2, <2>3, <2>4
<1>2. QED
  BY <1>1, OneHoldsAlways, PTL

(* When the gateway is over, every litellm it ever started has been told   *)
(* to stop, as long as nothing has been cut short.                         *)
THEOREM NoneLeftBehind == Spec => []NoOrphan
<1>1. OneUnlessHarmed => NoOrphan
  BY DEF OneUnlessHarmed, OneHolds, NoOrphan
<1>2. QED
  BY <1>1, OneHoldsAlways, PTL
=============================================================================
