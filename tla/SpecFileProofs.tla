--------------------------- MODULE SpecFileProofs ---------------------------
(***************************************************************************)
(* For any number of launchers, jobs and sizes: as long as a TOML is only  *)
(* edited while nothing is under way, the sizes a script reads key by key  *)
(* from a file others truncate and rewrite are those its allocation was    *)
(* asked for with, or the script stops; and as long as none of them does   *)
(* so just as a script comes to its environment, it exports it.            *)
(***************************************************************************)
EXTENDS SpecFile, TLAPS

\* What a script does.
ScriptStep(j) ==
    Starts(j) \/ ReadsKey(j, "tp", "pp") \/ ReadsKey(j, "pp", "env") \/ ReadsEnv(j) \/ Ends(j)

\* The parts of the state are functions of their ids.
Shapes ==
    /\ at \in [Launchers -> {"rest", "open", "write", "submit"}]
    /\ loaded = [l \in Launchers |-> loaded[l]]
    /\ phase \in [Jobs -> {"none", "queued", "tp", "pp", "env", "running", "dead"}]
    /\ alloc = [j \in Jobs |-> alloc[j]]
    /\ got = [j \in Jobs |-> [k \in {"tp", "pp"} |-> got[j][k]]]

LEMMA ShapesKept == Spec => []Shapes
<1>1. Init => Shapes
  BY DEF Init, Shapes, Unread
<1>2. Shapes /\ [Next]_vars => Shapes'
  <2> SUFFICES ASSUME Shapes, [Next]_vars PROVE Shapes'
    OBVIOUS
  <2> USE DEF Shapes, LauncherGoto, JobGoto, launch, jobs
  <2>1. ASSUME NEW layer \in Layers, NEW k \in Keys, Edit(layer, k)
        PROVE  Shapes'
    BY <2>1 DEF Edit
  <2>2. ASSUME NEW l \in Launchers, Loads(l) \/ Truncates(l) \/ Writes(l)
        PROVE  Shapes'
    BY <2>2 DEF Loads, Truncates, Writes
  <2>3. ASSUME NEW l \in Launchers, Submits(l)
        PROVE  Shapes'
    <3>1. PICK j \in Jobs :
            /\ LauncherGoto(l, "submit", "rest")
            /\ phase' = [phase EXCEPT ![j] = "queued"]
            /\ alloc' = [alloc EXCEPT ![j] = loaded[l]["nodes"]]
            /\ got' = [got EXCEPT ![j] = Unread]
            /\ loaded' = loaded
      BY <2>3 DEF Submits
    <3>2. Unread = [k \in {"tp", "pp"} |-> Unread[k]]
      BY DEF Unread
    <3>3. got' = [i \in Jobs |-> [k \in {"tp", "pp"} |-> got'[i][k]]]
      BY <3>1, <3>2
    <3>4. QED
      BY <3>1, <3>3
  <2>4. ASSUME NEW j \in Jobs, Starts(j) \/ ReadsEnv(j) \/ Ends(j)
        PROVE  Shapes'
    <3>1. CASE Starts(j)
      BY <3>1 DEF Starts
    <3>2. CASE ReadsEnv(j)
      BY <3>2 DEF ReadsEnv
    <3>3. CASE Ends(j)
      BY <3>3 DEF Ends
    <3>4. QED
      BY <2>4, <3>1, <3>2, <3>3
  <2>5. ASSUME NEW j \in Jobs, ReadsKey(j, "tp", "pp") \/ ReadsKey(j, "pp", "env")
        PROVE  Shapes'
    <3> DEFINE Read(k) == (CHOOSE c \in spec : TRUE)[k]
    <3>1. \E k \in {"tp", "pp"} : got' \in {got, [got EXCEPT ![j][k] = Read(k)]}
      BY <2>5 DEF ReadsKey
    <3> HIDE DEF Read
    <3>2. got' = [i \in Jobs |-> [q \in {"tp", "pp"} |-> got'[i][q]]]
      BY <3>1
    <3>3. /\ phase' \in [Jobs -> {"none", "queued", "tp", "pp", "env", "running", "dead"}]
          /\ UNCHANGED <<at, loaded, alloc>>
      BY <2>5 DEF ReadsKey
    <3>4. QED
      BY <3>2, <3>3
  <2>6. CASE UNCHANGED vars
    BY <2>6 DEF vars
  <2>7. QED
    BY <2>1, <2>2, <2>3, <2>4, <2>5, <2>6 DEF Next
<1>3. QED
  BY <1>1, <1>2, PTL DEF Spec

-----------------------------------------------------------------------------

\* Whoever is under way works from the one config the TOML has meant since.
Current == Load(toml)

Agreed ==
    /\ \A l \in Launchers : at[l] # "rest" => loaded[l] = Current /\ Fits(Current)
    /\ (\E l \in Launchers : at[l] = "submit") \/ (\E j \in Jobs : Waiting(j)) =>
           spec \in {Empty, {Current}}
    /\ \A j \in Jobs : Waiting(j) => alloc[j] = Current["nodes"] /\ Fits(Current)
    /\ \A j \in Jobs : phase[j] \in {"pp", "env"} => got[j]["tp"] = Current["tp"]
    /\ \A j \in Jobs : phase[j] = "env" => got[j]["pp"] = Current["pp"]
    /\ \A j \in Jobs : phase[j] = "running" => got[j]["tp"] * got[j]["pp"] = alloc[j]

(* A launcher's steps keep the agreement.                                  *)
LEMMA LaunchersAgree ==
    ASSUME Shapes, Agreed, NEW l \in Launchers,
           Loads(l) \/ Truncates(l) \/ Writes(l) \/ Submits(l)
    PROVE  Agreed'
<1> USE DEF Shapes, Agreed, RunsAsAllocated, Waiting, LauncherGoto, jobs
<1>1. Current' = Current
  BY DEF Loads, Truncates, Writes, Submits, Current
<1>2. CASE Loads(l)
  BY <1>1, <1>2 DEF Loads, Current
<1>3. CASE Truncates(l)
  BY <1>1, <1>3 DEF Truncates
<1>4. CASE Writes(l)
  BY <1>1, <1>4 DEF Writes
<1>5. CASE Submits(l)
  BY <1>1, <1>5 DEF Submits
<1>6. QED
  BY <1>2, <1>3, <1>4, <1>5

(* A script's steps keep the agreement.                                    *)
LEMMA ScriptsAgree ==
    ASSUME Shapes, Agreed, NEW j \in Jobs, ScriptStep(j)
    PROVE  Agreed'
<1> USE DEF Shapes, Agreed, RunsAsAllocated, Waiting, JobGoto, launch, ScriptStep
<1>1. Current' = Current
  BY DEF Starts, ReadsKey, ReadsEnv, Ends, Current
<1>2. CASE Starts(j) \/ Ends(j)
  <2>1. CASE Starts(j)
    BY <1>1, <2>1 DEF Starts
  <2>2. CASE Ends(j)
    BY <1>1, <2>2 DEF Ends
  <2>3. QED
    BY <1>2, <2>1, <2>2
<1>3. CASE ReadsKey(j, "tp", "pp")
  <2>1. spec # Empty => \A k : (CHOOSE c \in spec : TRUE)[k] = Current[k]
    BY <1>3 DEF ReadsKey
  <2>2. QED
    BY <1>1, <1>3, <2>1 DEF ReadsKey
<1>4. CASE ReadsKey(j, "pp", "env")
  <2>1. spec # Empty => \A k : (CHOOSE c \in spec : TRUE)[k] = Current[k]
    BY <1>4 DEF ReadsKey
  <2>2. QED
    BY <1>1, <1>4, <2>1 DEF ReadsKey
<1>5. CASE ReadsEnv(j)
  <2>1. got[j]["tp"] * got[j]["pp"] = alloc[j]
    BY <1>5 DEF ReadsEnv, Fits
  <2>2. QED
    BY <1>1, <1>5, <2>1 DEF ReadsEnv
<1>6. QED
  BY <1>2, <1>3, <1>4, <1>5

AgreedUnlessEdited == ~edited => Agreed

(* For any number of concurrent launches and of jobs that wait: an engine  *)
(* has one worker per GPU of its allocation.                               *)
THEOREM SpecMatchesAllocation == Spec => []RunsAsAllocated
<1>1. Init => AgreedUnlessEdited
  BY DEF Init, AgreedUnlessEdited, Agreed, Waiting, RunsAsAllocated
<1>2. Shapes /\ AgreedUnlessEdited /\ [Next]_vars => AgreedUnlessEdited'
  <2> SUFFICES ASSUME Shapes, AgreedUnlessEdited, [Next]_vars, ~edited'
               PROVE  Agreed'
    BY DEF AgreedUnlessEdited
  <2>1. ASSUME NEW layer \in Layers, NEW k \in Keys, Edit(layer, k)
        PROVE  Agreed'
    BY <2>1 DEF Edit, Calm, AgreedUnlessEdited, Agreed, RunsAsAllocated, Waiting, launch, jobs
  <2>2. CASE UNCHANGED vars
    BY <2>2 DEF vars, launch, jobs, history, AgreedUnlessEdited, Agreed, RunsAsAllocated, Waiting,
                Current
  <2>3. ASSUME NEW l \in Launchers, Loads(l) \/ Truncates(l) \/ Writes(l) \/ Submits(l)
        PROVE  Agreed'
    <3>1. edited' = edited
      BY <2>3 DEF Loads, Truncates, Writes, Submits, history
    <3>2. QED
      BY <2>3, <3>1, LaunchersAgree DEF AgreedUnlessEdited
  <2>4. ASSUME NEW j \in Jobs, ScriptStep(j)
        PROVE  Agreed'
    <3>1. edited' = edited
      BY <2>4 DEF ScriptStep, Starts, ReadsKey, ReadsEnv, Ends, history
    <3>2. QED
      BY <2>4, <3>1, ScriptsAgree DEF AgreedUnlessEdited
  <2>5. QED
    BY <2>1, <2>2, <2>3, <2>4 DEF Next, ScriptStep
<1>3. AgreedUnlessEdited => RunsAsAllocated
  BY DEF AgreedUnlessEdited, Agreed, RunsAsAllocated
<1>4. QED
  BY <1>1, <1>2, <1>3, ShapesKept, PTL DEF Spec

-----------------------------------------------------------------------------
\* A script that has come to its environment has found a spec that parses.
ParsesBefore ==
    ~torn => \A j \in Jobs :
        /\ phase[j] = "env" => spec # Empty
        /\ phase[j] = "running" => env[j] = TRUE

(* For any number of launchers and jobs: an engine runs with its site's    *)
(* environment, unless a launch has emptied the spec just before.          *)
THEOREM EnvironmentExported == Spec => []EnvExported
<1>1. Init => ParsesBefore
  BY DEF Init, ParsesBefore
<1>2. Shapes /\ env = [j \in Jobs |-> env[j]] /\ ParsesBefore /\ [Next]_vars => ParsesBefore'
  <2> SUFFICES ASSUME Shapes, env = [j \in Jobs |-> env[j]], ParsesBefore, [Next]_vars
               PROVE  ParsesBefore'
    OBVIOUS
  <2> USE DEF Shapes, ParsesBefore, LauncherGoto, JobGoto, launch, jobs, history
  <2>1. ASSUME NEW layer \in Layers, NEW k \in Keys, Edit(layer, k)
        PROVE  ParsesBefore'
    BY <2>1 DEF Edit
  <2>2. ASSUME NEW l \in Launchers, Loads(l) \/ Truncates(l) \/ Writes(l) \/ Submits(l)
        PROVE  ParsesBefore'
    BY <2>2 DEF Loads, Truncates, Writes, Submits, Empty
  <2>3. ASSUME NEW j \in Jobs, ScriptStep(j)
        PROVE  ParsesBefore'
    <3>1. CASE Starts(j) \/ Ends(j)
      BY <3>1 DEF Starts, Ends
    <3>2. CASE ReadsKey(j, "tp", "pp") \/ ReadsKey(j, "pp", "env")
      BY <3>2 DEF ReadsKey
    <3>3. CASE ReadsEnv(j)
      BY <3>3 DEF ReadsEnv
    <3>4. QED
      BY <2>3, <3>1, <3>2, <3>3 DEF ScriptStep
  <2>4. CASE UNCHANGED vars
    BY <2>4 DEF vars
  <2>5. QED
    BY <2>1, <2>2, <2>3, <2>4 DEF Next, ScriptStep
<1>3. Spec => [](env = [j \in Jobs |-> env[j]])
  <2>1. Init => env = [j \in Jobs |-> env[j]]
    BY DEF Init
  <2>2. env = [j \in Jobs |-> env[j]] /\ [Next]_vars => (env = [j \in Jobs |-> env[j]])'
    <3> SUFFICES ASSUME env = [j \in Jobs |-> env[j]], [Next]_vars
                 PROVE  env' = [j \in Jobs |-> env'[j]]
      OBVIOUS
    <3>1. env' = env \/ \E j \in Jobs, v \in BOOLEAN : env' = [env EXCEPT ![j] = v]
      BY DEF Next, Edit, Loads, Truncates, Writes, Submits, Starts, ReadsKey, ReadsEnv, Ends, vars,
             jobs
    <3>2. QED
      BY <3>1
  <2>3. QED
    BY <2>1, <2>2, PTL DEF Spec
<1>4. ParsesBefore => EnvExported
  BY DEF ParsesBefore, EnvExported
<1>5. QED
  BY <1>1, <1>2, <1>3, <1>4, ShapesKept, PTL DEF Spec

-----------------------------------------------------------------------------
(* Type correctness.                                                       *)

\* What a layer sets are sizes of known keys.
Layer(f) == DOMAIN f \subseteq Keys /\ \A k \in DOMAIN f : f[k] \in Sizes

LEMMA LoadType ==
    ASSUME TypeOK
    PROVE  Load(toml) \in [Keys -> Sizes]
BY SpecFileAssumption DEF TypeOK, Load, Layers

(* An edit sets or deletes one key of one layer.                           *)
LEMMA EditType ==
    ASSUME TypeOK, NEW layer \in Layers, NEW k \in Keys, Edit(layer, k)
    PROVE  TypeOK'
<1>1. Layer(toml[layer])
  BY DEF TypeOK, Layer
<1>2. ASSUME NEW v \in Sizes
      PROVE  Layer(With(toml[layer], k, v))
  BY <1>1 DEF Layer, With
<1>3. Layer(Restrict(toml[layer], DOMAIN toml[layer] \ {k}))
  BY <1>1 DEF Layer, Restrict
<1>4. PICK f : Layer(f) /\ toml' = [toml EXCEPT ![layer] = f]
  BY <1>2, <1>3 DEF Edit
<1>5. \A l \in Layers : toml'[l] = f \/ toml'[l] = toml[l]
  BY <1>4
<1>6. \A l \in Layers : Layer(toml'[l])
  BY <1>4, <1>5 DEF TypeOK, Layer
<1>7. edits' \in 0..MaxEdits
  BY SpecFileAssumption DEF Edit, TypeOK
<1>8. QED
  BY <1>6, <1>7 DEF Edit, TypeOK, Layer, launch, jobs

(* Launchers keep the types.                                               *)
LEMMA LauncherType ==
    ASSUME TypeOK, NEW l \in Launchers,
           Loads(l) \/ Truncates(l) \/ Writes(l) \/ Submits(l)
    PROVE  TypeOK'
<1> USE DEF LauncherGoto, jobs, history
<1>1. CASE Loads(l)
  BY <1>1, LoadType DEF Loads, TypeOK
<1>2. CASE Truncates(l)
  BY <1>2 DEF Truncates, TypeOK
<1>3. CASE Writes(l)
  BY <1>3 DEF Writes, TypeOK
<1>4. CASE Submits(l)
  <2>1. PICK j \in Jobs :
          /\ LauncherGoto(l, "submit", "rest")
          /\ phase' = [phase EXCEPT ![j] = "queued"]
          /\ alloc' = [alloc EXCEPT ![j] = loaded[l]["nodes"]]
          /\ got' = [got EXCEPT ![j] = Unread]
          /\ env' = [env EXCEPT ![j] = FALSE]
          /\ UNCHANGED <<toml, loaded, spec, history>>
    BY <1>4 DEF Submits
  <2>2. Unread \in [{"tp", "pp"} -> Sizes] /\ loaded[l]["nodes"] \in Sizes
    BY SpecFileAssumption DEF Unread, Keys, TypeOK
  <2>3. QED
    BY <2>1, <2>2 DEF TypeOK
<1>5. QED
  BY <1>1, <1>2, <1>3, <1>4

(* Scripts keep the types: they read no key of an empty file.              *)
LEMMA ScriptType ==
    ASSUME TypeOK, NEW j \in Jobs, ScriptStep(j)
    PROVE  TypeOK'
<1> USE DEF JobGoto, launch, history, ScriptStep
<1>1. CASE Starts(j) \/ Ends(j)
  BY <1>1 DEF Starts, Ends, TypeOK
<1>2. CASE ReadsEnv(j)
  BY <1>2 DEF ReadsEnv, TypeOK
<1>3. ASSUME NEW k \in {"tp", "pp"}, NEW next \in {"pp", "env"}, ReadsKey(j, k, next)
      PROVE  TypeOK'
  <2>1. spec # Empty => (CHOOSE c \in spec : TRUE)[k] \in Sizes
    BY DEF TypeOK, Keys, Empty
  <2>2. got' \in [Jobs -> [{"tp", "pp"} -> Sizes]]
    BY <1>3, <2>1 DEF ReadsKey, TypeOK
  <2>3. QED
    BY <1>3, <2>2 DEF ReadsKey, TypeOK
<1>4. QED
  BY <1>1, <1>2, <1>3

(* For every set of sizes: what is loaded, written, allocated and read is  *)
(* a size, and the spec is empty or one whole config.                      *)
THEOREM TypeCorrect == Spec => []TypeOK
<1>1. Init => TypeOK
  <2>1. 0 \in 0..MaxEdits
    BY SpecFileAssumption
  <2>2. Unread \in [{"tp", "pp"} -> Sizes] /\ Defaults["nodes"] \in Sizes
    BY SpecFileAssumption DEF Unread, Keys
  <2>3. Init => edited \in BOOLEAN /\ torn \in BOOLEAN
    BY Zenon DEF Init
  <2>4. QED
    BY <2>1, <2>2, <2>3, SpecFileAssumption DEF Init, TypeOK
<1>2. TypeOK /\ [Next]_vars => TypeOK'
  <2> SUFFICES ASSUME TypeOK, [Next]_vars PROVE TypeOK'
    OBVIOUS
  <2>1. CASE UNCHANGED vars
    BY <2>1 DEF vars, launch, jobs, history, TypeOK
  <2>2. CASE Next
    BY <2>2, EditType, LauncherType, ScriptType DEF Next, ScriptStep
  <2>3. QED
    BY <2>1, <2>2
<1>3. QED
  BY <1>1, <1>2, PTL DEF Spec
=============================================================================
