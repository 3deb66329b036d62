------------------------------ MODULE SpecFile ------------------------------
(***************************************************************************)
(* From a model's TOML to the engine a job runs: config.load's merge,      *)
(* cmd_up's check of the parallelism, the spec file _write_spec truncates  *)
(* and writes, the allocation asked for with sbatch, and the script that   *)
(* reads the spec key by key once Slurm has started it, maybe hours later. *)
(*                                                                         *)
(* Of the spec, tensor_parallel_size, pipeline_parallel_size and the site  *)
(* env tell the properties apart; a node has one GPU.                      *)
(***************************************************************************)
EXTENDS Naturals, Functions

CONSTANTS
    Sizes,      \* values of each key
    Defaults,   \* EngineSpec and SlurmSpec
    Launchers,  \* processes that may be in cmd_up: a supervisor, an operator
    Jobs,
    MaxEdits    \* bound on the edits of a behaviour

Keys == {"tp", "pp", "nodes"}
Layers == {"site", "model", "override"}

ASSUME SpecFileAssumption ==
    /\ Sizes \subseteq Nat
    /\ Defaults \in [Keys -> Sizes]
    /\ MaxEdits \in Nat

VARIABLES
    toml,       \* the keys each layer sets
    at,         \* where each launcher is in cmd_up
    loaded,     \* the config it has loaded
    spec,       \* the file: {} when empty, else the set of its one config
    phase,      \* what each job reads next, or how it ended
    alloc,      \* the nodes it was given
    got,        \* what it has read
    env,        \* has it exported the site's environment?
    edited,     \* has the TOML been edited while a launch was under way?
    torn,       \* has a launch emptied the spec just as a script came to its env?
    edits

launch == <<at, loaded>>
jobs   == <<phase, alloc, got, env>>
history == <<edited, torn, edits>>
vars   == <<toml, launch, spec, jobs, history>>

\* A file that a launcher or a job can only find empty or whole: the text is
\* written at once, after open has truncated it.
Empty == {}

\* Mutant: a key no layer sets has no default.
LoadUndefaulted(t) ==
    [k \in Keys |->
        IF k \in DOMAIN t["override"] THEN t["override"][k]
        ELSE IF k \in DOMAIN t["model"] THEN t["model"][k]
        ELSE IF k \in DOMAIN t["site"] THEN t["site"][k]
        ELSE 0]

\* load: site profile < model TOML < its table for the site, key by key.
Load(t) ==
    [k \in Keys |->
        IF k \in DOMAIN t["override"] THEN t["override"][k]
        ELSE IF k \in DOMAIN t["model"] THEN t["model"][k]
        ELSE IF k \in DOMAIN t["site"] THEN t["site"][k]
        ELSE Defaults[k]]

\* world_size against the GPUs asked for.
Fits(c) == c["tp"] * c["pp"] = c["nodes"]

\* A site sets Slurm keys only.
Sets(layer, k) == layer = "site" => k = "nodes"

\* Before it reads them a script has no sizes: any will do.
Unread == [k \in {"tp", "pp"} |-> Defaults[k]]

Init ==
    /\ toml = [l \in Layers |-> << >>]
    /\ at = [l \in Launchers |-> "rest"]
    /\ loaded = [l \in Launchers |-> Defaults]
    /\ spec = Empty
    /\ phase = [j \in Jobs |-> "none"]
    /\ alloc = [j \in Jobs |-> Defaults["nodes"]]
    /\ got = [j \in Jobs |-> Unread]
    /\ env = [j \in Jobs |-> FALSE]
    /\ edited = FALSE /\ torn = FALSE
    /\ edits = 0

Waiting(j) == phase[j] \in {"queued", "tp", "pp", "env"}
Calm == (\A l \in Launchers : at[l] = "rest") /\ (\A j \in Jobs : ~Waiting(j))

With(f, k, v) == [x \in DOMAIN f \cup {k} |-> IF x = k THEN v ELSE f[x]]

\* A key is set to a value, or its line deleted.
Edit(layer, k) ==
    /\ edits < MaxEdits /\ edits' = edits + 1
    /\ edited' = (edited \/ ~Calm)
    /\ Sets(layer, k)
    /\ \/ \E v \in Sizes : toml' = [toml EXCEPT ![layer] = With(@, k, v)]
       \/ toml' = [toml EXCEPT ![layer] = Restrict(@, DOMAIN @ \ {k})]
    /\ UNCHANGED <<launch, spec, jobs, torn>>

-----------------------------------------------------------------------------
(* cmd_up.                                                                 *)

LauncherGoto(l, from, to) == at[l] = from /\ at' = [at EXCEPT ![l] = to]

\* A mismatch ends the command.
Loads(l) ==
    LET c == Load(toml)
    IN  /\ LauncherGoto(l, "rest", IF Fits(c) THEN "open" ELSE "rest")
        /\ loaded' = [loaded EXCEPT ![l] = c]
        /\ UNCHANGED <<toml, spec, jobs, history>>

\* Mutant: a spec that is there is kept.
TruncatesMissing(l) ==
    /\ LauncherGoto(l, "open", IF spec = Empty THEN "write" ELSE "submit")
    /\ UNCHANGED <<toml, loaded, spec, jobs, history>>

Truncates(l) ==
    /\ LauncherGoto(l, "open", "write")
    /\ spec' = Empty
    /\ torn' = (torn \/ \E j \in Jobs : phase[j] = "env")
    /\ UNCHANGED <<toml, loaded, jobs, edited, edits>>

Writes(l) ==
    /\ LauncherGoto(l, "write", "submit")
    /\ spec' = {loaded[l]}
    /\ UNCHANGED <<toml, loaded, jobs, history>>

Submits(l) == \E j \in Jobs :
    /\ LauncherGoto(l, "submit", "rest")
    /\ ~Waiting(j) /\ phase[j] # "running"
    /\ phase' = [phase EXCEPT ![j] = "queued"]
    /\ alloc' = [alloc EXCEPT ![j] = loaded[l]["nodes"]]
    /\ got' = [got EXCEPT ![j] = Unread]
    /\ env' = [env EXCEPT ![j] = FALSE]
    /\ UNCHANGED <<toml, loaded, spec, history>>

-----------------------------------------------------------------------------
(* The script.                                                             *)

JobGoto(j, from, to) == phase[j] = from /\ phase' = [phase EXCEPT ![j] = to]

Starts(j) ==
    /\ JobGoto(j, "queued", "tp")
    /\ UNCHANGED <<toml, launch, spec, alloc, got, env, history>>

\* Mutant: without set -e the script goes on with what it has.
ReadsKeyAnyway(j, k, next) ==
    /\ JobGoto(j, k, next)
    /\ got' = IF spec = Empty THEN got ELSE [got EXCEPT ![j][k] = (CHOOSE c \in spec : TRUE)[k]]
    /\ UNCHANGED <<toml, launch, spec, alloc, env, history>>

\* `TP=$(spec ...)` under set -e: a file that does not parse is the end.
ReadsKey(j, k, next) ==
    /\ JobGoto(j, k, IF spec = Empty THEN "dead" ELSE next)
    /\ got' = IF spec = Empty THEN got ELSE [got EXCEPT ![j][k] = (CHOOSE c \in spec : TRUE)[k]]
    /\ UNCHANGED <<toml, launch, spec, alloc, env, history>>

\* `eval "$(...)"` is no such end: of a file that does not parse it exports
\* nothing.
ReadsEnv(j) ==
    /\ JobGoto(j, "env", "running")
    /\ env' = [env EXCEPT ![j] = spec # Empty]
    /\ UNCHANGED <<toml, launch, spec, alloc, got, history>>

Ends(j) ==
    /\ JobGoto(j, "running", "none")
    /\ UNCHANGED <<toml, launch, spec, alloc, got, env, history>>

-----------------------------------------------------------------------------

Next ==
    \/ \E layer \in Layers, k \in Keys : Edit(layer, k)
    \/ \E l \in Launchers : Loads(l) \/ Truncates(l) \/ Writes(l) \/ Submits(l)
    \/ \E j \in Jobs :
        Starts(j) \/ ReadsKey(j, "tp", "pp") \/ ReadsKey(j, "pp", "env") \/ ReadsEnv(j) \/ Ends(j)

Spec == Init /\ [][Next]_vars

-----------------------------------------------------------------------------
(* Properties.                                                             *)

(* Every variable has its type.                                            *)
TypeOK ==
    /\ \A l \in Layers : DOMAIN toml[l] \subseteq Keys /\ \A k \in DOMAIN toml[l] : toml[l][k] \in Sizes
    /\ at \in [Launchers -> {"rest", "open", "write", "submit"}]
    /\ loaded \in [Launchers -> [Keys -> Sizes]]
    /\ spec \in {Empty} \cup {{c} : c \in [Keys -> Sizes]}
    /\ phase \in [Jobs -> {"none", "queued", "tp", "pp", "env", "running", "dead"}]
    /\ alloc \in [Jobs -> Sizes]
    /\ got \in [Jobs -> [{"tp", "pp"} -> Sizes]]
    /\ env \in [Jobs -> BOOLEAN]
    /\ edited \in BOOLEAN /\ torn \in BOOLEAN /\ edits \in 0..MaxEdits

(* The engine a job runs has one worker per GPU of the job's allocation,   *)
(* though the two numbers travel apart, one in sbatch's flags and one in a *)
(* file every launch of the model overwrites; unless the TOML has been     *)
(* edited while a launch or a queued job was under way.                    *)
RunsAsAllocated == ~edited =>
    \A j \in Jobs : phase[j] = "running" => got[j]["tp"] * got[j]["pp"] = alloc[j]

(* A job runs with the environment its site needs, though `eval` does not  *)
(* notice a spec it cannot parse: the keys before it do.  The exception is *)
(* a launch that empties the spec in between.                              *)
EnvExported == ~torn => \A j \in Jobs : phase[j] = "running" => env[j]
=============================================================================
