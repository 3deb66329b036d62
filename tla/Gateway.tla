------------------------------ MODULE Gateway ------------------------------
(***************************************************************************)
(* The gateway process: gateway.run's sync loop, the litellm child it owns *)
(* and SIGTERM, whose handler raises _Shutdown wherever run happens to be. *)
(*                                                                         *)
(* A rendered config is a member of Configs: render and registry.active    *)
(* are in Routing.  litellm is external: it reads its config file once, on *)
(* boot, and exits when its port is taken.  A child's id is its Popen      *)
(* handle; an id without a process that run does not hold is fresh again.  *)
(* One SIGTERM per life of the process is modelled.                        *)
(***************************************************************************)
EXTENDS Naturals, FiniteSets

CONSTANTS
    Configs,    \* what render may return
    Children,   \* Popen handles
    NoChild,
    MaxFaults   \* bound on the faults of a behaviour

ASSUME GatewayAssumption ==
    /\ IsFiniteSet(Children) /\ NoChild \notin Children
    /\ MaxFaults \in Nat

VARIABLES
    active,     \* the config the registry calls for
    file,       \* CONFIG_PATH, {} when missing, else the set of its one config
    main,       \* where run is
    guarded,    \* has run entered its try/finally?
    new,        \* what sync_once has rendered
    proc,       \* the child run holds
    fresh,      \* the child start_litellm has not returned yet
    child,      \* the litellm processes
    loaded,     \* the config each of them has read
    signalled,  \* has SIGTERM been sent to this process, and swallowed?
    harm,       \* what has been cut short so far
    faults

loop  == <<main, guarded, new, proc, fresh>>
procs == <<child, loaded>>
trouble == <<signalled, harm, faults>>
vars  == <<active, file, loop, procs, trouble>>

\* "relook" to "pid" is start_litellm, "stop" and "wait" the rest of
\* restart_litellm, "look" and "write" the loop's own sync_once.
SyncPCs  == {"look", "write"}
StartPCs == {"relook", "rewrite", "spawn", "pid"}
PCs == SyncPCs \cup {"stop", "wait"} \cup StartPCs \cup {"sleep", "finally", "over"}

Alive == {c \in Children : child[c] # "none"}
Serving(s) == \E c \in Children : child[c] = "up" /\ s \in loaded[c]

Init ==
    /\ active \in Configs
    /\ file \in {{}} \cup {{s} : s \in Configs}
    /\ main = "relook"
    /\ guarded = FALSE
    /\ new = active
    /\ proc = NoChild
    /\ fresh = NoChild
    /\ child = [c \in Children |-> "none"]
    /\ loaded = [c \in Children |-> {}]
    /\ signalled = "no"
    /\ harm = 0
    /\ faults = 0

Goto(from, to) == main = from /\ main' = to

\* Harm is 1 when something was cut short that may leave run without a
\* litellm or a litellm without run: a restart, a boot, run itself.  It is 2
\* when that was by a SIGTERM swallowed in a restart, which may leave run with
\* a litellm on a superseded config.
Harms(n) == harm' = IF n > harm THEN n ELSE harm

Fault(n) ==
    /\ faults < MaxFaults
    /\ faults' = faults + 1
    /\ Harms(n)

-----------------------------------------------------------------------------
(* run, restart_litellm and start_litellm.                                 *)

LoopWakes ==
    /\ Goto("sleep", "look")
    /\ UNCHANGED <<active, file, guarded, new, proc, fresh, procs, trouble>>

\* Mutant: it compares with what it rendered last, not with the file.
RendersLast(from, write, same) ==
    /\ Goto(from, IF new = active THEN same ELSE write)
    /\ new' = active
    /\ UNCHANGED <<active, file, guarded, proc, fresh, procs, trouble>>

\* sync_once renders and compares; `write` and `same` are where it goes on.
Renders(from, write, same) ==
    /\ Goto(from, IF file = {active} THEN same ELSE write)
    /\ new' = active
    /\ UNCHANGED <<active, file, guarded, proc, fresh, procs, trouble>>

\* Mutant: the new config is appended to the old one.
ReplacesAppends(from, to) ==
    /\ Goto(from, to)
    /\ file' = file \cup {new}
    /\ UNCHANGED <<active, guarded, new, proc, fresh, procs, trouble>>

\* Written beside the old file and renamed over it.
Replaces(from, to) ==
    /\ Goto(from, to)
    /\ file' = {new}
    /\ UNCHANGED <<active, guarded, new, proc, fresh, procs, trouble>>

Look == Renders("look", "write", "sleep")

\* Mutant: the config is replaced and litellm left running on the old one.
WriteOnly == Replaces("write", "sleep")

Write == Replaces("write", "stop")

Signalled(c) == IF c \in Alive THEN [child EXCEPT ![c] = "stopping"] ELSE child

Stop ==
    /\ Goto("stop", "wait")
    /\ child' = Signalled(proc)
    /\ UNCHANGED <<active, file, guarded, new, proc, fresh, loaded, trouble>>

\* Mutant: the old child is told to stop and not waited for.
WaitSkipped ==
    /\ Goto("wait", "relook")
    /\ UNCHANGED <<active, file, guarded, new, proc, fresh, procs, trouble>>

\* The old child has exited, or is killed after 15 s.
Wait ==
    /\ Goto("wait", "relook")
    /\ child' = [c \in Children |-> IF c = proc THEN "none" ELSE child[c]]
    /\ UNCHANGED <<active, file, guarded, new, proc, fresh, loaded, trouble>>

Relook  == Renders("relook", "rewrite", "spawn")
Rewrite == Replaces("rewrite", "spawn")

Spawn == \E c \in Children \ (Alive \cup {proc}) :
    /\ Goto("spawn", "pid")
    /\ fresh' = c
    /\ child' = [child EXCEPT ![c] = "booting"]
    /\ loaded' = [loaded EXCEPT ![c] = {}]
    /\ UNCHANGED <<active, file, guarded, new, proc, trouble>>

\* The pid file is written and the handle returned.
Assign ==
    /\ Goto("pid", "sleep")
    /\ proc' = fresh
    /\ fresh' = NoChild
    /\ guarded' = TRUE
    /\ UNCHANGED <<active, file, new, procs, trouble>>

\* Mutant: no `finally`.
FinallySkipped ==
    /\ Goto("finally", "over")
    /\ UNCHANGED <<active, file, guarded, new, proc, fresh, procs, trouble>>

Finally ==
    /\ Goto("finally", "over")
    /\ child' = Signalled(proc)
    /\ UNCHANGED <<active, file, guarded, new, proc, fresh, loaded, trouble>>

Run == \/ LoopWakes \/ Look \/ Write \/ Stop \/ Wait
       \/ Relook \/ Rewrite \/ Spawn \/ Assign \/ Finally

-----------------------------------------------------------------------------
(* Exceptions and signals.                                                 *)

\* Where an exception leads: the loop's `except Exception` logs it and goes
\* on, before the try the process ends.
Caught == IF guarded THEN "sleep" ELSE "over"

\* A registry, config, Popen or pid file error, before or after the old
\* child has been stopped.
Raises ==
    /\ \/ main \in SyncPCs  /\ Fault(0)
       \/ main \in StartPCs /\ Fault(1)
    /\ main' = Caught
    /\ fresh' = NoChild
    /\ UNCHANGED <<active, file, guarded, new, proc, procs, signalled>>

\* _Shutdown is an Exception: only outside the inner try does it reach its
\* own handler.  `caught` is where it leads from sleep.
SigtermTo(caught) ==
    /\ main \notin {"finally", "over"}
    /\ signalled = "no"
    /\ signalled' = IF main = "sleep" \/ ~guarded THEN "yes" ELSE "swallowed"
    /\ main' = IF main = "sleep" THEN caught ELSE Caught
    /\ Harms(IF main \in SyncPCs \cup {"sleep"} THEN 0 ELSE IF guarded THEN 2 ELSE 1)
    /\ fresh' = NoChild
    /\ UNCHANGED <<active, file, guarded, new, proc, procs, faults>>

\* Mutant: the loop's sleep is inside its inner try.
SigtermInSleep == SigtermTo("sleep")

Sigterm == SigtermTo("finally")

Killed ==
    /\ Fault(1)
    /\ main # "over"
    /\ main' = "over"
    /\ UNCHANGED <<active, file, guarded, new, proc, fresh, procs, signalled>>

\* The operator starts the gateway again, once a litellm that was told to
\* stop is gone: `finally` does not wait for it.
Reruns ==
    /\ Goto("over", "relook")
    /\ \A c \in Children : child[c] # "stopping"
    /\ guarded' = FALSE
    /\ proc' = NoChild
    /\ fresh' = NoChild
    /\ signalled' = "no"
    /\ UNCHANGED <<active, file, new, procs, harm, faults>>

-----------------------------------------------------------------------------
(* The registry and litellm.                                               *)

BackendsChange ==
    /\ active' \in Configs \ {active}
    /\ UNCHANGED <<file, loop, procs, trouble>>

\* A booting litellm reads the file and binds its port, or fails to.
Boots(c) ==
    /\ child[c] = "booting"
    /\ LET free == \A d \in Children : child[d] \notin {"up", "stopping"}
       IN  /\ child'  = [child EXCEPT ![c] = IF free THEN "up" ELSE "none"]
           /\ loaded' = [loaded EXCEPT ![c] = file]
    /\ UNCHANGED <<active, file, loop, trouble>>

\* It obeys SIGTERM.
Exits(c) ==
    /\ child[c] = "stopping"
    /\ child' = [child EXCEPT ![c] = "none"]
    /\ UNCHANGED <<active, file, loop, loaded, trouble>>

Crashes(c) ==
    /\ Fault(0)
    /\ child[c] = "up"
    /\ child' = [child EXCEPT ![c] = "none"]
    /\ UNCHANGED <<active, file, loop, loaded, signalled>>

-----------------------------------------------------------------------------

Next ==
    \/ Run \/ Raises \/ Sigterm \/ Killed \/ Reruns \/ BackendsChange
    \/ \E c \in Children : Boots(c) \/ Exits(c) \/ Crashes(c)

Spec == Init /\ [][Next]_vars

\* The loop goes on and a process that was started boots.  Nobody need ever
\* rerun the gateway; litellm need not obey SIGTERM.
FairSpec ==
    /\ Spec
    /\ WF_vars(Run)
    /\ \A c \in Children : WF_vars(Boots(c))

-----------------------------------------------------------------------------
(* Properties.                                                             *)

(* Every variable has its type.                                            *)
TypeOK ==
    /\ active \in Configs /\ new \in Configs
    /\ file \in {{}} \cup {{s} : s \in Configs}
    /\ main \in PCs
    /\ guarded \in BOOLEAN /\ signalled \in {"no", "yes", "swallowed"}
    /\ proc \in Children \cup {NoChild} /\ fresh \in Children \cup {NoChild}
    /\ child \in [Children -> {"none", "booting", "up", "stopping"}]
    /\ loaded \in [Children -> SUBSET Configs]
    /\ harm \in 0..2 /\ faults \in 0..MaxFaults

Ended == main \in {"finally", "over"}

(* run's "restart it whenever the backend set changes": a config the       *)
(* registry calls for and the file does not yet have ends up being served, *)
(* whatever sync errors and litellm crashes come first, unless it changes  *)
(* again or the gateway ends.  Once a restart has been cut short it is not *)
(* so: the file has the config, no later sync finds anything to do.        *)
ChangeIsServed ==
    \A s \in Configs :
        main = "sleep" /\ active = s /\ file # {s} ~>
            active # s \/ Ended \/ Serving(s) \/ harm > 0

(* Back asleep, the litellm run holds serves the file's config and no      *)
(* superseded one, whatever sync errors, half-done restarts, boots on a    *)
(* taken port and killed gateways came before; a SIGTERM swallowed between *)
(* the replacement of the file and the stop is the exception.              *)
ServesFile ==
    /\ harm < 2
    /\ main = "sleep" /\ proc \in Children /\ child[proc] = "up"
    => loaded[proc] = file

(* Two litellms never live at once: the one that holds the port would keep *)
(* the new one from ever serving.                                          *)
OneChild == harm = 0 => Cardinality(Alive) <= 1

(* _Shutdown exists so that `kill` does not orphan the litellm child: when *)
(* the gateway is over every litellm has been told to stop, if run had got *)
(* to its try.                                                             *)
NoOrphan == harm = 0 /\ main = "over" => \A c \in Alive : child[c] = "stopping"

(* A SIGTERM ends the gateway, unless it arrives during a sync or restart, *)
(* where the loop's `except Exception` swallows _Shutdown.                 *)
TermEnds == signalled = "yes" ~> main = "over"
=============================================================================
