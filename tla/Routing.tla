------------------------------- MODULE Routing -------------------------------
(***************************************************************************)
(* Which backend a client's model name leads to: registry.active over all  *)
(* the records of several models, stale ones left out, and the rows render *)
(* makes of it, one per model and one per Claude Code alias.  The rows are *)
(* rendered at each sync from the registry of the moment; litellm's        *)
(* restarts are in Gateway.                                                *)
(*                                                                         *)
(* The other half of a handoff, decide's drain of the backend with the     *)
(* least walltime, is here too, as it does not look at staleness.          *)
(***************************************************************************)
EXTENDS Integers, FiniteSets, Sequences, SequencesExt

CONSTANTS
    ModelList,  \* available(), in its order
    Served,     \* served_name of each
    Named32b,   \* the models with "32b" in their names
    Jobs,       \* job ids, numbers in the order of the records' file names
    MaxWall     \* bound on expires_at

Models == ToSet(ModelList)
Roles  == {"primary", "small", ""}
Cold   == 0

ASSUME RoutingAssumption ==
    /\ Len(ModelList) \in Nat \ {0} /\ DOMAIN ModelList = 1..Len(ModelList)
    /\ Jobs \subseteq Nat \ {Cold} /\ IsFiniteSet(Jobs)
    /\ MaxWall \in Nat
    /\ Named32b \subseteq Models

VARIABLES
    role,       \* the configured roles
    model, state, expires, fresh,   \* the records, "none" for no file
    shown       \* the job of each model's rows, Cold for the waker

records == <<model, state, expires, fresh>>
vars    == <<role, records, shown>>

-----------------------------------------------------------------------------
(* registry.active and render.                                             *)

\* max and min return the first of equals, in file order.
First(js) == CHOOSE j \in js : \A k \in js : j <= k
Latest(js)   == First({j \in js : \A k \in js : expires[k] <= expires[j]})
Soonest(js)  == First({j \in js : \A k \in js : expires[j] <= expires[k]})

Of(m, s)       == {j \in Jobs : model[j] = m /\ state[j] = s}
Candidates(m, s) == {j \in Of(m, s) : fresh[j]}

\* Mutant: the one with the least walltime left.
ActiveSoonest(m) ==
    IF Candidates(m, "ready") # {} THEN Soonest(Candidates(m, "ready"))
    ELSE IF Candidates(m, "draining") # {} THEN Soonest(Candidates(m, "draining"))
    ELSE Cold

\* READY before DRAINING, and the most walltime left.
Active(m) ==
    IF Candidates(m, "ready") # {} THEN Latest(Candidates(m, "ready"))
    ELSE IF Candidates(m, "draining") # {} THEN Latest(Candidates(m, "draining"))
    ELSE Cold

\* The first model of the list in a set, or a default.
FirstOf(ms, default) ==
    IF ms = {} THEN default ELSE ModelList[First({i \in DOMAIN ModelList : ModelList[i] \in ms})]

\* Mutant: the first model of the list, as before roles were explicit.
PrimaryIsFirst == ModelList[1]

Primary == FirstOf({m \in Models : role[m] = "primary"}, ModelList[1])
Small   == FirstOf({m \in Models : role[m] = "small"}, FirstOf(Named32b, Primary))

\* The rows that lead to m: those of the alias, and one under the served name
\* of its backend, or under its own while it is cold.
Row(name, m) == [name |-> name, model |-> m, job |-> shown[m]]
Rows ==
    {Row(IF shown[m] = Cold THEN m ELSE Served[m], m) : m \in Models}
      \cup {Row("sonnet", Primary), Row("opus", Primary), Row("haiku", Small)}

-----------------------------------------------------------------------------

Init ==
    /\ role \in [Models -> Roles]
    /\ model = [j \in Jobs |-> ModelList[1]]
    /\ state = [j \in Jobs |-> "none"]
    /\ expires = [j \in Jobs |-> 0]
    /\ fresh = [j \in Jobs |-> TRUE]
    /\ shown = [m \in Models |-> Cold]

\* Mutant: the first publish names no state.
PublishesBare(j, m) ==
    /\ state[j] = "none" /\ state' = [state EXCEPT ![j] = "queued"]
    /\ model' = [model EXCEPT ![j] = m]
    /\ UNCHANGED <<role, expires, fresh, shown>>

\* A job's record, from its first publish to the eviction.  Slurm does not
\* give an id out again while anyone remembers it.
Publishes(j, m) == \E wall \in 1..MaxWall :
    /\ \A n \in Models : shown[n] # j
    /\ state[j] = "none" /\ state' = [state EXCEPT ![j] = "loading"]
    /\ model' = [model EXCEPT ![j] = m]
    /\ expires' = [expires EXCEPT ![j] = wall]
    /\ fresh' = [fresh EXCEPT ![j] = TRUE]
    /\ UNCHANGED <<role, shown>>

IsReady(j) ==
    /\ state[j] = "loading" /\ state' = [state EXCEPT ![j] = "ready"]
    /\ fresh' = [fresh EXCEPT ![j] = TRUE]
    /\ UNCHANGED <<role, model, expires, shown>>

\* `publish state=draining` of a job that ends by itself.
Leaves(j) ==
    /\ state[j] = "ready" /\ state' = [state EXCEPT ![j] = "draining"]
    /\ fresh' = [fresh EXCEPT ![j] = TRUE]
    /\ UNCHANGED <<role, model, expires, shown>>

Evicted(j) ==
    /\ state[j] \in {"loading", "draining"} \/ ~fresh[j]
    /\ state' = [state EXCEPT ![j] = "none"]
    /\ UNCHANGED <<role, model, expires, fresh, shown>>

\* The heartbeat is 90 s old, or beats again.
Stalls(j) ==
    /\ state[j] # "none"
    /\ fresh' = [fresh EXCEPT ![j] = ~@]
    /\ UNCHANGED <<role, model, state, expires, shown>>

\* decide with demand 1, and apply: heartbeat_from_job renews the heartbeat.
DrainsOf(m, j) ==
    /\ Cardinality(Of(m, "ready")) > 1
    /\ state' = [state EXCEPT ![j] = "draining"]
    /\ fresh' = [fresh EXCEPT ![j] = TRUE]
    /\ UNCHANGED <<role, model, expires, shown>>

\* Mutant: the drain goes to the successor.
DrainsLatest(m) == DrainsOf(m, Latest(Of(m, "ready")))

Drains(m) == DrainsOf(m, Soonest(Of(m, "ready")))

Syncs ==
    /\ shown' = [m \in Models |-> Active(m)]
    /\ UNCHANGED <<role, records>>

Next ==
    \/ \E m \in Models : Drains(m)
    \/ \E j \in Jobs :
        IsReady(j) \/ Leaves(j) \/ Evicted(j) \/ Stalls(j) \/ \E m \in Models : Publishes(j, m)
    \/ Syncs

Spec == Init /\ [][Next]_vars

-----------------------------------------------------------------------------
(* Properties.                                                             *)

(* Every variable has its type.                                            *)
TypeOK ==
    /\ role \in [Models -> Roles]
    /\ model \in [Jobs -> Models]
    /\ state \in [Jobs -> {"none", "loading", "ready", "draining"}]
    /\ expires \in [Jobs -> 0..MaxWall] /\ fresh \in [Jobs -> BOOLEAN]
    /\ shown \in [Models -> Jobs \cup {Cold}]

Answers(j) == state[j] = "ready" /\ fresh[j]

(* The cutover of a handoff is one way: clients are moved off a backend    *)
(* that still answers only to one that lasts longer, or as long.           *)
CutoverIsForward == [][
    \A m \in Models : shown[m] # Cold /\ shown'[m] # shown[m] /\ Answers(shown[m]) =>
        shown'[m] # Cold /\ expires[shown'[m]] >= expires[shown[m]]]_vars

(* decide's drain spares the backend the gateway routes to, though each    *)
(* picks its own: what was routed to a READY backend still is, and to one  *)
(* that lasts as long.  The exception is a record that is READY but stale, *)
(* its heartbeat having stopped: active leaves it out and decide does not, *)
(* so the drain may take the only backend that answers.                    *)
DrainSparesRoute == [][
    \A m \in Models : Drains(m) /\ Of(m, "ready") = Candidates(m, "ready") =>
        /\ state'[Active(m)'] = "ready"
        /\ expires[Active(m)'] >= expires[Active(m)]]_vars

(* Claude Code's aliases lead to the models configured for them, wherever  *)
(* those are in the list and whatever is up.                               *)
AliasFollowsRole == \A r \in Rows :
    /\ r.name \in {"sonnet", "opus"} /\ (\E m \in Models : role[m] = "primary") => role[r.model] = "primary"
    /\ r.name = "haiku" /\ (\E m \in Models : role[m] = "small") => role[r.model] = "small"
=============================================================================
