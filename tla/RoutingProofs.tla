---------------------------- MODULE RoutingProofs ----------------------------
(***************************************************************************)
(* For any list of models, any job ids and any walltimes: the choices of   *)
(* registry.active, gateway.render and decide's drain fit together.        *)
(***************************************************************************)
EXTENDS Routing, FiniteSetTheorems, WellFoundedInduction, TLAPS

(* Naturals have a least member, so min and max return what they should.   *)
LEMMA LeastNatural ==
    ASSUME NEW S \in SUBSET Nat, S # {}
    PROVE  \E x \in S : \A y \in S : x <= y
<1>1. PICK x \in S : \A y \in S : ~(<<y, x>> \in OpToRel(<, Nat))
  BY WFMin, NatLessThanWellFounded
<1>2. \A y \in S : ~(y < x)
  BY <1>1 DEF OpToRel
<1>3. QED
  BY <1>2

LEMMA FirstIsMember ==
    ASSUME NEW js \in SUBSET Nat, js # {}
    PROVE  First(js) \in js
<1>1. \E j \in js : \A k \in js : j <= k
  BY LeastNatural
<1>2. QED
  BY <1>1 DEF First

LEMMA LatestFacts ==
    ASSUME TypeOK, NEW js \in SUBSET Jobs, js # {}
    PROVE  /\ Latest(js) \in js
           /\ \A k \in js : expires[k] <= expires[Latest(js)]
<1> DEFINE S == {MaxWall - expires[j] : j \in js}
           T == {j \in js : \A k \in js : expires[k] <= expires[j]}
<1>0. \A j \in js : expires[j] \in 0..MaxWall
  BY DEF TypeOK
<1>1. S \in SUBSET Nat /\ S # {}
  <2>1. \A j \in js : MaxWall - expires[j] \in Nat
    BY <1>0, RoutingAssumption
  <2>2. \E j \in js : MaxWall - expires[j] \in S
    OBVIOUS
  <2>3. QED
    BY <2>1, <2>2
<1>2. PICK x \in S : \A y \in S : x <= y
  BY <1>1, LeastNatural
<1>3. PICK j \in js : x = MaxWall - expires[j]
  BY <1>2
<1>4. \A k \in js : MaxWall - expires[j] <= MaxWall - expires[k]
  BY <1>2, <1>3
<1>5. \A k \in js : expires[k] <= expires[j]
  BY <1>4, RoutingAssumption DEF TypeOK
<1>6. T \in SUBSET Nat /\ T # {}
  BY <1>3, <1>5, RoutingAssumption
<1>7. First(T) \in T
  BY <1>6, FirstIsMember
<1>8. QED
  BY <1>7 DEF Latest

LEMMA SoonestFacts ==
    ASSUME TypeOK, NEW js \in SUBSET Jobs, js # {}
    PROVE  /\ Soonest(js) \in js
           /\ \A k \in js : expires[Soonest(js)] <= expires[k]
<1> DEFINE S == {expires[j] : j \in js}
           T == {j \in js : \A k \in js : expires[j] <= expires[k]}
<1>0. \A j \in js : expires[j] \in 0..MaxWall
  BY DEF TypeOK
<1>1. S \in SUBSET Nat /\ S # {}
  <2>1. \A j \in js : expires[j] \in Nat
    BY <1>0, RoutingAssumption
  <2>2. \E j \in js : expires[j] \in S
    OBVIOUS
  <2>3. QED
    BY <2>1, <2>2
<1>2. PICK x \in S : \A y \in S : x <= y
  BY <1>1, LeastNatural
<1>3. PICK j \in js : x = expires[j]
  BY <1>2
<1>4. T \in SUBSET Nat /\ T # {}
  BY <1>2, <1>3, RoutingAssumption
<1>5. First(T) \in T
  BY <1>4, FirstIsMember
<1>6. QED
  BY <1>5 DEF Soonest

(* active returns a fresh record of its model, READY if there is one.      *)
LEMMA ActiveFacts ==
    ASSUME TypeOK, NEW m \in Models
    PROVE  /\ Active(m) \in Jobs \cup {Cold}
           /\ Active(m) # Cold => model[Active(m)] = m
           /\ Candidates(m, "ready") # {} =>
                 /\ Active(m) \in Candidates(m, "ready")
                 /\ \A k \in Candidates(m, "ready") : expires[k] <= expires[Active(m)]
<1>1. \A s : Candidates(m, s) \in SUBSET Jobs
  BY DEF Candidates, Of
<1>2. \A s : \A j \in Candidates(m, s) : model[j] = m
  BY DEF Candidates, Of
<1>3. CASE Candidates(m, "ready") # {}
  BY <1>1, <1>2, <1>3, LatestFacts DEF Active
<1>4. CASE Candidates(m, "ready") = {} /\ Candidates(m, "draining") # {}
  BY <1>1, <1>2, <1>4, LatestFacts DEF Active
<1>5. CASE Candidates(m, "ready") = {} /\ Candidates(m, "draining") = {}
  BY <1>5 DEF Active
<1>6. QED
  BY <1>3, <1>4, <1>5

ActiveIsBest ==
    \A m \in Models : Candidates(m, "ready") # {} =>
        /\ Active(m) \in Candidates(m, "ready")
        /\ \A k \in Candidates(m, "ready") : expires[k] <= expires[Active(m)]

LEMMA ActiveBest == TypeOK => ActiveIsBest
BY ActiveFacts DEF ActiveIsBest

(* render finds the model it looks for, if the list has one.               *)
LEMMA FirstOfFacts ==
    ASSUME NEW ms \in SUBSET Models, ms # {}, NEW default
    PROVE  FirstOf(ms, default) \in ms
<1> DEFINE I == {i \in DOMAIN ModelList : ModelList[i] \in ms}
<1>1. I \in SUBSET Nat
  BY RoutingAssumption
<1>2. I # {}
  BY DEF Models, ToSet
<1>3. First(I) \in I
  BY <1>1, <1>2, FirstIsMember
<1>4. QED
  BY <1>3 DEF FirstOf

-----------------------------------------------------------------------------

\* A model's rows lead to a job of that model, while it has a record.
ShownIsOwn ==
    \A m \in Models : shown[m] # Cold /\ state[shown[m]] # "none" => model[shown[m]] = m

IInv == TypeOK /\ ShownIsOwn

LEMMA InitHolds == Init => IInv
<1> SUFFICES ASSUME Init PROVE IInv
  OBVIOUS
<1>1. ModelList[1] \in Models
  BY RoutingAssumption DEF Models, ToSet
<1>2. TypeOK
  BY <1>1, RoutingAssumption DEF Init, TypeOK
<1>3. ShownIsOwn
  BY DEF Init, ShownIsOwn
<1>4. QED
  BY <1>2, <1>3 DEF IInv

(* The writers of a record keep it.                                        *)
LEMMA WriterStep ==
    ASSUME IInv, NEW j \in Jobs, NEW m \in Models,
           IsReady(j) \/ Leaves(j) \/ Evicted(j) \/ Stalls(j) \/ Publishes(j, m)
    PROVE  IInv' /\ shown' = shown
<1> USE DEF IInv, TypeOK, ShownIsOwn
<1>1. j # Cold
  BY RoutingAssumption
<1>2. CASE IsReady(j)
  BY <1>1, <1>2 DEF IsReady
<1>3. CASE Leaves(j)
  BY <1>1, <1>3 DEF Leaves
<1>4. CASE Evicted(j)
  BY <1>1, <1>4 DEF Evicted
<1>5. CASE Stalls(j)
  BY <1>1, <1>5 DEF Stalls
<1>6. CASE Publishes(j, m)
  <2>1. PICK wall \in 1..MaxWall :
          /\ \A n \in Models : shown[n] # j
          /\ state[j] = "none" /\ state' = [state EXCEPT ![j] = "loading"]
          /\ model' = [model EXCEPT ![j] = m]
          /\ expires' = [expires EXCEPT ![j] = wall]
          /\ fresh' = [fresh EXCEPT ![j] = TRUE]
          /\ UNCHANGED <<role, shown>>
    BY <1>6 DEF Publishes
  <2>2. wall \in 0..MaxWall
    BY RoutingAssumption
  <2>3. TypeOK'
    BY <2>1, <2>2
  <2>4. ShownIsOwn'
    BY <2>1
  <2>5. QED
    BY <2>1, <2>3, <2>4
<1>7. QED
  BY <1>2, <1>3, <1>4, <1>5, <1>6

(* The drain hits a READY record of its model.                             *)
LEMMA DrainFacts ==
    ASSUME TypeOK, NEW m \in Models, Drains(m)
    PROVE  /\ Soonest(Of(m, "ready")) \in Of(m, "ready")
           /\ \A k \in Of(m, "ready") : expires[Soonest(Of(m, "ready"))] <= expires[k]
           /\ Of(m, "ready") \ {Soonest(Of(m, "ready"))} # {}
<1> DEFINE R == Of(m, "ready")
<1>1. R \in SUBSET Jobs /\ IsFiniteSet(R)
  BY FS_Subset, RoutingAssumption DEF Of
<1>2. Cardinality(R) > 1
  BY DEF Drains, DrainsOf
<1>3. R # {} /\ \A x : R # {x}
  BY <1>2, FS_EmptySet, FS_Singleton
<1>4. QED
  BY <1>1, <1>3, SoonestFacts

LEMMA DrainStep ==
    ASSUME IInv, NEW m \in Models, Drains(m)
    PROVE  IInv' /\ shown' = shown
<1> DEFINE v == Soonest(Of(m, "ready"))
<1>1. v \in Jobs /\ state[v] = "ready"
  BY DrainFacts DEF IInv, Of
<1>2. /\ state' = [state EXCEPT ![v] = "draining"]
      /\ fresh' = [fresh EXCEPT ![v] = TRUE]
      /\ UNCHANGED <<role, model, expires, shown>>
  BY DEF Drains, DrainsOf
<1>3. QED
  BY <1>1, <1>2 DEF IInv, TypeOK, ShownIsOwn

LEMMA SyncStep ==
    ASSUME IInv, Syncs
    PROVE  /\ IInv'
           /\ \A m \in Models : shown[m] # Cold /\ Answers(shown[m]) =>
                 shown'[m] # Cold /\ expires[shown'[m]] >= expires[shown[m]]
<1>1. \A m \in Models : shown'[m] = Active(m)
  BY DEF Syncs
<1>2. /\ shown' \in [Models -> Jobs \cup {Cold}]
      /\ UNCHANGED <<role, model, state, expires, fresh>>
  BY <1>1, ActiveFacts DEF IInv, Syncs, records
<1>3. \A m \in Models : shown'[m] # Cold => model[shown'[m]] = m
  BY <1>1, ActiveFacts DEF IInv
<1>4. IInv'
  BY <1>2, <1>3 DEF IInv, TypeOK, ShownIsOwn
<1>5. ASSUME NEW m \in Models, shown[m] # Cold, Answers(shown[m])
      PROVE  shown'[m] # Cold /\ expires[shown'[m]] >= expires[shown[m]]
  <2>1. shown[m] \in Candidates(m, "ready")
    BY <1>5 DEF IInv, TypeOK, ShownIsOwn, Answers, Candidates, Of
  <2>2. /\ Active(m) \in Candidates(m, "ready")
        /\ expires[shown[m]] <= expires[Active(m)]
    BY <2>1, ActiveFacts DEF IInv
  <2>3. Active(m) \in Jobs /\ shown[m] \in Jobs
    BY <2>1, <2>2 DEF Candidates, Of
  <2>4. expires[Active(m)] \in Nat /\ expires[shown[m]] \in Nat
    BY <2>3, RoutingAssumption DEF IInv, TypeOK
  <2>5. QED
    BY <1>1, <2>2, <2>3, <2>4, RoutingAssumption
<1>6. QED
  BY <1>4, <1>5

LEMMA Inductive == Spec => []IInv
<1>1. IInv /\ [Next]_vars => IInv'
  <2> SUFFICES ASSUME IInv, [Next]_vars PROVE IInv'
    OBVIOUS
  <2>1. CASE UNCHANGED vars
    BY <2>1 DEF vars, records, IInv, TypeOK, ShownIsOwn
  <2>2. \E m \in Models : TRUE
    BY RoutingAssumption DEF Models, ToSet
  <2>3. CASE Next
    BY <2>2, <2>3, WriterStep, DrainStep, SyncStep DEF Next
  <2>4. QED
    BY <2>1, <2>3
<1>2. QED
  BY <1>1, InitHolds, PTL DEF Spec

(* The records and the table have their types, for every list of models.   *)
THEOREM TypeCorrect == Spec => []TypeOK
<1>1. IInv => TypeOK
  BY DEF IInv
<1>2. QED
  BY <1>1, Inductive, PTL

(* registry.active's max over expires_at: no sync takes clients off a      *)
(* backend that answers, unless to one that lasts at least as long,        *)
(* however many backends, models and stale records there are.              *)
THEOREM ClientsMoveForward == Spec => CutoverIsForward
<1> DEFINE Forward ==
      \A m \in Models : shown[m] # Cold /\ shown'[m] # shown[m] /\ Answers(shown[m]) =>
        shown'[m] # Cold /\ expires[shown'[m]] >= expires[shown[m]]
<1>1. IInv /\ [Next]_vars => [Forward]_vars
  <2> SUFFICES ASSUME IInv, Next PROVE Forward
    BY DEF vars
  <2>1. \E m \in Models : TRUE
    BY RoutingAssumption DEF Models, ToSet
  <2>2. CASE Syncs
    BY <2>2, SyncStep
  <2>3. CASE ~Syncs
    <3>1. shown' = shown
      BY <2>1, <2>3, WriterStep, DrainStep DEF Next
    <3>2. QED
      BY <3>1
  <2>4. QED
    BY <2>2, <2>3
<1>2. QED
  BY <1>1, Inductive, PTL DEF Spec, CutoverIsForward

(* While no READY record is stale the drain that ends a handoff leaves    *)
(* active a READY backend, which lasts as long as the one it had.          *)
THEOREM DrainLeavesRoute == Spec => DrainSparesRoute
<1> DEFINE Spares ==
      \A m \in Models : Drains(m) /\ Of(m, "ready") = Candidates(m, "ready") =>
        /\ state'[Active(m)'] = "ready"
        /\ expires[Active(m)'] >= expires[Active(m)]
<1>0. (TypeOK => ActiveIsBest)'
  BY ActiveBest, PTL
<1>1. ASSUME IInv, NEW m \in Models, Drains(m), Of(m, "ready") = Candidates(m, "ready")
      PROVE  /\ state'[Active(m)'] = "ready"
             /\ expires[Active(m)'] >= expires[Active(m)]
  <2> DEFINE v == Soonest(Of(m, "ready"))
             a == Active(m)
             b == Active(m)'
  <2>1. v \in Jobs /\ \A k \in Of(m, "ready") : expires[v] <= expires[k]
    BY <1>1, DrainFacts DEF IInv, Of
  <2>2. /\ state' = [state EXCEPT ![v] = "draining"]
        /\ fresh' = [fresh EXCEPT ![v] = TRUE]
        /\ UNCHANGED <<role, model, expires, shown>>
    BY <1>1 DEF Drains, DrainsOf
  <2>3. Candidates(m, "ready") # {} /\ \A k \in Of(m, "ready") : fresh[k]
    BY <1>1, DrainFacts DEF IInv, Candidates
  <2>4. Candidates(m, "ready")' = Of(m, "ready") \ {v}
    BY <1>1, <2>1, <2>2, <2>3 DEF IInv, TypeOK, Candidates, Of
  <2>5. Candidates(m, "ready")' # {}
    BY <1>1, <2>4, DrainFacts DEF IInv
  <2>6. TypeOK'
    BY <1>1, DrainStep DEF IInv
  <2>7. /\ b \in Candidates(m, "ready")'
        /\ \A k \in Candidates(m, "ready")' : expires'[k] <= expires'[b]
    BY <1>0, <2>5, <2>6 DEF ActiveIsBest
  <2>8. a \in Of(m, "ready")
    BY <1>1, <2>3, ActiveFacts DEF IInv
  <2>9. b \in Of(m, "ready") /\ expires[v] <= expires[b] /\ state'[b] = "ready"
    BY <2>1, <2>4, <2>7 DEF Candidates, Of
  <2>10. expires[a] \in Nat /\ expires[b] \in Nat /\ expires[v] \in Nat
    BY <1>1, <2>1, <2>8, <2>9, RoutingAssumption DEF IInv, TypeOK, Of
  <2>11. CASE a = v
    BY <2>9, <2>10, <2>11
  <2>12. CASE a # v
    BY <2>2, <2>4, <2>7, <2>8, <2>9, <2>10, <2>12
  <2>13. QED
    BY <2>9, <2>11, <2>12
<1>2. IInv /\ [Next]_vars => [Spares]_vars
  <2> SUFFICES ASSUME IInv PROVE Spares
    OBVIOUS
  <2>1. QED
    BY <1>1
<1>3. QED
  BY <1>2, Inductive, PTL DEF Spec, DrainSparesRoute

\* No model is itself called like an alias, which render does not check.
NamesApart == \A m \in Models : {m, Served[m]} \cap {"sonnet", "opus", "haiku"} = {}

(* Claude Code's aliases lead to the models of the configured roles, for   *)
(* every list of models and whatever backends are up.                      *)
THEOREM AliasesFollowRoles ==
    ASSUME NamesApart
    PROVE  Spec => []AliasFollowsRole
<1>1. AliasFollowsRole
  <2>1. ASSUME \E m \in Models : role[m] = "primary"
        PROVE  role[Primary] = "primary"
    <3> DEFINE ms == {m \in Models : role[m] = "primary"}
    <3>1. Primary \in ms
      BY <2>1, FirstOfFacts DEF Primary
    <3>2. QED
      BY <3>1
  <2>2. ASSUME \E m \in Models : role[m] = "small"
        PROVE  role[Small] = "small"
    <3> DEFINE ms == {m \in Models : role[m] = "small"}
    <3>1. Small \in ms
      BY <2>2, FirstOfFacts DEF Small
    <3>2. QED
      BY <3>1
  <2>3. ASSUME NEW r \in Rows
        PROVE  /\ r.name \in {"sonnet", "opus"} => r.model = Primary
               /\ r.name = "haiku" => r.model = Small
    <3>1. CASE \E m \in Models : r = Row(IF shown[m] = Cold THEN m ELSE Served[m], m)
      <4>1. PICK m \in Models : r.name = IF shown[m] = Cold THEN m ELSE Served[m]
        BY <3>1 DEF Row
      <4>2. r.name \in {m, Served[m]}
        BY <4>1
      <4>3. r.name \notin {"sonnet", "opus", "haiku"}
        BY <4>2 DEF NamesApart
      <4>4. QED
        BY <4>3
    <3>2. CASE r \in {Row("sonnet", Primary), Row("opus", Primary), Row("haiku", Small)}
      BY <3>2 DEF Row
    <3>3. QED
      BY <3>1, <3>2 DEF Rows
  <2>4. QED
    BY <2>1, <2>2, <2>3 DEF AliasFollowsRole
<1>2. QED
  BY <1>1, PTL DEF Spec
=============================================================================
