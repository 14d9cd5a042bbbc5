----------------------------- MODULE ScalerProofs -----------------------------
(***************************************************************************)
(* Machine-checked proofs about Scaler and the balancers it has beside it. *)
(***************************************************************************)
EXTENDS Scaler, BalancerProofs, FiniteSetTheorems, TLAPS

\* Sets of nodes are finite.
LEMMA NodesFinite ==
  ASSUME NEW S, S \subseteq Node
  PROVE  IsFiniteSet(S) /\ Cardinality(S) \in Nat
BY ScalerAssumption, FS_Subset, FS_CardinalityType

\* The number of healthy nodes is one.
LEMMA CurrentReplicasType ==
  ASSUME TypeOK
  PROVE  CurrentReplicas \in Nat
BY NodesFinite DEF TypeOK, CurrentReplicas

\* What is found missing is a number of replicas.
LEMMA ShortageType ==
  ASSUME TypeOK, NEW p \in Nat, Shortage(p) > 0
  PROVE  Shortage(p) \in Nat
<1>1. CurrentReplicas \in Nat /\ MaxReplicas \in Nat /\ TasksPerWorker \in Nat \ {0}
  BY CurrentReplicasType, ScalerAssumption
<1>2. (p \div TasksPerWorker) + 1 \in Int
  BY <1>1
<1>3. Needed(p) \in Int
  BY <1>1, <1>2 DEF Needed, Lesser
<1>4. QED
  BY <1>3 DEF Shortage

\* The initial state satisfies the invariant.
LEMMA InitInv == Init => ScalerInv
<1> SUFFICES ASSUME Init PROVE ScalerInv
  OBVIOUS
<1> USE ScalerAssumption DEF Init
<1>1. TypeOK
  <2>1. replicas \in Nat /\ pending \in 0..MaxPending /\ healthy \subseteq Node
    OBVIOUS
  <2>2. /\ active \in [Node -> Nat] /\ number \in [Caller -> Nat] /\ seen \in [Caller -> Nat]
        /\ pc \in [Caller -> {"idle", "waiting", "get", "update"}]
    OBVIOUS
  <2>3. QED
    BY <2>1, <2>2 DEF TypeOK
<1>2. Inside = {}
  BY DEF Inside
<1>3. OneInside /\ OneScaleUpPerCooldown
  BY <1>2 DEF OneInside, OneScaleUpPerCooldown
<1>4. CurrentReplicas = 0
  BY FS_EmptySet DEF CurrentReplicas
<1>5. AllInRange
  BY <1>2, <1>4 DEF AllInRange, Caller, Ranged
<1>6. CopiesAreFresh
  BY DEF CopiesAreFresh
<1>7. QED
  BY <1>1, <1>3, <1>5, <1>6 DEF ScalerInv

\* What a caller writes is a number of replicas.
LEMMA NewReplicasType ==
  ASSUME TypeOK, NEW c \in Caller
  PROVE  NewReplicas(c) \in Nat
BY ScalerAssumption DEF TypeOK, NewReplicas, Lesser

\* Each step keeps the types.
LEMMA NextTyping ==
  ASSUME TypeOK, [Next]_vars
  PROVE  TypeOK'
<1> USE ScalerAssumption DEF TypeOK
<1>1. CASE UNCHANGED vars
  BY <1>1 DEF vars, clusterVars, callVars
<1>2. ASSUME NEW g \in Goroutine, GoroutineStep(g)
      PROVE  TypeOK'
  <2> g \in Caller
    BY DEF Caller
  <2>1. CASE ReadPending(g)
    BY <2>1 DEF ReadPending, clusterVars
  <2>2. CASE EnsureCapacity(g)
    <3>1. Shortage(number[g]) \in Nat
      BY <2>2, ShortageType DEF EnsureCapacity
    <3> HIDE DEF Shortage
    <3>2. QED
      BY <2>2, <3>1 DEF EnsureCapacity, clusterVars
  <2>3. CASE EnoughCapacity(g)
    BY <2>3 DEF EnoughCapacity, Return, clusterVars
  <2>4. QED
    BY <1>2, <2>1, <2>2, <2>3 DEF GoroutineStep
<1>3. CASE ScaleDown
  <2>1. Greater(CurrentReplicas - 1, MinReplicas) \in Nat
    BY CurrentReplicasType DEF Greater
  <2>2. Ticker \in Caller
    BY DEF Caller
  <2>3. QED
    BY <1>3, <2>1, <2>2 DEF ScaleDown, clusterVars
<1>4. ASSUME NEW c \in Caller, CallStep(c)
      PROVE  TypeOK'
  <2>1. CASE GetDeployment(c)
    BY <2>1 DEF GetDeployment, clusterVars
  <2>2. CASE UpdateDeployment(c) \/ UpdateUnanswered(c)
    <3>1. Apply(c) /\ cooling' \in BOOLEAN
      BY <2>2 DEF UpdateDeployment, UpdateUnanswered
    <3>2. QED
      BY <3>1, NewReplicasType DEF Apply, Return, clusterVars
  <2>3. CASE CallFails(c)
    BY <2>3 DEF CallFails, Return, clusterVars
  <2>4. QED
    BY <1>4, <2>1, <2>2, <2>3 DEF CallStep
<1>5. CASE CooldownOver \/ ForeignWrite \/ Calm
  BY <1>5 DEF CooldownOver, ForeignWrite, Calm, clusterVars, callVars
<1>6. ASSUME NEW n \in Node, NodeStep(n)
      PROVE  TypeOK'
  <2>1. CASE NodeJoins(n)
    <3>1. surged' \in BOOLEAN
      BY <2>1 DEF NodeJoins
    <3>2. QED
      BY <2>1, <3>1 DEF NodeJoins, callVars
  <2>2. CASE NodeLeaves(n)
    BY <2>2 DEF NodeLeaves, callVars
  <2>3. CASE TaskStarts(n) \/ TaskEnds(n)
    BY <2>3 DEF TaskStarts, TaskEnds, callVars
  <2>4. QED
    BY <1>6, <2>1, <2>2, <2>3 DEF NodeStep
<1>7. CASE Backlog
  BY <1>7 DEF Backlog, callVars
<1>8. QED
  BY <1>1, <1>2, <1>3, <1>4, <1>5, <1>6, <1>7 DEF Next

-----------------------------------------------------------------------------

\* The mutex is kept, and with it the cooldown that a success starts.
LEMMA NextMutex ==
  ASSUME TypeOK, OneInside, OneScaleUpPerCooldown, [Next]_vars
  PROVE  OneInside' /\ OneScaleUpPerCooldown'
<1> USE ScalerAssumption DEF TypeOK
<1>1. ASSUME Inside' \subseteq Inside, cooling' => cooling
      PROVE  OneInside' /\ OneScaleUpPerCooldown'
  BY <1>1 DEF OneInside, OneScaleUpPerCooldown, Inside, Caller
<1>2. CASE UNCHANGED <<pc, cooling>>
  BY <1>1, <1>2 DEF Inside
<1>3. ASSUME NEW g \in Goroutine, GoroutineStep(g)
      PROVE  OneInside' /\ OneScaleUpPerCooldown'
  <2> g \in Caller
    BY DEF Caller
  <2>1. CASE ReadPending(g) \/ EnoughCapacity(g)
    BY <1>1, <2>1 DEF ReadPending, EnoughCapacity, Return, Inside
  <2>2. CASE EnsureCapacity(g)
    <3>1. Inside = {} /\ Inside' = {g} /\ ~cooling'
      BY <2>2 DEF EnsureCapacity, Unlocked, Inside
    <3>2. QED
      BY <3>1 DEF OneInside, OneScaleUpPerCooldown
  <2>3. QED
    BY <1>3, <2>1, <2>2 DEF GoroutineStep
<1>4. CASE ScaleDown
  <2>1. Inside = {} /\ Inside' = {Ticker}
    BY <1>4 DEF ScaleDown, Unlocked, Inside, Caller
  <2>2. \A g \in Goroutine : pc'[g] = pc[g]
    BY <1>4 DEF ScaleDown, Caller
  <2>3. QED
    BY <1>4, <2>1, <2>2 DEF OneInside, OneScaleUpPerCooldown, ScaleDown
<1>5. ASSUME NEW c \in Caller, CallStep(c)
      PROVE  OneInside' /\ OneScaleUpPerCooldown'
  <2>1. CASE GetDeployment(c) \/ CallFails(c) \/ UpdateUnanswered(c)
    BY <1>1, <2>1 DEF GetDeployment, CallFails, UpdateUnanswered, Apply, Return, Inside
  <2>2. CASE UpdateDeployment(c)
    <3>1. c \in Inside /\ Inside' = Inside \ {c}
      BY <2>2 DEF UpdateDeployment, Apply, Return, Inside
    <3>2. Inside' = {}
      BY <3>1 DEF OneInside
    <3>3. QED
      BY <3>2 DEF OneInside, OneScaleUpPerCooldown, Inside, Caller
  <2>3. QED
    BY <1>5, <2>1, <2>2 DEF CallStep
<1>6. CASE CooldownOver \/ ForeignWrite \/ Calm \/ Backlog \/ UNCHANGED vars
  BY <1>1, <1>6 DEF CooldownOver, ForeignWrite, Calm, Backlog, vars, callVars, Inside
<1>7. ASSUME NEW n \in Node, NodeStep(n)
      PROVE  OneInside' /\ OneScaleUpPerCooldown'
  BY <1>2, <1>7 DEF NodeStep, NodeJoins, NodeLeaves, TaskStarts, TaskEnds, callVars
<1>8. QED
  BY <1>3, <1>4, <1>5, <1>6, <1>7 DEF Next

-----------------------------------------------------------------------------

\* A copy is as new as the deployment until somebody writes, whose write outdates it.
LEMMA NextCopies ==
  ASSUME TypeOK, CopiesAreFresh, [Next]_vars
  PROVE  CopiesAreFresh'
<1> USE DEF TypeOK, CopiesAreFresh
<1>1. CASE UNCHANGED <<replicas, outdated, pc, seen>>
  BY <1>1
<1>2. ASSUME NEW g \in Goroutine, GoroutineStep(g)
      PROVE  CopiesAreFresh'
  <2> g \in Caller
    BY DEF Caller
  <2>1. CASE ReadPending(g) \/ EnsureCapacity(g)
    BY <2>1 DEF ReadPending, EnsureCapacity
  <2>2. CASE EnoughCapacity(g)
    BY <2>2 DEF EnoughCapacity, Return
  <2>3. QED
    BY <1>2, <2>1, <2>2 DEF GoroutineStep
<1>3. CASE ScaleDown
  BY <1>3 DEF ScaleDown, Caller
<1>4. ASSUME NEW c \in Caller, CallStep(c)
      PROVE  CopiesAreFresh'
  <2>1. CASE GetDeployment(c)
    BY <2>1 DEF GetDeployment
  <2>2. CASE Apply(c)
    BY <2>2 DEF Apply, Return
  <2>3. CASE CallFails(c)
    BY <2>3 DEF CallFails, Return
  <2>4. QED
    BY <1>4, <2>1, <2>2, <2>3 DEF CallStep, UpdateDeployment, UpdateUnanswered
<1>5. CASE ForeignWrite
  BY <1>5 DEF ForeignWrite, callVars
<1>6. CASE CooldownOver \/ Calm \/ Backlog \/ UNCHANGED vars
  BY <1>1, <1>6 DEF CooldownOver, Calm, Backlog, vars, callVars
<1>7. ASSUME NEW n \in Node, NodeStep(n)
      PROVE  CopiesAreFresh'
  BY <1>1, <1>7 DEF NodeStep, NodeJoins, NodeLeaves, TaskStarts, TaskEnds, callVars
<1>8. QED
  BY <1>2, <1>3, <1>4, <1>5, <1>6, <1>7 DEF Next

-----------------------------------------------------------------------------

\* Every write stays within the limits as long as all other writes do and no two nodes
\* are surplus.
LEMMA NextRange ==
  ASSUME TypeOK, AllInRange, [Next]_vars
  PROVE  AllInRange'
<1> SUFFICES ASSUME Foreign \subseteq MinReplicas..MaxReplicas
             PROVE  AllInRange'
  BY DEF AllInRange
<1> USE ScalerAssumption DEF TypeOK
<1> Ticker \in Caller
  BY DEF Caller
<1>1. /\ Ranged(replicas)
      /\ CurrentReplicas > MaxReplicas + 1 => surged
      /\ CurrentReplicas \in Nat
      /\ \A c \in Caller : pc[c] = "update" => Ranged(seen[c])
      /\ Ticker \in Inside => Ranged(number[Ticker])
  BY CurrentReplicasType DEF AllInRange
<1>2. ASSUME UNCHANGED healthy
      PROVE  CurrentReplicas' = CurrentReplicas
  BY <1>2 DEF CurrentReplicas
<1>3. surged => surged'
  BY DEF Next, GoroutineStep, ReadPending, EnsureCapacity, EnoughCapacity, ScaleDown, CallStep,
         GetDeployment, UpdateDeployment, UpdateUnanswered, Apply, CallFails, Return, CooldownOver,
         ForeignWrite, NodeStep, NodeJoins, NodeLeaves, TaskStarts, TaskEnds, Backlog, Calm,
         vars, clusterVars
<1>4. ASSUME NEW count \in Nat, Ranged(count)
      PROVE  Ranged(count)'
  BY <1>3, <1>4 DEF Ranged
<1>5. ASSUME UNCHANGED <<pc, number, seen, healthy, replicas>>
      PROVE  AllInRange'
  BY <1>1, <1>2, <1>3, <1>5 DEF AllInRange, Inside, Ranged
<1>6. ASSUME NEW g \in Goroutine, GoroutineStep(g)
      PROVE  AllInRange'
  <2>1. g \in Caller /\ g # Ticker
    BY DEF Caller
  <2>2. UNCHANGED <<replicas, healthy, surged>> /\ pc'[g] # "update"
    BY <1>6, <2>1 DEF GoroutineStep, ReadPending, EnsureCapacity, EnoughCapacity, Return, clusterVars
  <2>3. \A c \in Caller \ {g} : pc'[c] = pc[c] /\ number'[c] = number[c] /\ seen'[c] = seen[c]
    BY <1>6, <2>1 DEF GoroutineStep, ReadPending, EnsureCapacity, EnoughCapacity, Return
  <2>4. QED
    BY <1>1, <1>2, <2>1, <2>2, <2>3 DEF AllInRange, Inside, Ranged
<1>7. CASE ScaleDown
  <2>1. UNCHANGED <<replicas, healthy, surged, seen>> /\ pc'[Ticker] = "get"
    BY <1>7 DEF ScaleDown, clusterVars
  <2>2. \A c \in Caller \ {Ticker} : pc'[c] = pc[c]
    BY <1>7 DEF ScaleDown
  <2>3. number'[Ticker] = Greater(CurrentReplicas - 1, MinReplicas)
    BY <1>7 DEF ScaleDown
  <2>4. Ranged(number'[Ticker])
    BY <1>1, <2>3 DEF Greater, Ranged
  <2>5. QED
    BY <1>1, <1>2, <2>1, <2>2, <2>4 DEF AllInRange, Ranged
<1>8. ASSUME NEW c \in Caller, CallStep(c)
      PROVE  AllInRange'
  <2>1. CASE GetDeployment(c)
    <3>1. UNCHANGED <<replicas, healthy, surged, number>> /\ pc[c] = "get"
      BY <2>1 DEF GetDeployment, clusterVars
    <3>2. /\ seen' = [seen EXCEPT ![c] = replicas]
          /\ \A d \in Caller \ {c} : pc'[d] = pc[d]
      BY <2>1 DEF GetDeployment
    <3>3. QED
      BY <1>1, <1>2, <3>1, <3>2 DEF AllInRange, Inside, Ranged
  <2>2. CASE UpdateDeployment(c) \/ UpdateUnanswered(c) \/ CallFails(c)
    <3>1. /\ UNCHANGED <<healthy, surged>> /\ pc'[c] = "idle"
          /\ \A d \in Caller \ {c} : pc'[d] = pc[d] /\ number'[d] = number[d] /\ seen'[d] = seen[d]
      BY <2>2 DEF UpdateDeployment, UpdateUnanswered, Apply, CallFails, Return, clusterVars
    <3>2. Ranged(replicas')
      <4>1. CASE UpdateDeployment(c) \/ UpdateUnanswered(c)
        <5>1. pc[c] = "update" /\ replicas' = NewReplicas(c)
          BY <4>1 DEF UpdateDeployment, UpdateUnanswered, Apply
        <5>2. Ranged(NewReplicas(c))
          BY <1>1, <5>1 DEF NewReplicas, Lesser, Inside, Ranged
        <5>3. QED
          BY <5>1, <5>2
      <4>2. CASE CallFails(c)
        BY <1>1, <4>2 DEF CallFails
      <4>3. QED
        BY <2>2, <4>1, <4>2
    <3>3. QED
      BY <1>1, <1>2, <3>1, <3>2 DEF AllInRange, Inside, Ranged
  <2>3. QED
    BY <1>8, <2>1, <2>2 DEF CallStep
<1>9. CASE ForeignWrite
  <2>1. UNCHANGED <<pc, number, seen, healthy, surged>> /\ replicas' \in Foreign \cup {replicas}
    BY <1>9 DEF ForeignWrite, clusterVars, callVars
  <2>2. Ranged(replicas')
    BY <1>1, <2>1 DEF Ranged
  <2>3. QED
    BY <1>1, <1>2, <2>1, <2>2 DEF AllInRange, Inside, Ranged
<1>10. CASE CooldownOver \/ Calm \/ Backlog \/ UNCHANGED vars
  BY <1>5, <1>10 DEF CooldownOver, Calm, Backlog, vars, clusterVars, callVars
<1>11. ASSUME NEW n \in Node, NodeStep(n)
       PROVE  AllInRange'
  <2>1. UNCHANGED <<pc, number, seen, replicas>>
    BY <1>11 DEF NodeStep, NodeJoins, NodeLeaves, TaskStarts, TaskEnds, callVars
  <2>2. CurrentReplicas' > MaxReplicas + 1 => surged'
    <3>1. CASE NodeJoins(n)
      BY <3>1 DEF NodeJoins
    <3>2. CASE NodeLeaves(n)
      <4>1. healthy' \subseteq healthy /\ surged' = surged
        BY <3>2 DEF NodeLeaves
      <4>2. Cardinality(healthy') <= Cardinality(healthy) /\ Cardinality(healthy') \in Nat
        BY <4>1, NodesFinite, FS_Subset
      <4>3. QED
        BY <1>1, <4>1, <4>2 DEF CurrentReplicas
    <3>3. CASE TaskStarts(n) \/ TaskEnds(n)
      BY <1>1, <1>2, <3>3 DEF TaskStarts, TaskEnds
    <3>4. QED
      BY <1>11, <3>1, <3>2, <3>3 DEF NodeStep
  <2>3. QED
    BY <1>1, <1>3, <2>1, <2>2 DEF AllInRange, Inside, Ranged
<1>12. QED
  BY <1>6, <1>7, <1>8, <1>9, <1>10, <1>11 DEF Next

-----------------------------------------------------------------------------

\* The inductive invariant holds in every reachable state of scaler and surroundings.
THEOREM ScalerInvariant == Spec => []ScalerInv
<1>1. ScalerInv /\ [Next]_vars => ScalerInv'
  BY NextTyping, NextMutex, NextCopies, NextRange DEF ScalerInv
<1>2. QED
  BY InitInv, <1>1, PTL DEF Spec

\* The variables of the scaler and its surroundings keep their types.
THEOREM ScalerTypeOK == Spec => []TypeOK
<1>1. ScalerInv => TypeOK
  BY DEF ScalerInv
<1>2. QED
  BY ScalerInvariant, <1>1, PTL

\* If others keep the replica count within the scaler's limits, the scaler never takes it
\* below the minimum, and takes it above the maximum only after more than MaxReplicas + 1
\* nodes have been healthy at once: the one write that the maximum does not cap is that of
\* ScaleDown, which is the number of healthy nodes less one.
THEOREM ReplicasStayInRange == Spec => []InRange
<1>1. ScalerInv => InRange
  BY DEF ScalerInv, AllInRange, InRange, Ranged
<1>2. QED
  BY ScalerInvariant, <1>1, PTL

\* No goroutine is carrying out a scale-up during the cooldown of another one's.
THEOREM OneScaleUp == Spec => []OneScaleUpPerCooldown
<1>1. ScalerInv => OneScaleUpPerCooldown
  BY DEF ScalerInv
<1>2. QED
  BY ScalerInvariant, <1>1, PTL

\* The end of a goroutine's write is the end of scaleUp: no update of another writer's
\* is undone by it, and no cooldown follows a write that did not happen.
THEOREM ScaleUpsAreAdded == Spec => ScaleUpsAdd
<1> DEFINE Adds(g) ==
      pc[g] = "update" /\ pc'[g] = "idle" =>
        \/ replicas' = Lesser(replicas + number[g], MaxReplicas)
        \/ replicas' = replicas /\ ~cooling'
<1>1. ASSUME ScalerInv, [Next]_vars, NEW g \in Goroutine
      PROVE  Adds(g)
  <2> SUFFICES ASSUME pc[g] = "update", pc'[g] = "idle"
               PROVE  \/ replicas' = Lesser(replicas + number[g], MaxReplicas)
                      \/ replicas' = replicas /\ ~cooling'
    OBVIOUS
  <2> TypeOK /\ CopiesAreFresh /\ OneScaleUpPerCooldown
    BY <1>1 DEF ScalerInv
  <2> USE ScalerAssumption DEF TypeOK
  <2>1. g \in Caller /\ g # Ticker /\ ~cooling
    BY DEF Caller, OneScaleUpPerCooldown
  <2>2. CASE Apply(g)
    <3>1. seen[g] = replicas
      BY <2>1, <2>2 DEF Apply, CopiesAreFresh
    <3>2. QED
      BY <2>1, <2>2, <3>1 DEF Apply, NewReplicas
  <2>3. CASE CallFails(g)
    BY <2>1, <2>3 DEF CallFails
  <2>4. ASSUME pc'[g] = pc[g] PROVE FALSE
    BY <2>4
  <2>5. ASSUME NEW h \in Goroutine, GoroutineStep(h) PROVE FALSE
    BY <2>1, <2>4, <2>5 DEF GoroutineStep, ReadPending, EnsureCapacity, EnoughCapacity, Return, Caller
  <2>6. CASE ScaleDown
    BY <2>1, <2>4, <2>6 DEF ScaleDown
  <2>7. ASSUME NEW c \in Caller, CallStep(c), c # g PROVE FALSE
    BY <2>1, <2>4, <2>7 DEF CallStep, GetDeployment, UpdateDeployment, UpdateUnanswered, Apply,
                            CallFails, Return
  <2>8. CASE GetDeployment(g)
    BY <2>1, <2>8 DEF GetDeployment
  <2>9. CASE CooldownOver \/ ForeignWrite \/ Calm \/ Backlog \/ UNCHANGED vars
    BY <2>4, <2>9 DEF CooldownOver, ForeignWrite, Calm, Backlog, vars, callVars
  <2>10. ASSUME NEW n \in Node, NodeStep(n) PROVE FALSE
    BY <2>4, <2>10 DEF NodeStep, NodeJoins, NodeLeaves, TaskStarts, TaskEnds, callVars
  <2>11. QED
    BY <1>1, <2>2, <2>3, <2>5, <2>6, <2>7, <2>8, <2>9, <2>10
       DEF Next, CallStep, UpdateDeployment, UpdateUnanswered
<1>2. ScalerInv /\ [Next]_vars => [\A g \in Goroutine : Adds(g)]_vars
  BY <1>1
<1>3. QED
  BY ScalerInvariant, <1>2, PTL DEF Spec, ScaleUpsAdd

-----------------------------------------------------------------------------
(* The balancers over the nodes of a running master.                       *)

\* Each list of the healthy nodes is one a balancer can be given.
LEMMA HealthyNodesAreAList ==
  ASSUME TypeOK, healthy # {}, NEW s \in Lists
  PROVE  IsList(s, Listed(healthy))
<1>1. CurrentReplicas \in Nat /\ CurrentReplicas # 0
  BY CurrentReplicasType, NodesFinite, FS_EmptySet DEF CurrentReplicas, TypeOK
<1>2. PICK f \in [1..CurrentReplicas -> healthy] :
        s = [i \in 1..CurrentReplicas |-> [id |-> f[i], activeTasks |-> active[f[i]]]]
  BY DEF Lists
<1>3. \A i \in 1..CurrentReplicas : s[i] \in Listed(healthy)
  BY <1>2 DEF TypeOK, Listed
<1>4. s \in Seq(Listed(healthy)) /\ Len(s) = CurrentReplicas
  BY <1>1, <1>2, <1>3
<1>5. QED
  BY <1>1, <1>4 DEF IsList, Listed

\* In every order of the healthy nodes and for every counter the least loaded node has
\* no more than any other, and the weighted choice has room, also beside nodes that are
\* above their limit.
THEOREM BalancersAreRight == Spec => []BalancersAvoidFull
<1>1. ASSUME TypeOK, healthy # {}, NEW s \in Lists
      PROVE  /\ \A i \in DOMAIN s : LeastConnections(s).activeTasks <= s[i].activeTasks
             /\ TotalWeight(s) > 0 =>
                  \A counter \in 0..(TotalWeight(s) - 1) :
                    Hits(counter, s) # {} /\ AvailableCapacity(Weighted(counter, s)) > 0
  <2>1. IsList(s, Listed(healthy)) /\ NodeTasks \in Nat
    BY <1>1, HealthyNodesAreAList, ScalerAssumption
  <2>2. \A i \in DOMAIN s : LeastConnections(s).activeTasks <= s[i].activeTasks
    BY <2>1, LeastConnectionsSelects
  <2>3. ASSUME TotalWeight(s) > 0, NEW counter \in 0..(TotalWeight(s) - 1)
        PROVE  Hits(counter, s) # {} /\ AvailableCapacity(Weighted(counter, s)) > 0
    BY <2>1, <2>3, WeightedSelects
  <2>4. QED
    BY <2>2, <2>3
<1>2. TypeOK => BalancersAvoidFull
  BY <1>1 DEF BalancersAvoidFull
<1>3. QED
  BY ScalerTypeOK, <1>2, PTL
==============================================================================
