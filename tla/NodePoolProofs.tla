---------------------------- MODULE NodePoolProofs ----------------------------
(***************************************************************************)
(* Machine-checked proofs about NodePool.                                  *)
(***************************************************************************)
EXTENDS NodePool, FiniteSetTheorems, TLAPS

\* The registry's operations keep its variables in their types.
LEMMA RegistryTyping ==
  ASSUME RegistryTypeOK, NEW n \in Node
  PROVE  /\ Enter(n) => RegistryTypeOK'
         /\ Drop(n) => RegistryTypeOK'
         /\ \A active \in Nat : Refresh(n, active) => RegistryTypeOK'
         /\ IncrementActiveTasks(n) => RegistryTypeOK'
         /\ DecrementActiveTasks(n) => RegistryTypeOK'
         /\ Sweep => RegistryTypeOK'
         /\ FallSilent(n) => RegistryTypeOK'
<1> USE DEF RegistryTypeOK, NodeStatus, Silence
<1>1. Enter(n) \/ Drop(n) => RegistryTypeOK'
  BY DEF Enter, Drop
<1>2. ASSUME NEW active \in Nat, Refresh(n, active) PROVE RegistryTypeOK'
  BY <1>2 DEF Refresh
<1>3. IncrementActiveTasks(n) \/ DecrementActiveTasks(n) => RegistryTypeOK'
  BY DEF IncrementActiveTasks, DecrementActiveTasks
<1>4. Sweep => RegistryTypeOK'
  BY DEF Sweep
<1>5. FallSilent(n) => RegistryTypeOK'
  BY DEF FallSilent
<1>6. QED
  BY <1>1, <1>2, <1>3, <1>4, <1>5

\* A step of dispatchTask keeps the types, and knows its node when it needs one.
LEMMA CallTyping ==
  ASSUME TypeOK, CallsHaveNodes, NEW g \in Goroutine, CallNext(g)
  PROVE  TypeOK' /\ CallsHaveNodes'
<1> USE DEF TypeOK, CallsHaveNodes
<1>1. CASE Begin(g) \/ NoHealthyNodes(g) \/ DialFailed(g)
  BY <1>1 DEF Begin, NoHealthyNodes, DialFailed, Goto, Finish, registryVars, monitorVars,
     serverVars, RegistryTypeOK
<1>2. CASE \E n \in Node : Pick(g, n)
  BY <1>2 DEF Pick, registryVars, monitorVars, serverVars, RegistryTypeOK
<1>3. CASE Connect(g)
  BY <1>3 DEF Connect, Goto, GetClient, registryVars, monitorVars, serverVars, RegistryTypeOK
<1>4. CASE StartCall(g) \/ EndCall(g)
  <2>1. RegistryTypeOK'
    BY <1>4, RegistryTyping DEF StartCall, EndCall, Goto, Finish
  <2>2. QED
    BY <1>4, <2>1 DEF StartCall, EndCall, Goto, Finish, monitorVars, serverVars
<1>5. QED
  BY <1>1, <1>2, <1>3, <1>4 DEF CallNext

\* Each step keeps the types, and goroutines know their nodes.
LEMMA NextTyping ==
  ASSUME TypeOK, CallsHaveNodes, [Next]_vars
  PROVE  TypeOK' /\ CallsHaveNodes'
<1> USE NodePoolAssumption
<1>1. CASE UNCHANGED vars
  BY <1>1 DEF vars, registryVars, monitorVars, serverVars, callVars, TypeOK, RegistryTypeOK,
     CallsHaveNodes
<1>2. CASE \E n \in Node : WorkerNext(n)
  <2>1. PICK n \in Node : WorkerNext(n)
    BY <1>2
  <2>2. CASE Register(n) \/ Deregister(n) \/ \E active \in Report : Heartbeat(n, active)
    <3>1. RegistryTypeOK'
      BY <2>2, RegistryTyping DEF TypeOK, Register, Deregister, Heartbeat
    <3>2. QED
      BY <2>2, <3>1 DEF TypeOK, CallsHaveNodes, Register, Deregister, Heartbeat, monitorVars,
         serverVars, callVars
  <2>3. CASE DeregisterClient(n)
    BY <2>3 DEF TypeOK, RegistryTypeOK, CallsHaveNodes, DeregisterClient, RemoveClient,
       registryVars, monitorVars, serverVars, callVars
  <2>4. CASE TimePasses(n)
    <3>1. RegistryTypeOK'
      BY <2>4, RegistryTyping DEF TypeOK, TimePasses
    <3>2. QED
      BY <2>4, <3>1 DEF TypeOK, CallsHaveNodes, TimePasses, monitorVars, serverVars, callVars
  <2>5. QED
    BY <2>1, <2>2, <2>3, <2>4 DEF WorkerNext
<1>3. CASE MonitorNext
  <2>1. CASE CheckHealth
    <3>1. RegistryTypeOK'
      BY <2>1 DEF TypeOK, CheckHealth, Sweep, RegistryTypeOK, NodeStatus
    <3>2. QED
      BY <2>1, <3>1 DEF TypeOK, RegistryTypeOK, CallsHaveNodes, CheckHealth, Overdue, serverVars,
         callVars
  <2>2. CASE \E n \in Node : RemoveExpired(n)
    <3>1. RegistryTypeOK'
      BY <2>2, RegistryTyping DEF TypeOK, RemoveExpired
    <3>2. QED
      BY <2>2, <3>1 DEF TypeOK, CallsHaveNodes, RemoveExpired, serverVars, callVars
  <2>3. CASE NodeRemoved \/ MonitorStop
    BY <2>3 DEF TypeOK, RegistryTypeOK, CallsHaveNodes, NodeRemoved, MonitorStop, RemoveClient,
       registryVars, serverVars, callVars
  <2>4. QED
    BY <1>3, <2>1, <2>2, <2>3 DEF MonitorNext
<1>4. CASE \E g \in Goroutine : CallNext(g)
  BY <1>4, CallTyping
<1>5. CASE Shutdown \/ CloseConnections
  BY <1>5 DEF Shutdown, CloseConnections, TypeOK, RegistryTypeOK, CallsHaveNodes, registryVars,
     monitorVars, callVars
<1>6. QED
  BY <1>1, <1>2, <1>3, <1>4, <1>5 DEF Next

\* What the mutex of the registry protects: the nodes to remove stay overdue, a node
\* removed stays away until its callback has run, and a node heard of is healthy.
Guarded == ExpiredAreDead /\ NoDraining /\ HeardIsHealthy /\ ClosesOnlyGone

\* Steps that change no node's entry, and nothing of checkHealth.
LEMMA QuietGuarded ==
  ASSUME Guarded, UNCHANGED <<listed, status, silence, expired, unlinked>>
  PROVE  Guarded'
BY DEF Guarded, ExpiredAreDead, NoDraining, HeardIsHealthy, ClosesOnlyGone, Overdue, Healthy

\* Each step respects what the mutex protects.
LEMMA NextGuarded ==
  ASSUME TypeOK, Guarded, [Next]_vars
  PROVE  Guarded'
<1>1. CASE UNCHANGED vars
  BY <1>1, QuietGuarded DEF vars, registryVars, monitorVars
<1>2. CASE \E n \in Node : WorkerNext(n)
  <2>1. PICK n \in Node : WorkerNext(n)
    BY <1>2
  <2>2. CASE Register(n) \/ Deregister(n) \/ \E active \in Report : Heartbeat(n, active)
    <3>1. expired' = {} /\ unlinked' = NoNode
      BY <2>2 DEF Register, Deregister, Heartbeat, Unlocked, monitorVars
    <3>2. NoDraining' /\ HeardIsHealthy'
      BY <2>2 DEF Register, Deregister, Heartbeat, Enter, Drop, Refresh, Guarded, NoDraining,
         HeardIsHealthy, Healthy, TypeOK, RegistryTypeOK, NodeStatus, Silence
    <3>3. QED
      BY <3>1, <3>2 DEF Guarded, ExpiredAreDead, ClosesOnlyGone, Overdue
  <2>3. CASE DeregisterClient(n)
    BY <2>3, QuietGuarded DEF DeregisterClient, registryVars, monitorVars
  <2>4. CASE TimePasses(n)
    BY <2>4 DEF TimePasses, FallSilent, monitorVars, Guarded, ExpiredAreDead, NoDraining,
       HeardIsHealthy, ClosesOnlyGone, Overdue, Healthy, TypeOK, RegistryTypeOK, Silence
  <2>5. QED
    BY <2>1, <2>2, <2>3, <2>4 DEF WorkerNext
<1>3. CASE MonitorNext
  <2>1. CASE CheckHealth
    BY <2>1 DEF CheckHealth, Sweep, Unlocked, Guarded, ExpiredAreDead, NoDraining,
       HeardIsHealthy, ClosesOnlyGone, Overdue, Healthy, TypeOK, RegistryTypeOK
  <2>2. CASE \E n \in Node : RemoveExpired(n)
    BY <2>2 DEF RemoveExpired, Drop, Guarded, ExpiredAreDead, NoDraining,
       HeardIsHealthy, ClosesOnlyGone, Overdue, Healthy, TypeOK, RegistryTypeOK
  <2>3. CASE NodeRemoved
    BY <2>3 DEF NodeRemoved, registryVars, Guarded, ExpiredAreDead, NoDraining,
       HeardIsHealthy, ClosesOnlyGone, Overdue, Healthy
  <2>4. CASE MonitorStop
    BY <2>4, QuietGuarded DEF MonitorStop, registryVars
  <2>5. QED
    BY <1>3, <2>1, <2>2, <2>3, <2>4 DEF MonitorNext
<1>4. CASE \E g \in Goroutine : CallNext(g)
  BY <1>4, QuietGuarded DEF CallNext, Begin, Pick, NoHealthyNodes, Connect, DialFailed, StartCall,
     EndCall, IncrementActiveTasks, DecrementActiveTasks, registryVars, monitorVars
<1>5. CASE Shutdown \/ CloseConnections
  BY <1>5, QuietGuarded DEF Shutdown, CloseConnections, registryVars, monitorVars
<1>6. QED
  BY <1>1, <1>2, <1>3, <1>4, <1>5 DEF Next

-----------------------------------------------------------------------------
(* The load of a node.  Calls are counted as a set of goroutines, which a  *)
(* step changes by at most one.                                            *)

\* The calls counted on a node are finitely many.
LEMMA CountedFinite ==
  ASSUME NEW n
  PROVE  IsFiniteSet(Counted(n)) /\ Cardinality(Counted(n)) \in Nat
<1>1. Counted(n) \subseteq Goroutine
  BY DEF Counted
<1>2. QED
  BY <1>1, NodePoolAssumption, FS_Subset, FS_CardinalityType

\* A step that changes neither calls nor what is listed and reported keeps the bound.
LEMMA QuietLoad ==
  ASSUME LoadBound, UNCHANGED <<callVars, listed, load, reported>>
  PROVE  LoadBound'
<1>1. \A n : Counted(n)' = Counted(n)
  BY DEF Counted, callVars
<1>2. QED
  BY <1>1 DEF LoadBound

\* A registration, a heartbeat or a removal sets a node's load to what is reported.
LEMMA ResetLoad ==
  ASSUME TypeOK, LoadBound, NEW n \in Node, UNCHANGED callVars,
         listed' \subseteq listed \cup {n},
         n \in listed' => reported'[n] \in Nat /\ load'[n] = reported'[n],
         \A m \in Node \ {n} : load'[m] = load[m] /\ reported'[m] = reported[m]
  PROVE  LoadBound'
<1> SUFFICES ASSUME NEW m \in listed'
             PROVE  load'[m] <= reported'[m] + Cardinality(Counted(m)')
  BY DEF LoadBound
<1>1. Counted(m)' = Counted(m)
  BY DEF Counted, callVars
<1>2. Cardinality(Counted(m)) \in Nat
  BY CountedFinite
<1>3. CASE m = n
  BY <1>1, <1>2, <1>3
<1>4. CASE m # n
  BY <1>1, <1>4 DEF LoadBound, TypeOK, RegistryTypeOK
<1>5. QED
  BY <1>3, <1>4

\* A call that starts is counted, with one more goroutine to answer for it.
LEMMA StartLoad ==
  ASSUME TypeOK, CallsHaveNodes, LoadBound, NEW g \in Goroutine, StartCall(g)
  PROVE  LoadBound'
<1> DEFINE d == dest[g]
<1>1. /\ pc[g] = "linked" /\ d \in Node
      /\ pc' = [pc EXCEPT ![g] = "counted"]
      /\ UNCHANGED <<dest, listed, reported>>
      /\ load' = IF d \in listed THEN [load EXCEPT ![d] = @ + 1] ELSE load
  BY DEF StartCall, Goto, IncrementActiveTasks, CallsHaveNodes
<1> SUFFICES ASSUME NEW m \in listed
             PROVE  load'[m] <= reported[m] + Cardinality(Counted(m)')
  BY <1>1 DEF LoadBound
<1>2. load[m] \in Nat /\ reported[m] \in Nat /\ m \in Node
      /\ load[m] <= reported[m] + Cardinality(Counted(m))
  BY DEF LoadBound, TypeOK, RegistryTypeOK
<1>3. IsFiniteSet(Counted(m)) /\ Cardinality(Counted(m)) \in Nat
  BY CountedFinite
<1>4. CASE m = d
  <2>1. Counted(m)' = Counted(m) \cup {g} /\ g \notin Counted(m)
    BY <1>1, <1>4 DEF Counted, TypeOK
  <2>2. Cardinality(Counted(m)') = Cardinality(Counted(m)) + 1
    BY <1>3, <2>1, FS_AddElement
  <2>3. load'[m] = load[m] + 1
    BY <1>1, <1>2, <1>4 DEF TypeOK, RegistryTypeOK
  <2>4. QED
    BY <1>2, <1>3, <2>2, <2>3
<1>5. CASE m # d
  <2>1. Counted(m)' = Counted(m)
    BY <1>1, <1>5 DEF Counted, TypeOK
  <2>2. load'[m] = load[m]
    BY <1>1, <1>5 DEF TypeOK, RegistryTypeOK
  <2>3. QED
    BY <1>2, <2>1, <2>2
<1>6. QED
  BY <1>4, <1>5

\* A call that ends takes its count back, unless the node has meanwhile been reset.
LEMMA EndLoad ==
  ASSUME TypeOK, CallsHaveNodes, LoadBound, NEW g \in Goroutine, EndCall(g)
  PROVE  LoadBound'
<1> DEFINE d == dest[g]
<1>1. /\ pc[g] = "counted" /\ d \in Node
      /\ pc' = [pc EXCEPT ![g] = "idle"]
      /\ dest' = [dest EXCEPT ![g] = NoNode]
      /\ UNCHANGED <<listed, reported>>
      /\ load' = IF d \in listed /\ load[d] > 0 THEN [load EXCEPT ![d] = @ - 1] ELSE load
  BY DEF EndCall, Finish, DecrementActiveTasks, CallsHaveNodes
<1> SUFFICES ASSUME NEW m \in listed
             PROVE  load'[m] <= reported[m] + Cardinality(Counted(m)')
  BY <1>1 DEF LoadBound
<1>2. load[m] \in Nat /\ reported[m] \in Nat /\ m \in Node
      /\ load[m] <= reported[m] + Cardinality(Counted(m))
  BY DEF LoadBound, TypeOK, RegistryTypeOK
<1>3. IsFiniteSet(Counted(m)) /\ Cardinality(Counted(m)) \in Nat
  BY CountedFinite
<1>4. CASE m = d
  <2>1. Counted(m)' = Counted(m) \ {g} /\ g \in Counted(m)
    BY <1>1, <1>4 DEF Counted, TypeOK
  <2>2. Cardinality(Counted(m)') = Cardinality(Counted(m)) - 1
    BY <1>3, <2>1, FS_RemoveElement
  <2>3. IsFiniteSet(Counted(m)') /\ Cardinality(Counted(m)') \in Nat
    BY <1>3, <2>1, FS_Subset, FS_CardinalityType
  <2>4. load'[m] = IF load[m] > 0 THEN load[m] - 1 ELSE 0
    BY <1>1, <1>2, <1>4 DEF TypeOK, RegistryTypeOK
  <2>5. QED
    BY <1>2, <1>3, <2>2, <2>3, <2>4
<1>5. CASE m # d
  <2>1. Counted(m)' = Counted(m)
    BY <1>1, <1>5 DEF Counted, TypeOK
  <2>2. load'[m] = load[m]
    BY <1>1, <1>5 DEF TypeOK, RegistryTypeOK
  <2>3. QED
    BY <1>2, <2>1, <2>2
<1>6. QED
  BY <1>4, <1>5

\* A goroutine that comes to or leaves a node without a call counts nowhere.
LEMMA UncountedLoad ==
  ASSUME TypeOK, LoadBound, NEW g \in Goroutine, UNCHANGED <<listed, load, reported>>,
         pc[g] # "counted", pc'[g] # "counted",
         \A h \in Goroutine \ {g} : pc'[h] = pc[h] /\ dest'[h] = dest[h]
  PROVE  LoadBound'
<1>1. \A n : Counted(n)' = Counted(n)
  BY DEF Counted
<1>2. QED
  BY <1>1 DEF LoadBound

\* Each step keeps the bound on the load.
LEMMA NextLoad ==
  ASSUME TypeOK, CallsHaveNodes, LoadBound, [Next]_vars
  PROVE  LoadBound'
<1>1. CASE UNCHANGED vars
  BY <1>1, QuietLoad DEF vars, registryVars
<1>2. CASE \E n \in Node : WorkerNext(n)
  <2>1. PICK n \in Node : WorkerNext(n)
    BY <1>2
  <2>2. CASE Register(n) \/ Deregister(n) \/ \E active \in Report : Heartbeat(n, active)
    <3>1. /\ UNCHANGED callVars
          /\ listed' \subseteq listed \cup {n}
          /\ n \in listed' => reported'[n] \in Nat /\ load'[n] = reported'[n]
          /\ \A m \in Node \ {n} : load'[m] = load[m] /\ reported'[m] = reported[m]
      BY <2>2, NodePoolAssumption DEF Register, Deregister, Heartbeat, Enter, Drop, Refresh,
         TypeOK, RegistryTypeOK
    <3>2. QED
      BY <3>1, ResetLoad
  <2>3. CASE DeregisterClient(n) \/ TimePasses(n)
    BY <2>3, QuietLoad DEF DeregisterClient, TimePasses, FallSilent, registryVars
  <2>4. QED
    BY <2>1, <2>2, <2>3 DEF WorkerNext
<1>3. CASE MonitorNext
  <2>1. CASE CheckHealth \/ NodeRemoved \/ MonitorStop
    BY <2>1, QuietLoad DEF CheckHealth, Sweep, NodeRemoved, MonitorStop, registryVars
  <2>2. CASE \E n \in Node : RemoveExpired(n)
    <3>1. PICK n \in Node : RemoveExpired(n)
      BY <2>2
    <3>2. /\ UNCHANGED <<callVars, reported>>
          /\ listed' \subseteq listed /\ n \notin listed'
          /\ \A m \in Node \ {n} : load'[m] = load[m]
      BY <3>1 DEF RemoveExpired, Drop, TypeOK, RegistryTypeOK
    <3>3. QED
      BY <3>2, ResetLoad
  <2>3. QED
    BY <1>3, <2>1, <2>2 DEF MonitorNext
<1>4. CASE \E g \in Goroutine : CallNext(g)
  <2>1. PICK g \in Goroutine : CallNext(g)
    BY <1>4
  <2>2. CASE Begin(g) \/ (\E n \in Node : Pick(g, n)) \/ NoHealthyNodes(g) \/ Connect(g)
             \/ DialFailed(g)
    <3>1. /\ UNCHANGED <<listed, load, reported>>
          /\ pc[g] # "counted" /\ pc'[g] # "counted"
          /\ \A h \in Goroutine \ {g} : pc'[h] = pc[h] /\ dest'[h] = dest[h]
      BY <2>2 DEF Begin, Pick, NoHealthyNodes, Connect, DialFailed, Goto, Finish, registryVars,
         TypeOK
    <3>2. QED
      BY <3>1, UncountedLoad
  <2>3. QED
    BY <2>1, <2>2, StartLoad, EndLoad DEF CallNext
<1>5. CASE Shutdown \/ CloseConnections
  BY <1>5, QuietLoad DEF Shutdown, CloseConnections, registryVars
<1>6. QED
  BY <1>1, <1>2, <1>3, <1>4, <1>5 DEF Next

-----------------------------------------------------------------------------

\* The pool starts empty.
LEMMA InitPoolInv == Init => PoolInv
<1> SUFFICES ASSUME Init PROVE PoolInv
  OBVIOUS
<1>1. TypeOK
  BY DEF Init, RegistryInit, TypeOK, RegistryTypeOK, NodeStatus, Silence
<1>2. CallsHaveNodes /\ ExpiredAreDead /\ NoDraining /\ HeardIsHealthy /\ ClosesOnlyGone
      /\ LoadBound
  BY DEF Init, RegistryInit, CallsHaveNodes, ExpiredAreDead, NoDraining, HeardIsHealthy,
     ClosesOnlyGone, LoadBound
<1>3. QED
  BY <1>1, <1>2 DEF PoolInv

\* Every step of handlers, health check and goroutines preserves the invariant.
LEMMA NextPoolInv == PoolInv /\ [Next]_vars => PoolInv'
BY NextTyping, NextGuarded, NextLoad DEF PoolInv, Guarded

\* PoolInv holds in every reachable state.
THEOREM PoolInductive == Spec => []PoolInv
BY InitPoolInv, NextPoolInv, PTL DEF Spec

\* Every variable of the registry and of the pool keeps its type; no count goes below zero.
THEOREM PoolTypeCorrect == Spec => []TypeOK
<1>1. PoolInv => TypeOK
  BY DEF PoolInv
<1>2. QED
  BY <1>1, PoolInductive, PTL

\* A node's load is at most its last report and the calls in flight to it, for any number
\* of nodes and goroutines and any reports.
THEOREM LoadIsBounded == Spec => []LoadBound
<1>1. PoolInv => LoadBound
  BY DEF PoolInv
<1>2. QED
  BY <1>1, PoolInductive, PTL

\* A node that keeps sending heartbeats in time is offered to the dispatcher.
THEOREM HeardNodesAreHealthy == Spec => []HeardIsHealthy
<1>1. PoolInv => HeardIsHealthy
  BY DEF PoolInv
<1>2. QED
  BY <1>1, PoolInductive, PTL

\* The health check's callback never closes the connection of a registered node.
THEOREM CallbackIsSafe == Spec => []ClosesOnlyGone
<1>1. PoolInv => ClosesOnlyGone
  BY DEF PoolInv
<1>2. QED
  BY <1>1, PoolInductive, PTL

\* Only Deregister and a removal of a dead node take a node off the list.
THEOREM LivingNodesStay == Spec => KeepsTheLiving
<1>1. ASSUME PoolInv, [Next]_vars
      PROVE  [\A n \in listed \ listed' : silence[n] = "dead" \/ n \in leaving']_vars
  <2>1. CASE UNCHANGED vars
    BY <2>1
  <2>2. CASE \E n \in Node : Deregister(n)
    BY <2>2 DEF Deregister, Drop
  <2>3. CASE \E n \in Node : RemoveExpired(n)
    <3>1. PICK n \in Node : RemoveExpired(n)
      BY <2>3
    <3>2. silence[n] = "dead"
      BY <1>1, <3>1 DEF RemoveExpired, PoolInv, ExpiredAreDead, Overdue
    <3>3. listed \ listed' \subseteq {n}
      BY <3>1 DEF RemoveExpired, Drop
    <3>4. QED
      BY <3>2, <3>3
  <2>4. CASE \E n \in Node : \/ Register(n) \/ DeregisterClient(n) \/ TimePasses(n)
                            \/ \E active \in Report : Heartbeat(n, active)
    <3>1. listed \subseteq listed'
      BY <2>4 DEF Register, Enter, DeregisterClient, TimePasses, FallSilent, Heartbeat, Refresh,
         registryVars
    <3>2. QED
      BY <3>1
  <2>5. CASE CheckHealth \/ NodeRemoved \/ MonitorStop \/ Shutdown \/ CloseConnections
             \/ \E g \in Goroutine : CallNext(g)
    <3>1. listed' = listed
      BY <2>5 DEF CheckHealth, Sweep, NodeRemoved, MonitorStop, Shutdown, CloseConnections,
         CallNext, Begin, Pick, NoHealthyNodes, Connect, DialFailed, StartCall, EndCall,
         IncrementActiveTasks, DecrementActiveTasks, registryVars
    <3>2. QED
      BY <3>1
  <2>6. QED
    BY <1>1, <2>1, <2>2, <2>3, <2>4, <2>5 DEF Next, WorkerNext, MonitorNext
<1>2. QED
  BY <1>1, PoolInductive, PTL DEF Spec, KeepsTheLiving

\* A connection is left behind only by a goroutine that connects to a node no longer on
\* the list: the removals of the health check and of Deregister, with the registrations,
\* calls and second removals that come between their two steps, leave none.
THEOREM OtherwiseNothingLeaks == Spec => OnlyStaleCopiesLeak
<1> DEFINE Explained(n) ==
      Leaked(n)' =>
         \/ Leaked(n)
         \/ n \notin listed /\ \E g \in Goroutine :
              pc[g] = "picked" /\ dest[g] = n /\ pc'[g] = "linked"
<1>1. ASSUME PoolInv, [Next]_vars, NEW n \in Node
      PROVE  Explained(n)
  <2> TypeOK
    BY <1>1 DEF PoolInv
  <2> n # NoNode
    BY NodePoolAssumption
  <2>1. ASSUME clients' \subseteq clients, listed \subseteq listed',
               UNCHANGED <<leaving, unlinked>>
        PROVE  Explained(n)
    BY <2>1 DEF Leaked
  <2>2. CASE UNCHANGED vars
    BY <2>1, <2>2 DEF vars, registryVars, monitorVars
  <2>3. ASSUME NEW m \in Node, WorkerNext(m)
        PROVE  Explained(n)
    <3>1. CASE Register(m) \/ TimePasses(m) \/ \E active \in Report : Heartbeat(m, active)
      BY <2>1, <3>1 DEF Register, Enter, TimePasses, FallSilent, Heartbeat, Refresh, monitorVars
    <3>2. CASE Deregister(m)
      BY <3>2 DEF Deregister, Drop, monitorVars, Leaked
    <3>3. CASE DeregisterClient(m)
      BY <3>3 DEF DeregisterClient, RemoveClient, registryVars, monitorVars, Leaked
    <3>4. QED
      BY <2>3, <3>1, <3>2, <3>3 DEF WorkerNext
  <2>4. CASE MonitorNext
    <3>1. CASE CheckHealth \/ MonitorStop
      BY <2>1, <3>1 DEF CheckHealth, Sweep, MonitorStop, registryVars
    <3>2. ASSUME NEW m \in Node, RemoveExpired(m)
          PROVE  Explained(n)
      BY <3>2 DEF RemoveExpired, Drop, Leaked
    <3>3. CASE NodeRemoved
      BY <3>3 DEF NodeRemoved, RemoveClient, registryVars, Leaked
    <3>4. QED
      BY <2>4, <3>1, <3>2, <3>3 DEF MonitorNext
  <2>5. ASSUME NEW g \in Goroutine, CallNext(g)
        PROVE  Explained(n)
    <3>1. CASE Connect(g)
      BY <3>1 DEF Connect, Goto, GetClient, registryVars, monitorVars, Leaked, TypeOK
    <3>2. CASE ~Connect(g)
      BY <2>1, <2>5, <3>2 DEF CallNext, Begin, Pick, NoHealthyNodes, DialFailed, StartCall,
         EndCall, IncrementActiveTasks, DecrementActiveTasks, registryVars, monitorVars
    <3>3. QED
      BY <3>1, <3>2
  <2>6. CASE Shutdown \/ CloseConnections
    BY <2>1, <2>6 DEF Shutdown, CloseConnections, registryVars, monitorVars
  <2>7. QED
    BY <1>1, <2>2, <2>3, <2>4, <2>5, <2>6 DEF Next
<1>2. PoolInv /\ [Next]_vars => [\A n \in Node : Explained(n)]_vars
  BY <1>1
<1>3. QED
  BY PoolInductive, <1>2, PTL DEF Spec, OnlyStaleCopiesLeak
==============================================================================
