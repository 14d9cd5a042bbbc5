--------------------------- MODULE MembershipProofs ---------------------------
(***************************************************************************)
(* Machine-checked proofs about Membership.                                *)
(***************************************************************************)
EXTENDS Membership, TLAPS

\* The handlers keep the types of the registry and of overtaken.
LEMMA HandlerTyping ==
  ASSUME TypeOK, NEW n \in Node, NEW kind \in Kind, Handler(n, kind)
  PROVE  RegistryTypeOK' /\ overtaken' \subseteq Node
<1> USE DEF TypeOK, RegistryTypeOK, NodeStatus, Silence
<1>1. overtaken' \subseteq Node
  BY DEF Handler
<1>2. CASE Enter(n)
  BY <1>1, <1>2 DEF Enter
<1>3. CASE Drop(n)
  BY <1>1, <1>3 DEF Drop
<1>4. CASE Refresh(n, 0)
  BY <1>1, <1>4 DEF Refresh
<1>5. CASE UNCHANGED registryVars
  BY <1>1, <1>5 DEF registryVars
<1>6. QED
  BY <1>2, <1>3, <1>4, <1>5 DEF Handler, Kind

\* What a process has asked for is a kind of request.
LEMMA AskedKind ==
  ASSUME NEW n \in Node, NEW p \in Proc
  PROVE  Asked(n, p) \in Kind
BY DEF Asked, Kind

\* The initial state satisfies the invariant.
LEMMA InitInv == Init => MembershipInv
<1> SUFFICES ASSUME Init PROVE MembershipInv
  OBVIOUS
<1> USE DEF Init, RegistryInit
<1>1. RegistryTypeOK
  BY DEF RegistryTypeOK, NodeStatus, Silence
<1>2. rpc \in [Node -> [Proc -> {"none", "sent", "ok", "refused", "failed"}]]
  BY DEF NoCalls
<1>3. TypeOK
  BY <1>1, <1>2 DEF TypeOK
<1>4. LoopIsRegistered /\ AnsweredIsOff /\ GhostsAreLate
  BY DEF LoopIsRegistered, AnsweredIsOff, GhostsAreLate
<1>5. CallsHavePlaces
  BY DEF CallsHavePlaces, NoCalls, Proc
<1>6. QED
  BY <1>3, <1>4, <1>5 DEF MembershipInv

\* Each step of a worker, of the master or of the network keeps the types.
LEMMA NextTyping ==
  ASSUME TypeOK, [Next]_vars
  PROVE  TypeOK'
<1> USE DEF TypeOK, Proc
<1>1. CASE UNCHANGED vars
  BY <1>1 DEF vars, registryVars, workerVars, RegistryTypeOK
<1>2. ASSUME UNCHANGED registryVars
      PROVE  RegistryTypeOK'
  BY <1>2 DEF registryVars, RegistryTypeOK
<1>3. ASSUME NEW n \in Node, RunStep(n) \/ Start(n) \/ Stop(n) \/ Crash(n)
      PROVE  TypeOK'
  <2>1. CASE Start(n) \/ Stop(n)
    BY <1>2, <2>1 DEF Start, Stop, Set
  <2>2. CASE Registered(n)
    BY <1>2, <2>2 DEF Registered, Set
  <2>3. CASE Shutdown(n)
    BY <1>2, <2>3 DEF Shutdown, Set
  <2>4. CASE Deregistered(n)
    BY <1>2, <2>4 DEF Deregistered, Set
  <2>5. CASE Exit(n) \/ Crash(n)
    <3>1. Unanswered(n) \subseteq Node \X Kind
      BY AskedKind DEF Unanswered
    <3>2. PICK as \in {"gone", "down"} : Ends(n, as)
      BY <2>5 DEF Exit, Crash
    <3>3. QED
      BY <1>2, <3>1, <3>2 DEF Ends, NoCalls
  <2>6. QED
    BY <1>3, <2>1, <2>2, <2>3, <2>4, <2>5 DEF RunStep
<1>4. ASSUME NEW n \in Node, LoopStep(n)
      PROVE  TypeOK'
  BY <1>2, <1>4 DEF LoopStep, Tick, HeartbeatAnswered, Rejoined, LoopEnds, Set
<1>5. ASSUME NEW n \in Node, NEW p \in Proc, Handle(n, p)
      PROVE  TypeOK'
  <2>1. RegistryTypeOK' /\ overtaken' \subseteq Node
    BY <1>5, AskedKind, HandlerTyping DEF Handle
  <2>2. QED
    BY <1>5, <2>1 DEF Handle, Set, Answer
<1>6. ASSUME NEW n \in Node, NEW p \in Proc, Fail(n, p)
      PROVE  TypeOK'
  BY <1>2, <1>6, AskedKind DEF Fail, Set
<1>7. ASSUME NEW n \in Node, NEW kind \in Kind, Delivery(n, kind)
      PROVE  TypeOK'
  <2>1. CASE HandleLate(n, kind)
    BY <2>1, HandlerTyping DEF HandleLate, workerVars
  <2>2. CASE Lose(n, kind)
    BY <1>2, <2>2 DEF Lose, workerVars
  <2>3. QED
    BY <1>7, <2>1, <2>2 DEF Delivery
<1>8. ASSUME NEW n \in Node, TimePasses(n) \/ RemoveExpired(n)
      PROVE  TypeOK'
  <2>1. CASE TimePasses(n)
    <3>1. RegistryTypeOK'
      BY <2>1 DEF TimePasses, FallSilent, RegistryTypeOK, Silence
    <3>2. QED
      BY <2>1, <3>1 DEF TimePasses, workerVars
  <2>2. CASE RemoveExpired(n)
    <3>1. RegistryTypeOK'
      BY <2>2 DEF RemoveExpired, Drop, RegistryTypeOK, NodeStatus, Silence
    <3>2. QED
      BY <2>2, <3>1 DEF RemoveExpired, workerVars
  <2>3. QED
    BY <1>8, <2>1, <2>2
<1>9. CASE CheckHealth
  BY <1>9 DEF CheckHealth, Sweep, workerVars, RegistryTypeOK, NodeStatus
<1>10. CASE MasterRestart
  BY <1>10 DEF MasterRestart, RegistryTypeOK, NodeStatus, Silence
<1>11. CASE Calm
  BY <1>2, <1>11 DEF Calm, workerVars
<1>12. QED
  BY <1>1, <1>3, <1>4, <1>5, <1>6, <1>7, <1>8, <1>9, <1>10, <1>11 DEF Next, NodeNext

-----------------------------------------------------------------------------

\* A step that makes no node listed.
NobodyEnters == listed' \subseteq listed

\* Only a registration that the master handles puts a node on the list.
LEMMA WhoEnters ==
  ASSUME TypeOK, [Next]_vars
  PROVE  \/ NobodyEnters
         \/ \E n \in Node, p \in Proc : Handle(n, p) /\ Asked(n, p) = "register"
         \/ \E n \in Node : HandleLate(n, "register")
<1> USE DEF TypeOK, RegistryTypeOK, NobodyEnters
<1>1. ASSUME NEW n \in Node, NEW kind \in Kind, Handler(n, kind), kind # "register"
      PROVE  NobodyEnters
  BY <1>1 DEF Handler, Kind, Drop, Refresh, registryVars
<1>2. ASSUME NEW n \in Node, NEW p \in Proc, Handle(n, p), Asked(n, p) # "register"
      PROVE  NobodyEnters
  BY <1>1, <1>2, AskedKind DEF Handle
<1>3. ASSUME NEW n \in Node, NEW kind \in Kind, Delivery(n, kind),
             ~HandleLate(n, "register")
      PROVE  NobodyEnters
  BY <1>1, <1>3 DEF Delivery, HandleLate, Lose, registryVars
<1>4. CASE UNCHANGED registryVars
  BY <1>4 DEF registryVars
<1>5. ASSUME NEW n \in Node, RunStep(n) \/ LoopStep(n) \/ Start(n) \/ Stop(n) \/ Crash(n)
      PROVE  UNCHANGED registryVars
  BY <1>5 DEF RunStep, LoopStep, Start, Stop, Crash, Registered, Shutdown, Deregistered, Exit,
     Ends, Tick, HeartbeatAnswered, Rejoined, LoopEnds
<1>6. ASSUME NEW n \in Node, NEW p \in Proc, Fail(n, p)
      PROVE  UNCHANGED registryVars
  BY <1>6 DEF Fail
<1>7. ASSUME NEW n \in Node, TimePasses(n) \/ RemoveExpired(n)
      PROVE  NobodyEnters
  BY <1>7 DEF TimePasses, FallSilent, RemoveExpired, Drop
<1>8. CASE CheckHealth \/ MasterRestart \/ Calm
  BY <1>8 DEF CheckHealth, Sweep, MasterRestart, Calm, registryVars
<1>9. CASE UNCHANGED vars
  BY <1>4, <1>9 DEF vars
<1>10. QED
  BY <1>2, <1>3, <1>4, <1>5, <1>6, <1>7, <1>8, <1>9 DEF Next, NodeNext

\* The heartbeat loop of a worker in service stays one of a registered worker.
LEMMA NextLoop ==
  ASSUME TypeOK, LoopIsRegistered, [Next]_vars
  PROVE  LoopIsRegistered'
<1> SUFFICES ASSUME NEW m \in Node, main'[m] = "serving", loop'[m] \in {"beat", "rejoin"}
             PROVE  m \in registered'
  BY DEF LoopIsRegistered
<1> USE DEF TypeOK, LoopIsRegistered
<1>1. CASE UNCHANGED <<main, loop, registered>>
  BY <1>1
<1>2. ASSUME NEW n \in Node, RunStep(n) \/ Start(n) \/ Stop(n) \/ Crash(n)
      PROVE  m \in registered'
  <2>1. CASE Start(n) \/ Stop(n) \/ Shutdown(n)
    BY <2>1 DEF Start, Stop, Shutdown
  <2>2. CASE Registered(n) \/ Deregistered(n)
    BY <2>2 DEF Registered, Deregistered
  <2>3. CASE Exit(n) \/ Crash(n)
    BY <2>3 DEF Exit, Crash, Ends
  <2>4. QED
    BY <1>2, <2>1, <2>2, <2>3 DEF RunStep
<1>3. ASSUME NEW n \in Node, LoopStep(n)
      PROVE  m \in registered'
  BY <1>3 DEF LoopStep, Tick, HeartbeatAnswered, Rejoined, LoopEnds
<1>4. ASSUME NEW n \in Node, NEW p \in Proc, Handle(n, p) \/ Fail(n, p)
      PROVE  m \in registered'
  BY <1>1, <1>4 DEF Handle, Fail
<1>5. ASSUME NEW n \in Node, NEW kind \in Kind, Delivery(n, kind)
      PROVE  m \in registered'
  BY <1>1, <1>5 DEF Delivery, HandleLate, Lose, workerVars
<1>6. ASSUME NEW n \in Node, TimePasses(n) \/ RemoveExpired(n)
      PROVE  m \in registered'
  BY <1>1, <1>6 DEF TimePasses, RemoveExpired, workerVars
<1>7. CASE CheckHealth \/ MasterRestart \/ Calm
  BY <1>1, <1>7 DEF CheckHealth, MasterRestart, Calm, workerVars
<1>8. CASE UNCHANGED vars
  BY <1>1, <1>8 DEF vars, workerVars
<1>9. QED
  BY <1>2, <1>3, <1>4, <1>5, <1>6, <1>7, <1>8 DEF Next, NodeNext

\* Who is on the list after its deregistration was answered was put back by a late request.
LEMMA NextGhosts ==
  ASSUME TypeOK, AnsweredIsOff, GhostsAreLate, [Next]_vars
  PROVE  AnsweredIsOff' /\ GhostsAreLate'
<1> SUFFICES ASSUME NEW m \in Node
             PROVE  /\ main'[m] = "deregister" /\ rpc'[m]["main"] = "ok" /\ m \in listed'
                         => m \in overtaken'
                    /\ m \in acked' => main'[m] \in {"draining", "gone", "down"}
                    /\ main'[m] \in {"draining", "gone"} /\ m \in acked' /\ m \in listed'
                         => m \in overtaken'
  BY DEF AnsweredIsOff, GhostsAreLate
<1> USE DEF TypeOK, AnsweredIsOff, GhostsAreLate
<1> DEFINE Goal ==
      /\ main'[m] = "deregister" /\ rpc'[m]["main"] = "ok" /\ m \in listed' => m \in overtaken'
      /\ m \in acked' => main'[m] \in {"draining", "gone", "down"}
      /\ main'[m] \in {"draining", "gone"} /\ m \in acked' /\ m \in listed' => m \in overtaken'
<1>1. ASSUME NobodyEnters, UNCHANGED <<main, rpc, acked>>, overtaken \subseteq overtaken'
      PROVE  Goal
  BY <1>1 DEF NobodyEnters
<1>2. ASSUME NEW n \in Node, RunStep(n) \/ Start(n) \/ Stop(n) \/ Crash(n)
      PROVE  Goal
  <2>1. listed' = listed
    BY <1>2 DEF RunStep, Start, Stop, Crash, Registered, Shutdown, Deregistered, Exit, Ends,
       registryVars
  <2>2. CASE Start(n) \/ Stop(n)
    BY <2>1, <2>2 DEF Start, Stop, Set
  <2>3. CASE Registered(n) \/ Shutdown(n)
    BY <2>1, <2>3 DEF Registered, Shutdown, Set, Proc
  <2>4. CASE Deregistered(n)
    BY <2>1, <2>4 DEF Deregistered, Set, Proc
  <2>5. CASE Exit(n) \/ Crash(n)
    BY <2>1, <2>5 DEF Exit, Crash, Ends
  <2>6. QED
    BY <1>2, <2>2, <2>3, <2>4, <2>5 DEF RunStep
<1>3. ASSUME NEW n \in Node, LoopStep(n)
      PROVE  Goal
  BY <1>3 DEF LoopStep, Tick, HeartbeatAnswered, Rejoined, LoopEnds, Set, Proc, registryVars
<1>4. ASSUME NEW n \in Node, NEW kind \in Kind, Handler(n, kind)
      PROVE  /\ overtaken \subseteq overtaken'
             /\ m # n \/ kind # "register" => (m \in listed' => m \in listed)
             /\ n \notin overtaken' /\ kind = "register"
                  => main[n] \notin {"deregister", "draining", "gone"}
             /\ kind = "deregister" => n \notin listed'
  <2>1. CASE kind = "register"
    BY <1>4, <2>1 DEF Handler, Enter
  <2>2. CASE kind = "deregister"
    BY <1>4, <2>2 DEF Handler, Drop
  <2>3. CASE kind = "heartbeat"
    BY <1>4, <2>3 DEF Handler, Refresh, registryVars
  <2>4. QED
    BY <2>1, <2>2, <2>3 DEF Kind
<1>5. ASSUME NEW n \in Node, NEW p \in Proc, Handle(n, p)
      PROVE  Goal
  <2>1. Handler(n, Asked(n, p)) /\ Asked(n, p) \in Kind /\ UNCHANGED <<main, acked>>
    BY <1>5, AskedKind DEF Handle
  <2>2. /\ overtaken \subseteq overtaken'
        /\ m # n \/ Asked(n, p) # "register" => (m \in listed' => m \in listed)
        /\ n \notin overtaken' /\ Asked(n, p) = "register"
             => main[n] \notin {"deregister", "draining", "gone"}
        /\ Asked(n, p) = "deregister" => n \notin listed'
    BY <1>4, <2>1
  <2>3. /\ m # n \/ p # "main" => rpc'[m]["main"] = rpc[m]["main"]
        /\ p = "main" /\ main[n] = "deregister" => Asked(n, p) = "deregister"
    BY <1>5 DEF Handle, Set, Asked, Proc
  <2>4. QED
    BY <2>1, <2>2, <2>3
<1>6. ASSUME NEW n \in Node, NEW p \in Proc, Fail(n, p)
      PROVE  Goal
  BY <1>6 DEF Fail, Set, Proc, registryVars
<1>7. ASSUME NEW n \in Node, NEW kind \in Kind, Delivery(n, kind)
      PROVE  Goal
  <2>1. CASE HandleLate(n, kind)
    <3>1. Handler(n, kind) /\ UNCHANGED <<main, rpc, acked>>
      BY <2>1 DEF HandleLate, workerVars
    <3>2. /\ overtaken \subseteq overtaken'
          /\ m # n \/ kind # "register" => (m \in listed' => m \in listed)
          /\ n \notin overtaken' /\ kind = "register"
               => main[n] \notin {"deregister", "draining", "gone"}
      BY <1>4, <3>1
    <3>3. QED
      BY <3>1, <3>2
  <2>2. CASE Lose(n, kind)
    BY <1>1, <2>2 DEF Lose, workerVars, registryVars, NobodyEnters
  <2>3. QED
    BY <1>7, <2>1, <2>2 DEF Delivery
<1>8. ASSUME NEW n \in Node, TimePasses(n) \/ RemoveExpired(n)
      PROVE  Goal
  BY <1>1, <1>8 DEF TimePasses, FallSilent, RemoveExpired, Drop, workerVars, NobodyEnters
<1>9. CASE CheckHealth \/ Calm
  BY <1>1, <1>9 DEF CheckHealth, Sweep, Calm, workerVars, registryVars, NobodyEnters
<1>10. CASE MasterRestart
  BY <1>10 DEF MasterRestart
<1>11. CASE UNCHANGED vars
  BY <1>1, <1>11 DEF vars, workerVars, registryVars, NobodyEnters
<1>12. QED
  BY <1>2, <1>3, <1>5, <1>6, <1>7, <1>8, <1>9, <1>10, <1>11 DEF Next, NodeNext

\* Processes make calls and take answers in their places, the network only answers calls.
LEMMA NextCalls ==
  ASSUME TypeOK, CallsHavePlaces, [Next]_vars
  PROVE  CallsHavePlaces'
<1> DEFINE Places(n) ==
      /\ main[n] \notin {"register", "deregister"} => rpc[n]["main"] = "none"
      /\ loop[n] \in {"off", "idle"} => rpc[n]["loop"] = "none"
      /\ main[n] \in {"down", "gone", "register"} => loop[n] = "off"
<1> SUFFICES ASSUME NEW m \in Node PROVE Places(m)'
  BY DEF CallsHavePlaces
<1>0. Places(m)
  BY DEF CallsHavePlaces
<1> USE DEF TypeOK
<1>1. CASE UNCHANGED <<main, loop, rpc>>
  BY <1>0, <1>1
<1>2. ASSUME NEW n \in Node, RunStep(n) \/ Start(n) \/ Stop(n) \/ Crash(n)
      PROVE  Places(m)'
  <2>1. CASE Start(n)
    BY <1>0, <2>1 DEF Start, Set, Proc
  <2>2. CASE Stop(n)
    BY <1>1, <2>2 DEF Stop
  <2>3. CASE Registered(n)
    BY <1>0, <2>3 DEF Registered, Set, Proc
  <2>4. CASE Shutdown(n)
    BY <1>0, <2>4 DEF Shutdown, Set, Proc
  <2>5. CASE Deregistered(n)
    BY <1>0, <2>5 DEF Deregistered, Set, Proc
  <2>6. ASSUME NEW as \in {"gone", "down"}, Ends(n, as)
        PROVE  Places(m)'
    BY <1>0, <2>6 DEF Ends, NoCalls, Proc
  <2>7. QED
    BY <1>2, <2>1, <2>2, <2>3, <2>4, <2>5, <2>6 DEF RunStep, Exit, Crash
<1>3. ASSUME NEW n \in Node, LoopStep(n)
      PROVE  Places(m)'
  <2>1. CASE Tick(n)
    BY <1>0, <2>1 DEF Tick, Set, Proc
  <2>2. CASE HeartbeatAnswered(n)
    BY <1>0, <2>2 DEF HeartbeatAnswered, Set, Proc
  <2>3. CASE Rejoined(n)
    BY <1>0, <2>3 DEF Rejoined, Set, Proc
  <2>4. CASE LoopEnds(n)
    BY <1>0, <2>4 DEF LoopEnds
  <2>5. QED
    BY <1>3, <2>1, <2>2, <2>3, <2>4 DEF LoopStep
<1>4. ASSUME NEW n \in Node, NEW p \in Proc, Handle(n, p) \/ Fail(n, p)
      PROVE  Places(m)'
  BY <1>0, <1>4 DEF Handle, Fail, Set, Proc
<1>5. ASSUME NEW n \in Node, NEW kind \in Kind, Delivery(n, kind)
      PROVE  Places(m)'
  BY <1>1, <1>5 DEF Delivery, HandleLate, Lose, workerVars
<1>6. ASSUME NEW n \in Node, TimePasses(n) \/ RemoveExpired(n)
      PROVE  Places(m)'
  BY <1>1, <1>6 DEF TimePasses, RemoveExpired, workerVars
<1>7. CASE CheckHealth \/ Calm \/ UNCHANGED vars
  BY <1>1, <1>7 DEF CheckHealth, Calm, vars, workerVars
<1>8. CASE MasterRestart
  BY <1>0, <1>8 DEF MasterRestart, Proc
<1>9. QED
  BY <1>2, <1>3, <1>4, <1>5, <1>6, <1>7, <1>8 DEF Next, NodeNext

-----------------------------------------------------------------------------

\* The inductive invariant holds in every reachable state of workers and master.
THEOREM MembershipInvariant == Spec => []MembershipInv
<1>1. MembershipInv /\ [Next]_vars => MembershipInv'
  BY NextTyping, NextCalls, NextLoop, NextGhosts DEF MembershipInv
<1>2. QED
  BY InitInv, <1>1, PTL DEF Spec

\* The variables of the workers, of the calls and of the registry keep their types.
THEOREM MembershipTypeOK == Spec => []TypeOK
<1>1. MembershipInv => TypeOK
  BY DEF MembershipInv
<1>2. QED
  BY MembershipInvariant, <1>1, PTL

\* A deregistered worker is back on the list only by a registration that was handled late.
THEOREM GhostsComeLate == Spec => []GhostsAreLate
<1>1. MembershipInv => GhostsAreLate
  BY DEF MembershipInv
<1>2. QED
  BY MembershipInvariant, <1>1, PTL

\* A worker whose first registration failed is not put on the list while it runs: its
\* heartbeat loop does nothing, and registers only what was registered.
THEOREM OutsideStaysOutside == Spec => OutsideForGood
<1>1. ASSUME MembershipInv, [Next]_vars
      PROVE  [\A n \in Node : Outside(n) /\ n \notin listed => n \notin listed']_vars
  <2> SUFFICES ASSUME NEW n \in Node, Outside(n), n \notin listed
               PROVE  n \notin listed'
    OBVIOUS
  <2> USE DEF MembershipInv, TypeOK, RegistryTypeOK
  <2>1. CASE NobodyEnters
    BY <2>1 DEF NobodyEnters
  <2>2. ASSUME NEW m \in Node, NEW p \in Proc, Handle(m, p), Asked(m, p) = "register"
        PROVE  n \notin listed'
    <3>1. Enter(m)
      BY <2>2 DEF Handle, Handler
    <3>2. m # n
      BY <1>1, <2>2 DEF Outside, Asked, Proc, LoopIsRegistered
    <3>3. QED
      BY <3>1, <3>2 DEF Enter
  <2>3. ASSUME NEW m \in Node, HandleLate(m, "register")
        PROVE  n \notin listed'
    BY <2>3 DEF HandleLate, Handler, Enter, Outside
  <2>4. QED
    BY <1>1, <2>1, <2>2, <2>3, WhoEnters
<1>2. QED
  BY <1>1, MembershipInvariant, PTL DEF Spec, OutsideForGood

-----------------------------------------------------------------------------
(* What ComesBack and GoneLeaves come to is stable.                        *)

\* A request touches the entry of its own worker only; a registration or a heartbeat
\* leaves a healthy one healthy, and a heartbeat or a deregistration lists nobody.
LEMMA HandlerEffect ==
  ASSUME TypeOK, NEW n \in Node, NEW kind \in Kind, Handler(n, kind), NEW m \in Node
  PROVE  /\ m # n => /\ m \in listed' <=> m \in listed
                     /\ status'[m] = status[m] /\ silence'[m] = silence[m]
         /\ m \in Healthy /\ silence[m] = "heard" /\ kind # "deregister" =>
              m \in Healthy' /\ silence'[m] = "heard"
         /\ m \notin listed /\ kind # "register" => m \notin listed'
<1> USE DEF TypeOK, RegistryTypeOK, Healthy
<1>1. CASE kind = "register"
  BY <1>1 DEF Handler, Enter
<1>2. CASE kind = "deregister"
  BY <1>2 DEF Handler, Drop
<1>3. CASE kind = "heartbeat"
  BY <1>3 DEF Handler, Refresh, registryVars
<1>4. QED
  BY <1>1, <1>2, <1>3 DEF Kind

\* A worker that is back: its calls are heartbeats and registrations, late requests of it
\* do no harm, and its heartbeats come before the timeout.
THEOREM BackStays == Spec => BackForGood
<1>1. ASSUME MembershipInv, [Next]_vars, NEW m \in Node, On(m), m \notin ctxDone'
      PROVE  On(m)'
  <2> USE DEF TypeOK, On
  <2>0. TypeOK /\ rpc[m]["main"] = "none"
    BY <1>1 DEF MembershipInv, CallsHavePlaces
  <2> DEFINE Offered == m \in Healthy /\ silence[m] = "heard"
             Serving == /\ calm /\ main[m] = "serving" /\ m \in registered /\ loop[m] # "off"
                        /\ <<m, "deregister">> \notin orphans
  <2>1. Offered /\ Serving
    BY <1>1
  <2>2. SUFFICES Offered' /\ Serving'
    BY <1>1
  <2>3. ASSUME UNCHANGED registryVars PROVE Offered'
    BY <2>1, <2>3 DEF Healthy, registryVars
  <2>4. ASSUME UNCHANGED <<main, loop, registered, calm, orphans>> PROVE Serving'
    BY <2>1, <2>4
  <2>5. ASSUME NEW n \in Node, RunStep(n) \/ Start(n) \/ Stop(n) \/ Crash(n)
        PROVE  Offered' /\ Serving'
    <3>1. CASE Registered(n)
      BY <2>0, <2>1, <2>3, <3>1 DEF Registered
    <3>2. CASE Shutdown(n) \/ Deregistered(n)
      BY <1>1, <2>0, <2>1, <2>3, <3>2 DEF Shutdown, Deregistered
    <3>3. CASE Start(n) \/ Stop(n)
      BY <2>0, <2>1, <2>3, <3>3 DEF Start, Stop
    <3>4. CASE Exit(n)
      <4>1. n # m /\ orphans' = orphans \cup Unanswered(n)
        BY <2>1, <3>4 DEF Exit, Ends
      <4>2. <<m, "deregister">> \notin orphans'
        BY <2>1, <4>1 DEF Unanswered
      <4>3. QED
        BY <2>0, <2>1, <2>3, <3>4, <4>1, <4>2 DEF Exit, Ends
    <3>5. ~Crash(n)
      BY <2>1 DEF Crash
    <3>6. QED
      BY <2>5, <3>1, <3>2, <3>3, <3>4, <3>5 DEF RunStep
  <2>6. ASSUME NEW n \in Node, LoopStep(n)
        PROVE  Offered' /\ Serving'
    <3>1. CASE Tick(n)
      BY <2>0, <2>1, <2>3, <3>1 DEF Tick
    <3>2. CASE HeartbeatAnswered(n)
      BY <2>0, <2>1, <2>3, <3>2 DEF HeartbeatAnswered
    <3>3. CASE Rejoined(n)
      BY <2>0, <2>1, <2>3, <3>3 DEF Rejoined
    <3>4. CASE LoopEnds(n)
      BY <1>1, <2>0, <2>1, <2>3, <3>4 DEF LoopEnds
    <3>5. QED
      BY <2>6, <3>1, <3>2, <3>3, <3>4 DEF LoopStep
  <2>7. ASSUME NEW n \in Node, NEW p \in Proc, Handle(n, p)
        PROVE  Offered' /\ Serving'
    <3>1. Handler(n, Asked(n, p)) /\ Asked(n, p) \in Kind
      BY <2>7, AskedKind DEF Handle
    <3>2. n = m => Asked(n, p) # "deregister"
      BY <2>0, <2>1, <2>7 DEF Handle, Asked, Proc
    <3>3. Offered'
      BY <2>0, <2>1, <3>1, <3>2, HandlerEffect DEF Healthy
    <3>4. QED
      BY <2>4, <2>7, <3>3 DEF Handle
  <2>8. ASSUME NEW n \in Node, NEW p \in Proc, Fail(n, p)
        PROVE  Offered' /\ Serving'
    <3>1. n # m
      BY <1>1, <2>1, <2>8 DEF Fail, MayFail
    <3>2. <<m, "deregister">> \notin orphans'
      BY <2>1, <2>8, <3>1 DEF Fail
    <3>3. QED
      BY <2>1, <2>3, <2>8, <3>2 DEF Fail
  <2>9. ASSUME NEW n \in Node, NEW kind \in Kind, Delivery(n, kind)
        PROVE  Offered' /\ Serving'
    <3>1. CASE HandleLate(n, kind)
      <4>1. Handler(n, kind) /\ (n = m => kind # "deregister")
        BY <2>1, <3>1 DEF HandleLate
      <4>2. Offered'
        BY <2>0, <2>1, <4>1, HandlerEffect DEF Healthy
      <4>3. QED
        BY <2>1, <3>1, <4>2 DEF HandleLate, workerVars
    <3>2. CASE Lose(n, kind)
      BY <2>1, <2>3, <3>2 DEF Lose, workerVars
    <3>3. QED
      BY <2>9, <3>1, <3>2 DEF Delivery
  <2>10. ASSUME NEW n \in Node, TimePasses(n) \/ RemoveExpired(n)
         PROVE  Offered' /\ Serving'
    <3>1. n # m
      BY <1>1, <2>1, <2>10 DEF TimePasses, Beating, RemoveExpired, Overdue
    <3>2. Offered'
      BY <2>0, <2>1, <2>10, <3>1
         DEF RegistryTypeOK, TimePasses, FallSilent, RemoveExpired, Drop, Healthy
    <3>3. QED
      BY <2>4, <2>10, <3>2 DEF TimePasses, RemoveExpired, workerVars
  <2>11. CASE CheckHealth
    <3>1. Offered'
      BY <2>0, <2>1, <2>11 DEF RegistryTypeOK, CheckHealth, Sweep, Healthy
    <3>2. QED
      BY <2>4, <2>11, <3>1 DEF CheckHealth, workerVars
  <2>12. ~MasterRestart /\ ~Calm
    BY <2>1 DEF MasterRestart, Calm
  <2>13. CASE UNCHANGED vars
    BY <2>3, <2>4, <2>13 DEF vars, workerVars
  <2>14. QED
    BY <1>1, <2>5, <2>6, <2>7, <2>8, <2>9, <2>10, <2>11, <2>12, <2>13 DEF Next, NodeNext
<1>2. MembershipInv /\ [Next]_vars => [\A n \in Node : On(n) => On(n)' \/ n \in ctxDone']_vars
  BY <1>1
<1>3. QED
  BY MembershipInvariant, <1>2, PTL DEF Spec, BackForGood

\* A worker that has ended makes no calls, and only a registration lists it.
THEOREM GoneStays == Spec => GoneForGood
<1>1. ASSUME MembershipInv, [Next]_vars, NEW m \in Node, Off(m), main'[m] # "register"
      PROVE  Off(m)'
  <2>0. TypeOK /\ \A p \in Proc : rpc[m][p] = "none"
    BY <1>1 DEF MembershipInv, CallsHavePlaces, Off, Proc
  <2>1. main[m] \in {"down", "gone"} /\ m \notin listed /\ <<m, "register">> \notin orphans
    BY <1>1 DEF Off
  <2>2. main'[m] \in {"down", "gone"}
    <3>1. CASE main'[m] = main[m]
      BY <2>1, <3>1
    <3>2. ASSUME NEW n \in Node, RunStep(n) \/ Start(n) \/ Crash(n)
          PROVE  main'[m] \in {"down", "gone"}
      BY <1>1, <2>0, <2>1, <3>2 DEF TypeOK, RunStep, Start, Crash, Registered, Shutdown, Deregistered,
         Exit, Ends
    <3>3. ASSUME NEW n \in Node, LoopStep(n) \/ Stop(n) \/ TimePasses(n) \/ RemoveExpired(n)
                 \/ (\E p \in Proc : Handle(n, p) \/ Fail(n, p))
                 \/ (\E kind \in Kind : Delivery(n, kind))
          PROVE  main' = main
      BY <3>3 DEF LoopStep, Stop, Tick, HeartbeatAnswered, Rejoined, LoopEnds, TimePasses,
         RemoveExpired, Handle, Fail, Delivery, HandleLate, Lose, workerVars
    <3>4. CASE CheckHealth \/ MasterRestart \/ Calm \/ UNCHANGED vars
      BY <3>1, <3>4 DEF CheckHealth, MasterRestart, Calm, vars, workerVars
    <3>5. QED
      BY <1>1, <3>1, <3>2, <3>3, <3>4 DEF Next, NodeNext
  <2>3. m \notin listed'
    <3>1. CASE NobodyEnters
      BY <2>1, <3>1 DEF NobodyEnters
    <3>2. ASSUME NEW n \in Node, NEW p \in Proc, Handle(n, p), Asked(n, p) = "register"
          PROVE  m \notin listed'
      <4>1. n # m /\ Enter(n)
        BY <2>0, <3>2 DEF Handle, Handler
      <4>2. QED
        BY <2>1, <4>1 DEF Enter
    <3>3. ASSUME NEW n \in Node, HandleLate(n, "register")
          PROVE  m \notin listed'
      <4>1. n # m /\ Enter(n)
        BY <2>1, <3>3 DEF HandleLate, Handler
      <4>2. QED
        BY <2>1, <4>1 DEF Enter
    <3>4. QED
      BY <1>1, <2>0, <3>1, <3>2, <3>3, WhoEnters
  <2>4. <<m, "register">> \notin orphans'
    <3>1. ASSUME orphans' \subseteq orphans PROVE <<m, "register">> \notin orphans'
      BY <2>1, <3>1
    <3>2. ASSUME NEW n \in Node, NEW as, Ends(n, as), main[n] \notin {"down", "gone"}
          PROVE  <<m, "register">> \notin orphans'
      BY <2>1, <3>2 DEF Ends, Unanswered
    <3>3. ASSUME NEW n \in Node, NEW p \in Proc, Fail(n, p)
          PROVE  <<m, "register">> \notin orphans'
      BY <2>0, <2>1, <3>3 DEF Fail
    <3>4. ASSUME NEW n \in Node, RunStep(n) \/ Start(n) \/ Stop(n) \/ Crash(n)
          PROVE  <<m, "register">> \notin orphans'
      BY <3>1, <3>2, <3>4 DEF RunStep, Start, Stop, Crash, Registered, Shutdown, Deregistered, Exit
    <3>5. ASSUME NEW n \in Node, LoopStep(n) \/ TimePasses(n) \/ RemoveExpired(n)
                 \/ (\E p \in Proc : Handle(n, p)) \/ (\E kind \in Kind : Delivery(n, kind))
          PROVE  orphans' \subseteq orphans
      BY <3>5 DEF LoopStep, Tick, HeartbeatAnswered, Rejoined, LoopEnds, TimePasses, RemoveExpired,
         Handle, Delivery, HandleLate, Lose
    <3>6. CASE CheckHealth \/ MasterRestart \/ Calm \/ UNCHANGED vars
      BY <3>1, <3>6 DEF CheckHealth, MasterRestart, Calm, vars
    <3>7. QED
      BY <1>1, <3>1, <3>3, <3>4, <3>5, <3>6 DEF Next, NodeNext
  <2>5. QED
    BY <2>2, <2>3, <2>4 DEF Off
<1>2. MembershipInv /\ [Next]_vars =>
        [\A n \in Node : Off(n) => Off(n)' \/ main'[n] = "register"]_vars
  BY <1>1
<1>3. QED
  BY MembershipInvariant, <1>2, PTL DEF Spec, GoneForGood
==============================================================================
