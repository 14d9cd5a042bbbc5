------------------------------- MODULE NodePool -------------------------------
(***************************************************************************)
(* The nodes of the master in use: the registration handlers of            *)
(* internal/master/server.go, the health check of                          *)
(* internal/master/registry.go with its callback, and what dispatchTask    *)
(* and the client pool of internal/master/dispatcher.go do to a node.      *)
(*                                                                         *)
(* The registry's mutex and the pool's are different locks.  The health    *)
(* check holds the first while its callback takes the second, so its       *)
(* removals are split and every other use of the registry waits.  Sections *)
(* under the pool's mutex are one step.  What becomes of a task is in      *)
(* Master; here a call is only begun, counted and ended.                   *)
(***************************************************************************)
EXTENDS Registry, FiniteSets

CONSTANTS
    NoNode,        \* no node
    Goroutine,     \* goroutines that can run dispatchTask at the same time
    Report         \* the numbers of active tasks a heartbeat may carry

ASSUME NodePoolAssumption ==
    /\ NoNode \notin Node
    /\ IsFiniteSet(Goroutine)
    /\ Report \subseteq Nat

VARIABLES
    clients,     \* the keys of Dispatcher.clients and Dispatcher.conns
    expired,     \* checkHealth: nodes of toRemove not removed yet
    unlinked,    \* checkHealth: the node removed whose callback has not run
    leaving,     \* nodes in a Deregister call, between the two removals
    monitor,     \* MonitorHealth: "ticking" or "stopped"
    loop,        \* Dispatcher.Run: "running" or "stopped"
    ctxDone,     \* the server's context has been cancelled
    pc,          \* where each dispatchTask is
    dest,        \* its copy of a node
    reported     \* history: the count of each node's last heartbeat or registration

monitorVars == <<expired, unlinked, monitor>>
callVars == <<pc, dest>>
serverVars == <<loop, ctxDone>>
vars == <<registryVars, clients, monitorVars, leaving, serverVars, callVars, reported>>

\* The type invariant of the node pool and the registry.
TypeOK ==
    /\ RegistryTypeOK
    /\ clients \subseteq Node
    /\ expired \subseteq Node
    /\ unlinked \in Node \cup {NoNode}
    /\ leaving \subseteq Node
    /\ monitor \in {"ticking", "stopped"}
    /\ loop \in {"running", "stopped"}
    /\ ctxDone \in BOOLEAN
    /\ pc \in [Goroutine -> {"idle", "begun", "picked", "linked", "counted"}]
    /\ dest \in [Goroutine -> Node \cup {NoNode}]
    /\ reported \in [Node -> Nat]

Init ==
    /\ RegistryInit
    /\ clients = {}
    /\ expired = {}
    /\ unlinked = NoNode
    /\ leaving = {}
    /\ monitor = "ticking"
    /\ loop = "running"
    /\ ctxDone = FALSE
    /\ pc = [g \in Goroutine |-> "idle"]
    /\ dest = [g \in Goroutine |-> NoNode]
    /\ reported = [n \in Node |-> 0]

\* checkHealth does not hold the registry's mutex.
Unlocked == expired = {} /\ unlinked = NoNode

-----------------------------------------------------------------------------
(* Dispatcher's client pool.                                               *)

GetClient(n) == clients' = clients \cup {n}

RemoveClient(n) == clients' = clients \ {n}

-----------------------------------------------------------------------------
(* Workers register, send heartbeats and deregister.                       *)

\* Mutant: the entry is written without the registry's mutex.
RegisterUnlocked(n) ==
    /\ Enter(n)
    /\ reported' = [reported EXCEPT ![n] = 0]
    /\ UNCHANGED <<clients, monitorVars, leaving, serverVars, callVars>>

Register(n) ==
    /\ Unlocked
    /\ Enter(n)
    /\ reported' = [reported EXCEPT ![n] = 0]
    /\ UNCHANGED <<clients, monitorVars, leaving, serverVars, callVars>>

\* Mutant: the entry is refreshed without the registry's mutex.
HeartbeatUnlocked(n, active) ==
    /\ Refresh(n, active)
    /\ reported' = [reported EXCEPT ![n] = active]
    /\ UNCHANGED <<clients, monitorVars, leaving, serverVars, callVars>>

Heartbeat(n, active) ==
    /\ Unlocked
    /\ Refresh(n, active)
    /\ reported' = [reported EXCEPT ![n] = active]
    /\ UNCHANGED <<clients, monitorVars, leaving, serverVars, callVars>>

\* The node may be gone already, and may register again before its client is removed.
Deregister(n) ==
    /\ Unlocked
    /\ n \notin leaving
    /\ Drop(n)
    /\ leaving' = leaving \cup {n}
    /\ UNCHANGED <<clients, monitorVars, serverVars, callVars, reported>>

DeregisterClient(n) ==
    /\ n \in leaving
    /\ RemoveClient(n)
    /\ leaving' = leaving \ {n}
    /\ UNCHANGED <<registryVars, monitorVars, serverVars, callVars, reported>>

TimePasses(n) ==
    /\ FallSilent(n)
    /\ UNCHANGED <<clients, monitorVars, leaving, serverVars, callVars, reported>>

-----------------------------------------------------------------------------
(* MonitorHealth: each tick runs checkHealth under the registry's mutex.   *)

CheckHealth ==
    /\ monitor = "ticking"
    /\ Unlocked
    /\ Sweep
    /\ expired' = Overdue
    /\ UNCHANGED <<clients, unlinked, monitor, leaving, serverVars, callVars, reported>>

RemoveExpired(n) ==
    /\ n \in expired
    /\ unlinked = NoNode
    /\ Drop(n)
    /\ expired' = expired \ {n}
    /\ unlinked' = n
    /\ UNCHANGED <<clients, monitor, leaving, serverVars, callVars, reported>>

\* Mutant: the callback is not called.
NodeRemovedUntold ==
    /\ unlinked # NoNode
    /\ unlinked' = NoNode
    /\ UNCHANGED <<registryVars, clients, expired, monitor, leaving, serverVars, callVars,
                   reported>>

\* onNodeRemoved, which NewServer sets to RemoveClient.
NodeRemoved ==
    /\ unlinked # NoNode
    /\ RemoveClient(unlinked)
    /\ unlinked' = NoNode
    /\ UNCHANGED <<registryVars, expired, monitor, leaving, serverVars, callVars, reported>>

MonitorStop ==
    /\ monitor = "ticking"
    /\ ctxDone
    /\ Unlocked
    /\ monitor' = "stopped"
    /\ UNCHANGED <<registryVars, clients, expired, unlinked, leaving, serverVars, callVars,
                   reported>>

-----------------------------------------------------------------------------
(* dispatchTask and sendToWorker, as far as they use nodes.                *)

Goto(g, from, to) ==
    /\ pc[g] = from
    /\ pc' = [pc EXCEPT ![g] = to]
    /\ UNCHANGED dest

Finish(g, from) ==
    /\ pc[g] = from
    /\ pc' = [pc EXCEPT ![g] = "idle"]
    /\ dest' = [dest EXCEPT ![g] = NoNode]

Begin(g) ==
    /\ loop = "running"
    /\ Goto(g, "idle", "begun")
    /\ UNCHANGED <<registryVars, clients, monitorVars, leaving, serverVars, reported>>

\* GetHealthyNodes returns copies; whatever happens to the node after this, the
\* goroutine goes on with its copy.
Pick(g, n) ==
    /\ Unlocked
    /\ n \in Healthy
    /\ pc[g] = "begun"
    /\ pc' = [pc EXCEPT ![g] = "picked"]
    /\ dest' = [dest EXCEPT ![g] = n]
    /\ UNCHANGED <<registryVars, clients, monitorVars, leaving, serverVars, reported>>

NoHealthyNodes(g) ==
    /\ Unlocked
    /\ Healthy = {}
    /\ Finish(g, "begun")
    /\ UNCHANGED <<registryVars, clients, monitorVars, leaving, serverVars, reported>>

\* The client is found, or made under the mutex after a second look.
Connect(g) ==
    /\ Goto(g, "picked", "linked")
    /\ GetClient(dest[g])
    /\ UNCHANGED <<registryVars, monitorVars, leaving, serverVars, reported>>

DialFailed(g) ==
    /\ Finish(g, "picked")
    /\ dest[g] \notin clients
    /\ UNCHANGED <<registryVars, clients, monitorVars, leaving, serverVars, reported>>

StartCall(g) ==
    /\ Unlocked
    /\ Goto(g, "linked", "counted")
    /\ IncrementActiveTasks(dest[g])
    /\ UNCHANGED <<clients, monitorVars, leaving, serverVars, reported>>

\* Execute has answered or failed.
EndCall(g) ==
    /\ Unlocked
    /\ Finish(g, "counted")
    /\ DecrementActiveTasks(dest[g])
    /\ UNCHANGED <<clients, monitorVars, leaving, serverVars, reported>>

-----------------------------------------------------------------------------

Shutdown ==
    /\ ~ctxDone
    /\ ctxDone' = TRUE
    /\ UNCHANGED <<registryVars, clients, monitorVars, leaving, loop, callVars, reported>>

\* The dispatch loop ends; dispatchTask goroutines go on.
CloseConnections ==
    /\ loop = "running"
    /\ ctxDone
    /\ loop' = "stopped"
    /\ clients' = {}
    /\ UNCHANGED <<registryVars, monitorVars, leaving, ctxDone, callVars, reported>>

MonitorNext ==
    \/ CheckHealth
    \/ \E n \in Node : RemoveExpired(n)
    \/ NodeRemoved
    \/ MonitorStop

WorkerNext(n) ==
    \/ Register(n)
    \/ \E active \in Report : Heartbeat(n, active)
    \/ Deregister(n)
    \/ DeregisterClient(n)
    \/ TimePasses(n)

CallNext(g) ==
    \/ Begin(g)
    \/ \E n \in Node : Pick(g, n)
    \/ NoHealthyNodes(g)
    \/ Connect(g)
    \/ DialFailed(g)
    \/ StartCall(g)
    \/ EndCall(g)

Next ==
    \/ \E n \in Node : WorkerNext(n)
    \/ MonitorNext
    \/ \E g \in Goroutine : CallNext(g)
    \/ Shutdown
    \/ CloseConnections

Spec == Init /\ [][Next]_vars

-----------------------------------------------------------------------------

Counted(n) == {g \in Goroutine : pc[g] = "counted" /\ dest[g] = n}

\* The load the balancers and the scaler see never overstates a node: it is at most
\* what the node last reported and the calls to it the master has in flight.
\* Registrations, heartbeats and removals may come between the count of a call and
\* its being taken back.
LoadBound == \A n \in listed : load[n] <= reported[n] + Cardinality(Counted(n))

\* A node heard of within the heartbeat timeout is offered to the dispatcher, also if
\* it had been marked unhealthy before.
HeardIsHealthy == \A n \in listed : silence[n] = "heard" => n \in Healthy

\* The health check's callback closes the client of a node that is gone: a node which
\* registers again waits for the mutex, so that its connection is not the one closed.
ClosesOnlyGone == unlinked # NoNode => unlinked \notin listed

\* A node leaves the list by its own request or after the whole unhealthy timeout:
\* between the look at the clock and the removal no heartbeat can come.
KeepsTheLiving ==
    [][\A n \in listed \ listed' : silence[n] = "dead" \/ n \in leaving']_vars

\* A connection that nothing will close: its node is gone, and neither a Deregister call
\* nor the health check still has to close it.
Leaked(n) == n \in clients \ listed /\ n \notin leaving /\ n # unlinked

\* Every way a node is taken off the list closes its connection, whatever calls and
\* registrations come between, and what leaks is opened later: by a goroutine that goes on
\* with its copy of a node that has gone.
OnlyStaleCopiesLeak ==
    [][\A n \in Node : Leaked(n)' =>
         \/ Leaked(n)
         \/ n \notin listed /\ \E g \in Goroutine :
              pc[g] = "picked" /\ dest[g] = n /\ pc'[g] = "linked"]_vars

-----------------------------------------------------------------------------
(* The inductive invariant behind the properties above.                    *)

\* A goroutine knows its node from Pick to the end of the call.
CallsHaveNodes ==
    \A g \in Goroutine : pc[g] \in {"picked", "linked", "counted"} => dest[g] \in Node

\* While checkHealth holds the mutex, what it has decided to remove stays overdue.
ExpiredAreDead == expired \subseteq Overdue

\* No code sets a node to draining.
NoDraining == \A n \in listed : status[n] # "DRAINING"

PoolInv ==
    /\ TypeOK
    /\ CallsHaveNodes
    /\ ExpiredAreDead
    /\ NoDraining
    /\ HeardIsHealthy
    /\ ClosesOnlyGone
    /\ LoadBound
==============================================================================
