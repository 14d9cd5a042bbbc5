-------------------------------- MODULE Scaler --------------------------------
(***************************************************************************)
(* internal/master/scaler.go with a Kubernetes client: EnsureCapacity,     *)
(* called by each dispatchTask, and ScaleDown, called by a ticker of       *)
(* internal/master/server.go.  Both hold one mutex over a read and a write *)
(* of the worker deployment.                                               *)
(*                                                                         *)
(* Around them: others write the replica count (deploy/k8s/worker-hpa.yaml *)
(* is one), pods follow it with a delay or not at all, and surpass it when *)
(* they are replaced: the old one's entry stays healthy until its          *)
(* heartbeats are missed.  Tasks come and go.  The API server refuses a    *)
(* write whose read is outdated.                                           *)
(***************************************************************************)
EXTENDS Balancer, FiniteSets, Functions

CONSTANTS
    Node,              \* workers there can be
    Goroutine,         \* dispatchTask goroutines at one time
    Ticker,            \* the goroutine that calls ScaleDown
    MinReplicas, MaxReplicas, TasksPerWorker, ScaleUpThreshold,
    Foreign,           \* replica counts others set
    MaxPending,        \* bound: tasks in the channel
    MaxRunning         \* bound: tasks the nodes have together; the code has none

ASSUME ScalerAssumption ==
    /\ Ticker \notin Goroutine
    /\ NodeTasks \in Nat
    /\ MinReplicas \in Nat /\ MaxReplicas \in Nat
    /\ MinReplicas <= MaxReplicas
    /\ TasksPerWorker \in Nat \ {0}
    /\ ScaleUpThreshold \in Nat
    /\ Foreign \subseteq Nat
    /\ MaxPending \in Nat
    /\ MaxRunning \in Nat
    /\ IsFiniteSet(Node)

VARIABLES
    replicas,      \* spec.replicas of the deployment
    healthy,       \* the nodes GetHealthyNodes returns
    surged,        \* history: more than MaxReplicas + 1 nodes have been healthy at one time
    active,        \* NodeInfo.ActiveTasks
    pending,       \* tasks in the scheduler's channel
    cooling,       \* the last scale-up is less than CooldownPeriod ago
    pc,            \* where each caller is
    number,        \* the pending count it has read; then how many replicas to add or set
    seen,          \* the replica count it has read
    outdated,      \* callers whose copy of the deployment is not the latest
    calm           \* no failures and no other writers from now on

callVars == <<pc, number, seen>>
clusterVars == <<healthy, surged, active, pending>>
vars == <<replicas, clusterVars, cooling, callVars, outdated, calm>>

Caller == Goroutine \cup {Ticker}

\* The type invariant of the scaler and its surroundings.
TypeOK ==
    /\ replicas \in Nat
    /\ healthy \subseteq Node
    /\ surged \in BOOLEAN
    /\ active \in [Node -> Nat]
    /\ pending \in 0..MaxPending
    /\ cooling \in BOOLEAN
    /\ pc \in [Caller -> {"idle", "waiting", "get", "update"}]
    /\ number \in [Caller -> Nat]
    /\ seen \in [Caller -> Nat]
    /\ outdated \subseteq Caller
    /\ calm \in BOOLEAN

Init ==
    /\ replicas = MinReplicas
    /\ healthy = {}
    /\ surged = FALSE
    /\ active = [n \in Node |-> 0]
    /\ pending = 0
    /\ cooling = FALSE
    /\ pc = [c \in Caller |-> "idle"]
    /\ number = [c \in Caller |-> 0]
    /\ seen = [c \in Caller |-> 0]
    /\ outdated = {}
    /\ calm = FALSE

Lesser(a, b) == IF a < b THEN a ELSE b

Greater(a, b) == IF a > b THEN a ELSE b

-----------------------------------------------------------------------------
(* EnsureCapacity.                                                         *)

\* AutoScaler.mu is free.
Unlocked == \A c \in Caller : pc[c] \in {"idle", "waiting"}

CurrentReplicas == Cardinality(healthy)

\* Only the sum counts: a node above its limit hides another's room, and a sum below
\* zero is not "no capacity".
TotalCapacity == SumFunctionOnSet([n \in Node |-> NodeTasks - active[n]], healthy)

NoCapacity(p) == TotalCapacity = 0 /\ p > 0

\* Mutant: a backlog of less than a worker's share needs no worker.
NeededRoundedDown(p) == Lesser(p \div TasksPerWorker, MaxReplicas - CurrentReplicas)

Needed(p) == Lesser((p \div TasksPerWorker) + 1, MaxReplicas - CurrentReplicas)

BackingUp(p) == p > CurrentReplicas * ScaleUpThreshold /\ CurrentReplicas < MaxReplicas

\* Replicas to add for p pending tasks: the first rule that applies.
Shortage(p) ==
    IF NoCapacity(p) /\ Needed(p) > 0 THEN Needed(p)
    ELSE IF BackingUp(p) THEN 1
    ELSE 0

\* The call returns, and its numbers are forgotten.
Return(c) ==
    /\ pc' = [pc EXCEPT ![c] = "idle"]
    /\ number' = [number EXCEPT ![c] = 0]
    /\ seen' = [seen EXCEPT ![c] = 0]
    /\ UNCHANGED <<clusterVars, calm>>

\* Mutant: the caller's own task, which has left the channel, is taken off.
ReadPendingOthers(g) ==
    /\ pc[g] = "idle"
    /\ pc' = [pc EXCEPT ![g] = "waiting"]
    /\ number' = [number EXCEPT ![g] = pending - 1]
    /\ UNCHANGED <<replicas, clusterVars, cooling, seen, outdated, calm>>

\* dispatchTask reads the count before it gets the mutex, and after its own task has
\* left the channel.
ReadPending(g) ==
    /\ pc[g] = "idle"
    /\ pc' = [pc EXCEPT ![g] = "waiting"]
    /\ number' = [number EXCEPT ![g] = pending]
    /\ UNCHANGED <<replicas, clusterVars, cooling, seen, outdated, calm>>

\* Mutant: the mutex is left out.
EnsureCapacityUnlocked(g) ==
    /\ pc[g] = "waiting"
    /\ ~cooling /\ Shortage(number[g]) > 0
    /\ pc' = [pc EXCEPT ![g] = "get"]
    /\ number' = [number EXCEPT ![g] = Shortage(number[g])]
    /\ UNCHANGED <<replicas, clusterVars, cooling, seen, outdated, calm>>

EnsureCapacity(g) ==
    /\ Unlocked
    /\ pc[g] = "waiting"
    /\ ~cooling /\ Shortage(number[g]) > 0
    /\ pc' = [pc EXCEPT ![g] = "get"]
    /\ number' = [number EXCEPT ![g] = Shortage(number[g])]
    /\ UNCHANGED <<replicas, clusterVars, cooling, seen, outdated, calm>>

EnoughCapacity(g) ==
    /\ Unlocked
    /\ pc[g] = "waiting"
    /\ cooling \/ Shortage(number[g]) = 0
    /\ Return(g)
    /\ UNCHANGED <<replicas, cooling, outdated>>

-----------------------------------------------------------------------------
(* ScaleDown.                                                              *)

Idle == {n \in healthy : active[n] = 0}

\* More than half of the healthy nodes are idle: their number less one is to be the
\* replica count, whatever that is now.
ScaleDown ==
    /\ Unlocked
    /\ pc[Ticker] = "idle"
    /\ CurrentReplicas > MinReplicas
    /\ Cardinality(Idle) > CurrentReplicas \div 2
    /\ pc' = [pc EXCEPT ![Ticker] = "get"]
    /\ number' = [number EXCEPT ![Ticker] = Greater(CurrentReplicas - 1, MinReplicas)]
    /\ UNCHANGED <<replicas, clusterVars, cooling, seen, outdated, calm>>

-----------------------------------------------------------------------------
(* scaleUp and setReplicas.                                                *)

GetDeployment(c) ==
    /\ pc[c] = "get"
    /\ pc' = [pc EXCEPT ![c] = "update"]
    /\ seen' = [seen EXCEPT ![c] = replicas]
    /\ outdated' = outdated \ {c}
    /\ UNCHANGED <<replicas, clusterVars, cooling, number, calm>>

\* Mutant: the sum is not capped.
NewReplicasUncapped(c) == IF c = Ticker THEN number[c] ELSE seen[c] + number[c]

NewReplicas(c) ==
    IF c = Ticker THEN number[c] ELSE Lesser(seen[c] + number[c], MaxReplicas)

Apply(c) ==
    /\ pc[c] = "update"
    /\ c \notin outdated
    /\ replicas' = NewReplicas(c)
    /\ outdated' = outdated \cup {d \in Caller \ {c} : pc[d] = "update"}
    /\ Return(c)

\* Only a scale-up starts the cooldown.
UpdateDeployment(c) ==
    /\ Apply(c)
    /\ cooling' = (cooling \/ c # Ticker)

\* The write has happened, the answer is lost: no cooldown.
UpdateUnanswered(c) ==
    /\ ~calm
    /\ Apply(c)
    /\ UNCHANGED cooling

CallFails(c) ==
    /\ \/ ~calm /\ pc[c] \in {"get", "update"}
       \/ pc[c] = "update" /\ c \in outdated
    /\ Return(c)
    /\ outdated' = outdated \ {c}
    /\ UNCHANGED <<replicas, cooling>>

-----------------------------------------------------------------------------
(* The surroundings.                                                       *)

CooldownOver ==
    /\ cooling
    /\ cooling' = FALSE
    /\ UNCHANGED <<replicas, clusterVars, callVars, outdated, calm>>

\* Another writer of the deployment, or only of its status: the version changes.
ForeignWrite ==
    /\ ~calm
    /\ replicas' \in Foreign \cup {replicas}
    /\ outdated' = {c \in Caller : pc[c] = "update"}
    /\ UNCHANGED <<clusterVars, cooling, callVars, calm>>

\* Register asks for no replica count, so that any number of pods can be on the list.
NodeJoins(n) ==
    /\ n \notin healthy
    /\ ~calm \/ CurrentReplicas < replicas
    /\ healthy' = healthy \cup {n}
    /\ surged' = (surged \/ CurrentReplicas' > MaxReplicas + 1)
    /\ active' = [active EXCEPT ![n] = 0]
    /\ UNCHANGED <<replicas, pending, cooling, callVars, outdated, calm>>

NodeLeaves(n) ==
    /\ n \in healthy
    /\ ~calm \/ CurrentReplicas > replicas
    /\ healthy' = healthy \ {n}
    /\ active' = [active EXCEPT ![n] = 0]
    /\ UNCHANGED <<replicas, surged, pending, cooling, callVars, outdated, calm>>

\* The dispatcher looks at no limit: a node can have more than NodeTasks.
TaskStarts(n) ==
    /\ n \in healthy
    /\ SumFunction(active) < MaxRunning
    /\ active' = [active EXCEPT ![n] = @ + 1]
    /\ UNCHANGED <<replicas, healthy, surged, pending, cooling, callVars, outdated, calm>>

TaskEnds(n) ==
    /\ active[n] > 0
    /\ active' = [active EXCEPT ![n] = @ - 1]
    /\ UNCHANGED <<replicas, healthy, surged, pending, cooling, callVars, outdated, calm>>

Backlog ==
    /\ pending' \in {pending - 1, pending + 1} \cap 0..MaxPending
    /\ UNCHANGED <<replicas, healthy, surged, active, cooling, callVars, outdated, calm>>

Calm ==
    /\ ~calm
    /\ calm' = TRUE
    /\ UNCHANGED <<replicas, clusterVars, cooling, callVars, outdated>>

-----------------------------------------------------------------------------

GoroutineStep(g) == ReadPending(g) \/ EnsureCapacity(g) \/ EnoughCapacity(g)

CallStep(c) == GetDeployment(c) \/ UpdateDeployment(c) \/ UpdateUnanswered(c) \/ CallFails(c)

NodeStep(n) == NodeJoins(n) \/ NodeLeaves(n) \/ TaskStarts(n) \/ TaskEnds(n)

Next ==
    \/ \E g \in Goroutine : GoroutineStep(g)
    \/ ScaleDown
    \/ \E c \in Caller : CallStep(c)
    \/ CooldownOver
    \/ ForeignWrite
    \/ \E n \in Node : NodeStep(n)
    \/ Backlog
    \/ Calm

Spec == Init /\ [][Next]_vars

\* dispatchTask is called again and again while tasks are in the channel, and the mutex of
\* Go lets one of its callers in at last; calls return and time passes.  Surplus pods end;
\* new ones need not come up.
Fairness ==
    /\ SF_vars(\E g \in Goroutine : GoroutineStep(g))
    /\ WF_vars(\E c \in Caller : CallStep(c))
    /\ WF_vars(CooldownOver)
    /\ WF_vars(\E n \in Node : NodeLeaves(n) /\ CurrentReplicas > replicas)

FairSpec == Spec /\ Fairness

-----------------------------------------------------------------------------

\* While others keep the replica count within the scaler's limits it never falls below the
\* minimum, and exceeds the maximum only after two surplus nodes: additions are decided by
\* the healthy nodes and made to the replicas, which may be many more, and capped;
\* removals write the number of healthy nodes less one, and are not.
InRange ==
    Foreign \subseteq MinReplicas..MaxReplicas =>
        /\ replicas >= MinReplicas
        /\ replicas > MaxReplicas => surged

\* A scale-up is carried out only outside of the cooldown that another one's success
\* starts: however many goroutines ask at once, one of them adds replicas.
OneScaleUpPerCooldown ==
    \A g \in Goroutine : pc[g] \in {"get", "update"} => ~cooling

\* A scale-up adds what it has decided to the replicas there are when it writes, or leaves
\* them alone, whoever has written since it read them; and a cooldown starts only when it
\* has added something.
ScaleUpsAdd ==
    [][\A g \in Goroutine : pc[g] = "update" /\ pc'[g] = "idle" =>
         \/ replicas' = Lesser(replicas + number[g], MaxReplicas)
         \/ replicas' = replicas /\ ~cooling']_vars

\* Every node has as many tasks as it may have, and there are more.
Starved == calm /\ pending > 0 /\ \A n \in healthy : active[n] = NodeTasks

\* Tasks that wait while no node has room get all the replicas allowed in the end, over
\* cooldowns, failed calls and the scale-downs before.
BacklogGrows == <>[]Starved => <>[](replicas >= MaxReplicas)

\* Any list of the healthy nodes with their loads.
Lists == {[i \in 1..CurrentReplicas |-> [id |-> f[i], activeTasks |-> active[f[i]]]] :
            f \in {f \in [1..CurrentReplicas -> healthy] : Range(f) = healthy}}

\* In every order of the nodes, the least loaded one has no more than any other, and as
\* long as the capacities add up to something the weighted choice finds a node with room
\* and never needs its last fallback, wherever the counter is, also next to nodes above
\* their limit.
BalancersAvoidFull == healthy # {} => \A s \in Lists :
    /\ LET least == LeastConnections(s) IN
         \A i \in DOMAIN s : least.activeTasks <= s[i].activeTasks
    /\ TotalWeight(s) > 0 =>
         \A counter \in 0..(TotalWeight(s) - 1) :
           Hits(counter, s) # {} /\ AvailableCapacity(Weighted(counter, s)) > 0

-----------------------------------------------------------------------------
(* The inductive invariant behind InRange, OneScaleUpPerCooldown and       *)
(* ScaleUpsAdd.                                                            *)

Inside == {c \in Caller : pc[c] \in {"get", "update"}}

\* AutoScaler.mu is held by at most one caller.
OneInside == \A c, d \in Inside : c = d

\* Not below the minimum, and above the maximum only after a surge.
Ranged(count) == count >= MinReplicas /\ (count > MaxReplicas => surged)

\* The deployment, the workers that run, what callers have read of the one and decided
\* from the other.
AllInRange == Foreign \subseteq MinReplicas..MaxReplicas =>
    /\ Ranged(replicas)
    /\ CurrentReplicas > MaxReplicas + 1 => surged
    /\ \A c \in Caller : pc[c] = "update" => Ranged(seen[c])
    /\ Ticker \in Inside => Ranged(number[Ticker])

\* A copy of the deployment that the API server would accept shows its replica count.
CopiesAreFresh == \A c \in Caller :
    pc[c] = "update" /\ c \notin outdated => seen[c] = replicas

ScalerInv ==
    /\ TypeOK
    /\ CopiesAreFresh
    /\ OneInside
    /\ OneScaleUpPerCooldown
    /\ AllInRange
==============================================================================
