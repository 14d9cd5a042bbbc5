------------------------------- MODULE Balancer -------------------------------
(***************************************************************************)
(* internal/master/balancer.go: Select of the balancers, as operators on   *)
(* the list of nodes they are given.  GetHealthyNodes builds that list     *)
(* from a map, so its order changes from call to call.  A counter is the   *)
(* value of the call, after the atomic increment; only round robin is ever *)
(* instantiated, by NewServer.                                             *)
(***************************************************************************)
EXTENDS Integers, Sequences

CONSTANT
    NodeTasks    \* NodeInfo.MaxTasks, the same for all workers

\* What Select is given of a node: its identifier and its count of tasks.
Listed(nodes) == [id : nodes, activeTasks : Nat]

AvailableCapacity(n) == NodeTasks - n.activeTasks

\* Go's lists begin at 0.
RoundRobin(counter, nodes) == nodes[(counter % Len(nodes)) + 1]

Random(counter, nodes) == RoundRobin(counter, nodes)

\* The first of the least loaded.
LeastConnections(nodes) ==
    nodes[CHOOSE i \in DOMAIN nodes : \A j \in DOMAIN nodes :
            /\ nodes[i].activeTasks <= nodes[j].activeTasks
            /\ nodes[i].activeTasks = nodes[j].activeTasks => i <= j]

\* The capacity of the first i nodes; one above its limit takes away from it.
CapacityTo(nodes) ==
    LET sum[i \in 0..Len(nodes)] ==
          IF i = 0 THEN 0 ELSE sum[i - 1] + AvailableCapacity(nodes[i])
    IN  sum

TotalWeight(nodes) == CapacityTo(nodes)[Len(nodes)]

\* The total is converted to an unsigned number: a negative one exceeds every counter.
Target(counter, nodes) ==
    IF TotalWeight(nodes) > 0 THEN counter % TotalWeight(nodes) ELSE counter

\* Mutant: the loop returns when nothing is left rather than below that.
HitsAtZero(counter, nodes) ==
    {i \in DOMAIN nodes : Target(counter, nodes) <= CapacityTo(nodes)[i]}

\* The positions at which the loop over the nodes would return.
Hits(counter, nodes) ==
    LET target == Target(counter, nodes)
        room == CapacityTo(nodes)
    IN  {i \in DOMAIN nodes : target < room[i]}

\* The first hit; the fallbacks are round robin over full nodes, and the first node.
Weighted(counter, nodes) ==
    LET hits == Hits(counter, nodes) IN
    IF TotalWeight(nodes) = 0 THEN RoundRobin(counter, nodes)
    ELSE IF hits = {} THEN nodes[1]
    ELSE nodes[CHOOSE i \in hits : \A j \in hits : i <= j]
==============================================================================
