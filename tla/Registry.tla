------------------------------- MODULE Registry -------------------------------
(***************************************************************************)
(* internal/master/registry.go: the worker nodes the master knows, behind  *)
(* one mutex.  Clock readings are abstracted to how long a node has been   *)
(* silent, measured by the two timeouts of the health check.               *)
(***************************************************************************)
EXTENDS Integers

CONSTANT
    Node         \* identifiers of worker nodes

VARIABLES
    listed,      \* the keys of NodeRegistry.nodes
    status,      \* NodeInfo.Status of listed nodes
    silence,     \* time since NodeInfo.LastSeen of listed nodes
    load         \* NodeInfo.ActiveTasks of listed nodes

registryVars == <<listed, status, silence, load>>

NodeStatus == {"HEALTHY", "UNHEALTHY", "DRAINING"}

\* "late" is beyond heartbeatTimeout, "dead" beyond unhealthyTimeout.
Silence == {"heard", "late", "dead"}

RegistryTypeOK ==
    /\ listed \subseteq Node
    /\ status \in [Node -> NodeStatus]
    /\ silence \in [Node -> Silence]
    /\ load \in [Node -> Nat]

\* The entries of nodes that are not listed have no meaning and keep these values.
RegistryInit ==
    /\ listed = {}
    /\ status = [n \in Node |-> "HEALTHY"]
    /\ silence = [n \in Node |-> "heard"]
    /\ load = [n \in Node |-> 0]

Healthy == {n \in listed : status[n] = "HEALTHY"}

-----------------------------------------------------------------------------

Enter(n) ==
    /\ listed' = listed \cup {n}
    /\ status' = [status EXCEPT ![n] = "HEALTHY"]
    /\ silence' = [silence EXCEPT ![n] = "heard"]
    /\ load' = [load EXCEPT ![n] = 0]

Drop(n) ==
    /\ listed' = listed \ {n}
    /\ status' = [status EXCEPT ![n] = "HEALTHY"]
    /\ silence' = [silence EXCEPT ![n] = "heard"]
    /\ load' = [load EXCEPT ![n] = 0]

\* Mutant: an unhealthy node that is heard of again stays unhealthy.
RefreshKeepsStatus(n, active) ==
    /\ n \in listed
    /\ silence' = [silence EXCEPT ![n] = "heard"]
    /\ load' = [load EXCEPT ![n] = active]
    /\ UNCHANGED <<listed, status>>

\* A heartbeat of a listed node; one of any other is answered "unknown".
Refresh(n, active) ==
    /\ n \in listed
    /\ silence' = [silence EXCEPT ![n] = "heard"]
    /\ load' = [load EXCEPT ![n] = active]
    /\ status' = IF status[n] = "UNHEALTHY" THEN [status EXCEPT ![n] = "HEALTHY"] ELSE status
    /\ UNCHANGED listed

IncrementActiveTasks(n) ==
    /\ load' = IF n \in listed THEN [load EXCEPT ![n] = @ + 1] ELSE load
    /\ UNCHANGED <<listed, status, silence>>

\* Mutant: the count of a call that has ended is not taken back.
DecrementSkipped(n) == UNCHANGED registryVars

\* Mutant: the count has no floor.
DecrementBelowZero(n) ==
    /\ load' = IF n \in listed THEN [load EXCEPT ![n] = @ - 1] ELSE load
    /\ UNCHANGED <<listed, status, silence>>

DecrementActiveTasks(n) ==
    /\ load' = IF n \in listed /\ load[n] > 0 THEN [load EXCEPT ![n] = @ - 1] ELSE load
    /\ UNCHANGED <<listed, status, silence>>

\* The nodes the health check is to remove.
Overdue == {n \in listed : silence[n] = "dead"}

\* The first loop of checkHealth.
Sweep ==
    /\ status' = [n \in Node |->
                    IF n \in listed /\ silence[n] = "late" /\ status[n] = "HEALTHY"
                    THEN "UNHEALTHY" ELSE status[n]]
    /\ UNCHANGED <<listed, silence, load>>

\* Time passes without a heartbeat of n.
FallSilent(n) ==
    /\ n \in listed
    /\ silence[n] # "dead"
    /\ silence' = [silence EXCEPT ![n] = IF @ = "heard" THEN "late" ELSE "dead"]
    /\ UNCHANGED <<listed, status, load>>
==============================================================================
