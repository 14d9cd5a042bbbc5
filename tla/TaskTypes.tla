------------------------------ MODULE TaskTypes ------------------------------
(***************************************************************************)
(* The data shared by the master's components: pkg/types/task.go and       *)
(* pkg/types/result.go.  A task keeps the fields the control flow reads or *)
(* a property talks about; payload, priority, timestamps and metadata are  *)
(* left out.  CompletedAt is kept as the boolean "finished" (set or nil).  *)
(***************************************************************************)
EXTENDS Naturals

CONSTANTS
    Job,         \* identifiers of jobs and of their tasks: fresh UUIDs, never reused
    Node,        \* identifiers of worker nodes
    NoNode,      \* the empty WorkerID
    MaxRetries   \* Task.MaxRetries, the literal of NewTask

ASSUME TaskTypesAssumption ==
    /\ NoNode \notin Node
    /\ MaxRetries \in Nat

TaskStatus ==
    {"CREATED", "PENDING", "RUNNING", "COMPLETED", "FAILED", "CANCELLED", "TIMEOUT"}

\* What an execution may come back as, in a result and on the wire.
ResultStatus == {"SUCCESS", "FAILURE", "TIMEOUT", "CANCELLED"}

IsSuccess(result) == result = "SUCCESS"

Task == [status : TaskStatus, retries : Nat, worker : Node \cup {NoNode}, finished : BOOLEAN]

NewTask == [status |-> "CREATED", retries |-> 0, worker |-> NoNode, finished |-> FALSE]

\* Mutant: one attempt too many.
CanRetryOneMore(task) == task.retries <= MaxRetries /\ task.status = "FAILED"

CanRetry(task) == task.retries < MaxRetries /\ task.status = "FAILED"
==============================================================================
