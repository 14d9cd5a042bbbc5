--------------------------- MODULE MasterInvariant ---------------------------
(***************************************************************************)
(* The inductive invariant behind the safety properties of Master: what is *)
(* true of a task before its Submit call has decided, while it waits in    *)
(* the channel, at each point of dispatchTask, and when nobody owns it.    *)
(***************************************************************************)
EXTENDS Master

\* A goroutine has a task exactly while it runs dispatchTask.
BusyHoldsTask == \A g \in Goroutine : held[g] = NoJob <=> pc[g] = "idle"

TypeInv == TypeOK /\ BusyHoldsTask

\* Not accepted yet, or never.
Untouched(j) ==
    /\ tasks[j].status \in {"CREATED", "PENDING"}
    /\ tasks[j].worker = NoNode
    /\ sent[j] = 0
    /\ results[j] = NoResult

\* Due for a dispatch: every request sent so far was followed by a requeue, and one
\* more may be sent.
Waiting(j) ==
    /\ tasks[j].status = "PENDING"
    /\ sent[j] <= tasks[j].retries
    /\ sent[j] <= MaxRetries
    /\ results[j] = NoResult

RunningOn(j, n) == tasks[j].status = "RUNNING" /\ tasks[j].worker = n

FailureShown(j) == jobs[j] \in {"FAILED", "CANCELLED"}

\* Accepted, and in nobody's hands any more: dropped by a requeue that met a full
\* channel, given up after a failure, or complete.
Ended(j) ==
    \/ tasks[j].status = "PENDING" /\ results[j] = NoResult
    \/ tasks[j].status = "FAILED" /\ results[j] = NoResult /\ FailureShown(j)
    \/ tasks[j].status = "COMPLETED" /\ results[j] # NoResult

\* The statuses the store ever has for a job; RUNNING is known to the scheduler alone.
Shown == {"PENDING", "COMPLETED", "FAILED", "CANCELLED"}

JobStage(j) ==
    /\ j \in known <=> submit[j] \in {"inserted", "undo", "accepted"}
    /\ submit[j] = "none" <=> jobs[j] = "ABSENT"
    /\ jobs[j] \in Shown \cup {"ABSENT"}
    /\ submit[j] # "accepted" => Untouched(j)
    /\ submit[j] = "inserted" => tasks[j].status = "PENDING"
    /\ Queued(j) => Waiting(j)
    /\ submit[j] = "accepted" /\ ~Queued(j) /\ ~Held(j) => Ended(j)
    /\ tasks[j].status = "PENDING" => tasks[j].worker = NoNode
    /\ sent[j] <= tasks[j].retries + 1
    /\ sent[j] <= MaxRetries + 1
    /\ results[j] # NoResult => jobs[j] \in {Verdict(results[j]), "CANCELLED"}
    /\ jobs[j] = "COMPLETED" => results[j] = "SUCCESS"

\* What goroutine g knows of its task j at each point of dispatchTask.
StageOf(g, j) ==
    /\ pc[g] \in {"select", "run", "push"} => Waiting(j)
    /\ pc[g] = "rpc" => RunningOn(j, dest[g])
    /\ pc[g] = "fail" => tasks[j].status = "PENDING" \/ RunningOn(j, dest[g])
    /\ pc[g] = "failjob" => tasks[j].status = "FAILED"
    /\ pc[g] = "retry" => tasks[j].status = "FAILED" /\ FailureShown(j)
    /\ pc[g] = "requeue" => tasks[j].status \in {"PENDING", "FAILED"} /\ sent[j] <= MaxRetries
    /\ pc[g] = "save" => RunningOn(j, dest[g]) /\ reply[g] # NoResult
    /\ pc[g] \in {"rpc", "save"} => sent[j] > 0
    /\ pc[g] = "complete" => RunningOn(j, dest[g])
    /\ results[j] # NoResult <=> pc[g] = "complete"

Stages ==
    /\ \A j \in Job : JobStage(j)
    /\ \A g \in Goroutine, j \in Job : held[g] = j => StageOf(g, j)

IndInv == TypeInv /\ SingleOwner /\ Stages
==============================================================================
