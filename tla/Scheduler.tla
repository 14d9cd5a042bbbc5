------------------------------ MODULE Scheduler ------------------------------
(***************************************************************************)
(* internal/master/scheduler.go: a map of tasks behind a mutex and a       *)
(* buffered Go channel of task pointers.  The two are not updated          *)
(* together: Enqueue and Requeue first write the task under the lock and   *)
(* then try a non-blocking send, so each is split into the steps another   *)
(* goroutine can get between.                                              *)
(***************************************************************************)
EXTENDS TaskTypes, Sequences

CONSTANT
    MaxQueue     \* capacity of the channel

ASSUME SchedulerAssumption == MaxQueue \in Nat \ {0}

VARIABLES
    pending,     \* the channel Scheduler.pending, oldest first
    tasks,       \* the Task objects, reached through the map and the channel
    known        \* the keys of the map Scheduler.tasks

schedulerVars == <<pending, tasks, known>>

SchedulerTypeOK ==
    /\ pending \in Seq(Job)
    /\ Len(pending) <= MaxQueue
    /\ tasks \in [Job -> Task]
    /\ known \subseteq Job

SchedulerInit ==
    /\ pending = <<>>
    /\ tasks = [j \in Job |-> NewTask]
    /\ known = {}

Queued(j) == \E i \in 1..Len(pending) : pending[i] = j

QueuedOnce == \A i, k \in 1..Len(pending) : pending[i] = pending[k] => i = k

-----------------------------------------------------------------------------
(* Enqueue: register under the lock, send, and take the registration back  *)
(* under the lock when the channel is full.                                *)

EnqueueRegister(j) ==
    /\ j \notin known
    /\ tasks' = [tasks EXCEPT ![j] = [tasks[j] EXCEPT !.status = "PENDING"]]
    /\ known' = known \cup {j}
    /\ UNCHANGED pending

QueueFull == Len(pending) >= MaxQueue

\* Mutant: the queue grows past its limit.
SendAlways(j) ==
    /\ pending' = Append(pending, j)
    /\ UNCHANGED <<tasks, known>>

\* The send that Enqueue and Requeue share.
Send(j) ==
    /\ ~QueueFull
    /\ pending' = Append(pending, j)
    /\ UNCHANGED <<tasks, known>>

EnqueueUndo(j) ==
    /\ known' = known \ {j}
    /\ UNCHANGED <<pending, tasks>>

\* The receive of Dequeue; the caller gets Head(pending).
Receive ==
    /\ pending # <<>>
    /\ pending' = Tail(pending)
    /\ UNCHANGED <<tasks, known>>

-----------------------------------------------------------------------------
(* The Mark operations return ErrTaskNotFound, which every caller drops,   *)
(* when the identifier is not in the map.                                  *)

Mark(j, task) ==
    /\ tasks' = IF j \in known THEN [tasks EXCEPT ![j] = task] ELSE tasks
    /\ UNCHANGED <<pending, known>>

MarkRunning(j, n) == Mark(j, [tasks[j] EXCEPT !.status = "RUNNING", !.worker = n])

MarkComplete(j) == Mark(j, [tasks[j] EXCEPT !.status = "COMPLETED", !.finished = TRUE])

MarkFailed(j) == Mark(j, [tasks[j] EXCEPT !.status = "FAILED", !.finished = TRUE])

\* Mutant: the assignment to the worker outlives the attempt.
RequeueResetKeepsWorker(j) ==
    /\ tasks' = [tasks EXCEPT ![j] =
                    [tasks[j] EXCEPT !.retries = @ + 1, !.status = "PENDING"]]
    /\ UNCHANGED <<pending, known>>

\* The part of Requeue under the lock.  It works on the pointer it is given,
\* whether or not the map still knows it, and leaves CompletedAt alone.
RequeueReset(j) ==
    /\ tasks' = [tasks EXCEPT ![j] =
                    [tasks[j] EXCEPT !.retries = @ + 1, !.status = "PENDING",
                                     !.worker = NoNode]]
    /\ UNCHANGED <<pending, known>>
==============================================================================
