-------------------------------- MODULE Master --------------------------------
(***************************************************************************)
(* The master's life of a job: the Submit and Cancel handlers of           *)
(* internal/master/server.go and the dispatcher of                         *)
(* internal/master/dispatcher.go, over the Scheduler and the Store.        *)
(*                                                                         *)
(* Handlers, the dispatch loop and one goroutine per dequeued task run     *)
(* concurrently; an action is one critical section, one channel operation  *)
(* or one remote call.  The node registry appears only as the set of nodes *)
(* GetHealthyNodes returns, which changes at any time.                     *)
(***************************************************************************)
EXTENDS Store, Scheduler, FiniteSets

CONSTANTS
    Goroutine,       \* goroutines that can run dispatchTask at the same time
    Canceller,       \* Cancel calls that can be in progress at the same time
    NoJob,           \* no task held
    ExecuteReply,    \* the statuses an Execute call may return
    RetriesBound     \* bound of the model: requeues for want of a node stop here

ASSUME MasterAssumption ==
    /\ NoJob \notin Job
    /\ ExecuteReply \subseteq ResultStatus
    /\ RetriesBound \in Nat

\* Identifiers are 128-bit UUIDs.
ASSUME JobsAssumption == IsFiniteSet(Job)

VARIABLES
    healthy,   \* the nodes GetHealthyNodes returns now
    ctxDone,   \* the server's context has been cancelled
    loop,      \* Dispatcher.Run: "check" (outer select), "receive" (Dequeue), "stopped"
    submit,    \* where the Submit call of each job is, and what it answered
    cancel,    \* the job each Cancel call has read as cancellable
    pc,        \* where each dispatchTask is
    held,      \* its argument task
    dest,      \* its node
    reply,     \* the result it got from sendToWorker
    sent       \* history: Execute requests issued for each task

handlerVars == <<submit, cancel>>
goroutineVars == <<pc, held, dest, reply>>
vars == <<storeVars, schedulerVars, handlerVars, goroutineVars, healthy, ctxDone, loop, sent>>

SubmitState == {"none", "saved", "inserted", "undo", "accepted", "rejected"}

DispatchState == {"idle", "select", "run", "rpc", "fail", "failjob", "retry",
                  "requeue", "push", "save", "complete"}

\* The type invariant of the master and its two components.
TypeOK ==
    /\ StoreTypeOK
    /\ SchedulerTypeOK
    /\ healthy \subseteq Node
    /\ ctxDone \in BOOLEAN
    /\ loop \in {"check", "receive", "stopped"}
    /\ submit \in [Job -> SubmitState]
    /\ cancel \in [Canceller -> Job \cup {NoJob}]
    /\ pc \in [Goroutine -> DispatchState]
    /\ held \in [Goroutine -> Job \cup {NoJob}]
    /\ dest \in [Goroutine -> Node \cup {NoNode}]
    /\ reply \in [Goroutine -> ResultStatus \cup {NoResult}]
    /\ sent \in [Job -> Nat]

Init ==
    /\ StoreInit
    /\ SchedulerInit
    /\ healthy = {}
    /\ ctxDone = FALSE
    /\ loop = "check"
    /\ submit = [j \in Job |-> "none"]
    /\ cancel = [c \in Canceller |-> NoJob]
    /\ pc = [g \in Goroutine |-> "idle"]
    /\ held = [g \in Goroutine |-> NoJob]
    /\ dest = [g \in Goroutine |-> NoNode]
    /\ reply = [g \in Goroutine |-> NoResult]
    /\ sent = [j \in Job |-> 0]

-----------------------------------------------------------------------------
(* The environment: nodes join, die and come back; the process is asked to *)
(* stop.                                                                   *)

\* A node registers, or an unhealthy one is heard of again.
NodeUp(n) ==
    /\ n \notin healthy
    /\ healthy' = healthy \cup {n}
    /\ UNCHANGED <<storeVars, schedulerVars, handlerVars, goroutineVars, ctxDone, loop, sent>>

\* The health check or a deregistration takes a node away, with or without notice.
NodeDown(n) ==
    /\ n \in healthy
    /\ healthy' = healthy \ {n}
    /\ UNCHANGED <<storeVars, schedulerVars, handlerVars, goroutineVars, ctxDone, loop, sent>>

Shutdown ==
    /\ ~ctxDone
    /\ ctxDone' = TRUE
    /\ UNCHANGED <<storeVars, schedulerVars, handlerVars, goroutineVars, healthy, loop, sent>>

-----------------------------------------------------------------------------
(* Server.Submit: the job is visible in the store before the scheduler has *)
(* accepted its task, and stays there when the scheduler refuses it.       *)

SubmitStep(j, from, to) ==
    /\ submit[j] = from
    /\ submit' = [submit EXCEPT ![j] = to]
    /\ UNCHANGED <<cancel, goroutineVars, healthy, ctxDone, loop, sent>>

Submit(j) ==
    /\ SubmitStep(j, "none", "saved")
    /\ SaveJob(j)
    /\ UNCHANGED schedulerVars

SubmitInsert(j) ==
    /\ SubmitStep(j, "saved", "inserted")
    /\ EnqueueRegister(j)
    /\ UNCHANGED storeVars

\* Mutant: the case of a successful send falls into the undo as well.
SubmitSendThenUndo(j) ==
    /\ SubmitStep(j, "inserted", "undo")
    /\ Send(j)
    /\ UNCHANGED storeVars

SubmitSend(j) ==
    /\ SubmitStep(j, "inserted", "accepted")
    /\ Send(j)
    /\ UNCHANGED storeVars

SubmitFull(j) ==
    /\ SubmitStep(j, "inserted", "undo")
    /\ QueueFull
    /\ UNCHANGED <<storeVars, schedulerVars>>

SubmitUndo(j) ==
    /\ SubmitStep(j, "undo", "rejected")
    /\ EnqueueUndo(j)
    /\ UNCHANGED storeVars

-----------------------------------------------------------------------------
(* Server.Cancel: the status is read under one lock and written under      *)
(* another; the scheduler is not told.  A call that finds any other status *)
(* answers "cannot cancel" and changes nothing.                            *)

Cancellable(status) == status \in {"PENDING", "RUNNING"}

CancelRead(c, j) ==
    /\ cancel[c] = NoJob
    /\ Cancellable(jobs[j])
    /\ cancel' = [cancel EXCEPT ![c] = j]
    /\ UNCHANGED <<storeVars, schedulerVars, submit, goroutineVars,
                   healthy, ctxDone, loop, sent>>

CancelWrite(c) ==
    /\ cancel[c] # NoJob
    /\ UpdateJobStatus(cancel[c], "CANCELLED")
    /\ cancel' = [cancel EXCEPT ![c] = NoJob]
    /\ UNCHANGED <<schedulerVars, submit, goroutineVars, healthy, ctxDone, loop, sent>>

-----------------------------------------------------------------------------
(* Dispatcher.Run.  Both selects are free to take either case when the     *)
(* context is done and a task is waiting.                                  *)

LoopReceive ==
    /\ loop = "check"
    /\ ~ctxDone
    /\ loop' = "receive"
    /\ UNCHANGED <<storeVars, schedulerVars, handlerVars, goroutineVars, healthy, ctxDone, sent>>

LoopStop ==
    /\ loop = "check"
    /\ ctxDone
    /\ loop' = "stopped"
    /\ UNCHANGED <<storeVars, schedulerVars, handlerVars, goroutineVars, healthy, ctxDone, sent>>

\* Mutant: the loop ends after its first task.
DequeueOnce(g) ==
    /\ loop = "receive"
    /\ pc[g] = "idle"
    /\ Receive
    /\ pc' = [pc EXCEPT ![g] = "select"]
    /\ held' = [held EXCEPT ![g] = Head(pending)]
    /\ loop' = "stopped"
    /\ UNCHANGED <<storeVars, handlerVars, dest, reply, healthy, ctxDone, sent>>

\* Dequeue returns a task and a new goroutine, g, is started for it.
Dequeue(g) ==
    /\ loop = "receive"
    /\ pc[g] = "idle"
    /\ Receive
    /\ pc' = [pc EXCEPT ![g] = "select"]
    /\ held' = [held EXCEPT ![g] = Head(pending)]
    /\ loop' = "check"
    /\ UNCHANGED <<storeVars, handlerVars, dest, reply, healthy, ctxDone, sent>>

\* Mutant: Dequeue's error is answered by calling Dequeue again.
DequeueAbortedAgain ==
    /\ loop = "receive"
    /\ ctxDone
    /\ UNCHANGED vars

\* Dequeue returns the context's error and the loop goes round.
DequeueAborted ==
    /\ loop = "receive"
    /\ ctxDone
    /\ loop' = "check"
    /\ UNCHANGED <<storeVars, schedulerVars, handlerVars, goroutineVars, healthy, ctxDone, sent>>

-----------------------------------------------------------------------------
(* dispatchTask and sendToWorker, run by goroutine g.  No lock is held     *)
(* across two of these steps.                                              *)

Transition(g, from, to) ==
    /\ pc[g] = from
    /\ pc' = [pc EXCEPT ![g] = to]

Continue(g, from, to) ==
    /\ Transition(g, from, to)
    /\ UNCHANGED <<held, dest, reply>>

\* dispatchTask returns.
Return(g, from) ==
    /\ Transition(g, from, "idle")
    /\ held' = [held EXCEPT ![g] = NoJob]
    /\ dest' = [dest EXCEPT ![g] = NoNode]
    /\ reply' = [reply EXCEPT ![g] = NoResult]

\* What a step of dispatchTask never changes.
Elsewhere == UNCHANGED <<handlerVars, healthy, ctxDone, loop>>

\* The list of healthy nodes is a copy: n may be gone when the goroutine goes on.
SelectNode(g, n) ==
    /\ Transition(g, "select", "run")
    /\ n \in healthy
    /\ dest' = [dest EXCEPT ![g] = n]
    /\ Elsewhere
    /\ UNCHANGED <<storeVars, schedulerVars, held, reply, sent>>

\* Mutant: for want of a node the task is dropped.
NoHealthyNodesDrops(g) ==
    /\ Return(g, "select")
    /\ healthy = {}
    /\ Elsewhere
    /\ UNCHANGED <<storeVars, schedulerVars, sent>>

\* No node: sleep retryDelay, then requeue.  RetriesBound keeps the model finite.
NoHealthyNodes(g) ==
    /\ Continue(g, "select", "requeue")
    /\ healthy = {}
    /\ tasks[held[g]].retries < RetriesBound
    /\ Elsewhere
    /\ UNCHANGED <<storeVars, schedulerVars, sent>>

\* getClient fails: the task fails without having been marked as running.
DialFailed(g) ==
    /\ Continue(g, "run", "fail")
    /\ Elsewhere
    /\ UNCHANGED <<storeVars, schedulerVars, sent>>

StartExecute(g) ==
    /\ Continue(g, "run", "rpc")
    /\ MarkRunning(held[g], dest[g])
    /\ sent' = [sent EXCEPT ![held[g]] = @ + 1]
    /\ Elsewhere
    /\ UNCHANGED storeVars

\* The worker answered; a failed command is an answer, not an error.
ExecuteReturned(g, result) ==
    /\ Transition(g, "rpc", "save")
    /\ reply' = [reply EXCEPT ![g] = result]
    /\ Elsewhere
    /\ UNCHANGED <<storeVars, schedulerVars, held, dest, sent>>

\* No answer: deadline, lost connection, worker refusing, shutdown of the master.
ExecuteFailed(g) ==
    /\ Continue(g, "rpc", "fail")
    /\ Elsewhere
    /\ UNCHANGED <<storeVars, schedulerVars, sent>>

MarkTaskFailed(g) ==
    /\ Continue(g, "fail", "failjob")
    /\ MarkFailed(held[g])
    /\ Elsewhere
    /\ UNCHANGED <<storeVars, sent>>

\* Mutant: the store is not told of a failed attempt.
MarkJobFailedSkipped(g) ==
    /\ Continue(g, "failjob", "retry")
    /\ Elsewhere
    /\ UNCHANGED <<storeVars, schedulerVars, sent>>

MarkJobFailed(g) ==
    /\ Continue(g, "failjob", "retry")
    /\ UpdateJobStatus(held[g], "FAILED")
    /\ Elsewhere
    /\ UNCHANGED <<schedulerVars, sent>>

Retry(g) ==
    /\ Continue(g, "retry", "requeue")
    /\ CanRetry(tasks[held[g]])
    /\ Elsewhere
    /\ UNCHANGED <<storeVars, schedulerVars, sent>>

GiveUp(g) ==
    /\ Return(g, "retry")
    /\ ~CanRetry(tasks[held[g]])
    /\ Elsewhere
    /\ UNCHANGED <<storeVars, schedulerVars, sent>>

Requeue(g) ==
    /\ Continue(g, "requeue", "push")
    /\ RequeueReset(held[g])
    /\ Elsewhere
    /\ UNCHANGED <<storeVars, sent>>

\* Mutant: no return after a successful requeue, so the goroutine goes on to a node.
RequeueSendGoesOn(g) ==
    /\ Continue(g, "push", "select")
    /\ Send(held[g])
    /\ Elsewhere
    /\ UNCHANGED <<storeVars, sent>>

RequeueSend(g) ==
    /\ Return(g, "push")
    /\ Send(held[g])
    /\ Elsewhere
    /\ UNCHANGED <<storeVars, sent>>

\* Mutant: a failed task is not even offered to the channel.
RequeueGivesUp(g) ==
    /\ Return(g, "push")
    /\ Elsewhere
    /\ UNCHANGED <<storeVars, schedulerVars, sent>>

\* ErrQueueFull is logged and dropped, and the task with it.
RequeueFull(g) ==
    /\ Return(g, "push")
    /\ QueueFull
    /\ Elsewhere
    /\ UNCHANGED <<storeVars, schedulerVars, sent>>

\* Mutant: a result that is not a success is retried like an error.
SaveTaskResultRetries(g) ==
    /\ Continue(g, "save", IF IsSuccess(reply[g]) THEN "complete" ELSE "fail")
    /\ SaveResult(held[g], reply[g])
    /\ Elsewhere
    /\ UNCHANGED <<schedulerVars, sent>>

SaveTaskResult(g) ==
    /\ Continue(g, "save", "complete")
    /\ SaveResult(held[g], reply[g])
    /\ Elsewhere
    /\ UNCHANGED <<schedulerVars, sent>>

CompleteTask(g) ==
    /\ Return(g, "complete")
    /\ MarkComplete(held[g])
    /\ Elsewhere
    /\ UNCHANGED <<storeVars, sent>>

-----------------------------------------------------------------------------

\* The steps of a Submit call after its first.
SubmitNext(j) ==
    \/ SubmitInsert(j)
    \/ SubmitSend(j)
    \/ SubmitFull(j)
    \/ SubmitUndo(j)

CancelNext(c) ==
    \/ \E j \in Job : CancelRead(c, j)
    \/ CancelWrite(c)

LoopNext ==
    \/ LoopReceive
    \/ LoopStop
    \/ DequeueAborted
    \/ \E g \in Goroutine : Dequeue(g)

DispatchNext(g) ==
    \/ \E n \in Node : SelectNode(g, n)
    \/ NoHealthyNodes(g)
    \/ DialFailed(g)
    \/ StartExecute(g)
    \/ \E result \in ExecuteReply : ExecuteReturned(g, result)
    \/ ExecuteFailed(g)
    \/ MarkTaskFailed(g)
    \/ MarkJobFailed(g)
    \/ Retry(g)
    \/ GiveUp(g)
    \/ Requeue(g)
    \/ RequeueSend(g)
    \/ RequeueFull(g)
    \/ SaveTaskResult(g)
    \/ CompleteTask(g)

EnvironmentNext ==
    \/ \E n \in Node : NodeUp(n) \/ NodeDown(n)
    \/ Shutdown

Next ==
    \/ EnvironmentNext
    \/ \E j \in Job : Submit(j) \/ SubmitNext(j)
    \/ \E c \in Canceller : CancelNext(c)
    \/ LoopNext
    \/ \E g \in Goroutine : DispatchNext(g)

Spec == Init /\ [][Next]_vars

\* Goroutines are scheduled; an Execute call ends because its context carries
\* the task's timeout.  Nothing makes clients call, nodes join or a stop come.
Fairness ==
    /\ \A j \in Job : WF_vars(SubmitNext(j))
    /\ \A c \in Canceller : WF_vars(CancelWrite(c))
    /\ WF_vars(LoopNext)
    /\ \A g \in Goroutine : WF_vars(DispatchNext(g))

FairSpec == Spec /\ Fairness

-----------------------------------------------------------------------------
(* Safety.                                                                 *)

Held(j) == \E g \in Goroutine : held[g] = j

\* A task pointer is shared by the scheduler's map, the channel and a goroutine,
\* and dispatchTask reads and writes it without a lock.  That is sound because at
\* any time at most one of them can act on the task: it is in the channel once, or
\* with one goroutine, and with neither while its Submit call is still deciding.
SingleOwner ==
    /\ QueuedOnce
    /\ \A g, h \in Goroutine : held[g] = held[h] /\ held[g] # NoJob => g = h
    /\ \A j \in Job : Queued(j) => ~Held(j)
    /\ \A j \in Job : Queued(j) \/ Held(j) => submit[j] = "accepted"

\* Over failed calls, requeues for want of a node and retries on other nodes, a
\* task is sent to workers at most once more than it may be retried.
AttemptsBounded == \A j \in Job : sent[j] <= MaxRetries + 1

\* What the scheduler says of a task is what happens to it: a task whose call is
\* out is RUNNING on the node called; a RUNNING task has a goroutine which called
\* that node and will report on it; a PENDING task has no worker.
SchedulerTellsTheTruth ==
    /\ \A g \in Goroutine : pc[g] \in {"rpc", "save", "complete"} =>
          tasks[held[g]].status = "RUNNING" /\ tasks[held[g]].worker = dest[g]
    /\ \A j \in Job : tasks[j].status = "RUNNING" =>
          \E g \in Goroutine : /\ held[g] = j
                              /\ dest[g] = tasks[j].worker
                              /\ pc[g] \in {"rpc", "fail", "save", "complete"}
    /\ \A j \in Job : tasks[j].status = "PENDING" => tasks[j].worker = NoNode

\* The store, which clients read, agrees with the results and with the scheduler
\* once nobody works on the task: a job with a result shows its verdict, COMPLETED
\* is never shown without a success, a task given up shows FAILED; only a Cancel
\* call may have covered the status.
StoreAgrees ==
    \A j \in Job :
        /\ results[j] # NoResult => jobs[j] \in {Verdict(results[j]), "CANCELLED"}
        /\ jobs[j] = "COMPLETED" => results[j] = "SUCCESS"
        /\ tasks[j].status = "COMPLETED" => results[j] # NoResult
        /\ tasks[j].status = "FAILED" /\ ~Held(j) => jobs[j] \in {"FAILED", "CANCELLED"}

\* A Submit call that answers "queue full" speaks the truth: its task is unknown to
\* the scheduler and no worker ever sees it.  Conversely every task that is queued
\* or dispatched is known, so the errors the Mark calls drop never occur.
RefusalIsHonest ==
    \A j \in Job :
        /\ submit[j] = "rejected" => j \notin known /\ sent[j] = 0 /\ results[j] = NoResult
        /\ Queued(j) \/ Held(j) => j \in known

\* A task has come to its end: completed, or failed with no retry left.
Settled(j) ==
    \/ tasks[j].status = "COMPLETED"
    \/ tasks[j].status = "FAILED" /\ ~CanRetry(tasks[j])

\* When the channel has room for every task, a task accepted from a client is in
\* the channel, with a goroutine, or settled: no path through a failed call, a
\* requeue or a shutdown loses it.
NoTaskLost ==
    MaxQueue >= Cardinality(Job) =>
        \A j \in Job : submit[j] = "accepted" => Queued(j) \/ Held(j) \/ Settled(j)

\* Once a result is saved the job is over: the result never changes, the task is
\* never sent to a worker again, and only a Cancel call can still change the status.
ResultKept ==
    \A j \in Job : results[j] # NoResult =>
        /\ results'[j] = results[j]
        /\ sent'[j] = sent[j]
        /\ jobs'[j] \in {jobs[j], "CANCELLED"}

ResultIsFinal == [][ResultKept]_vars

-----------------------------------------------------------------------------
(* Liveness, under FairSpec.                                               *)

\* If the master keeps running and from some time on has a healthy node, every
\* accepted task is settled, whatever nodes and calls do.
Settles ==
    MaxQueue >= Cardinality(Job) /\ []~ctxDone /\ <>[](healthy # {})
        => \A j \in Job : submit[j] = "accepted" ~> Settled(j)

\* The dispatch loop ends after a shutdown, even when tasks keep arriving.
ShutdownStopsLoop == ctxDone ~> loop = "stopped"

-----------------------------------------------------------------------------
(* What the documentation says and the code does not do.                   *)

\* A job reported as cancelled is not sent to a worker any more.  Server.Cancel
\* answers "job cancelled" after writing the store alone.
CancelledNotExecuted ==
    [][\A j \in Job : jobs[j] = "CANCELLED" => sent'[j] = sent[j]]_vars

\* A task the scheduler calls PENDING is waiting for its dispatch: in the channel,
\* or on its way there or from there.  Requeue drops it when the channel is full.
PendingIsQueued ==
    \A j \in Job : submit[j] = "accepted" /\ tasks[j].status = "PENDING"
                      => Queued(j) \/ Held(j)

\* A status the client library treats as terminal, and stops polling at, stays.
FailedIsFinal == [][\A j \in Job : jobs[j] = "FAILED" => jobs'[j] = "FAILED"]_vars
==============================================================================
