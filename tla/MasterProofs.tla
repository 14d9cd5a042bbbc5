----------------------------- MODULE MasterProofs -----------------------------
(***************************************************************************)
(* Machine-checked proofs about Master.                                    *)
(***************************************************************************)
EXTENDS MasterInvariant, SequenceTheorems, FiniteSetTheorems, TLAPS

(***************************************************************************)
(* Typing.  A goroutine that runs dispatchTask holds a task: without that  *)
(* the argument of Requeue would not be known to be one.                   *)
(***************************************************************************)

\* The records the Mark calls and Requeue write are tasks again.
LEMMA TaskUpdates ==
  ASSUME NEW t \in Task, NEW s \in TaskStatus, NEW n \in Node \cup {NoNode}
  PROVE  /\ [t EXCEPT !.status = s] \in Task
         /\ [t EXCEPT !.status = s, !.worker = n] \in Task
         /\ [t EXCEPT !.status = s, !.finished = TRUE] \in Task
         /\ [t EXCEPT !.retries = @ + 1, !.status = s, !.worker = n] \in Task
<1>1. [t EXCEPT !.status = s] \in Task
  BY DEF Task
<1>2. [t EXCEPT !.status = s, !.worker = n] \in Task
  BY DEF Task
<1>3. [t EXCEPT !.status = s, !.finished = TRUE] \in Task
  BY DEF Task
<1>4. \A k \in Nat : [t EXCEPT !.retries = k, !.status = s, !.worker = n] \in Task
  BY DEF Task
<1>5. t.retries + 1 \in Nat
  BY DEF Task
<1>6. QED
  BY <1>1, <1>2, <1>3, <1>4, <1>5

\* The operations of the scheduler keep its variables in their types.
LEMMA SchedulerTyping ==
  ASSUME SchedulerTypeOK, NEW j \in Job
  PROVE  /\ EnqueueRegister(j) => SchedulerTypeOK'
         /\ EnqueueUndo(j) => SchedulerTypeOK'
         /\ Send(j) => SchedulerTypeOK'
         /\ \A n \in Node \cup {NoNode} : MarkRunning(j, n) => SchedulerTypeOK'
         /\ MarkComplete(j) => SchedulerTypeOK'
         /\ MarkFailed(j) => SchedulerTypeOK'
         /\ RequeueReset(j) => SchedulerTypeOK'
<1> USE SchedulerAssumption, TaskTypesAssumption DEF SchedulerTypeOK
<1>1. tasks[j] \in Task
  OBVIOUS
<1>2. EnqueueRegister(j) => SchedulerTypeOK'
  BY <1>1, TaskUpdates DEF EnqueueRegister, TaskStatus
<1>3. EnqueueUndo(j) => SchedulerTypeOK'
  BY DEF EnqueueUndo
<1>4. Send(j) => SchedulerTypeOK'
  BY DEF Send, QueueFull
<1>5. ASSUME NEW n \in Node \cup {NoNode}, MarkRunning(j, n) PROVE SchedulerTypeOK'
  BY <1>1, <1>5, TaskUpdates DEF MarkRunning, Mark, TaskStatus
<1>6. MarkComplete(j) => SchedulerTypeOK'
  BY <1>1, TaskUpdates DEF MarkComplete, Mark, TaskStatus
<1>7. MarkFailed(j) => SchedulerTypeOK'
  BY <1>1, TaskUpdates DEF MarkFailed, Mark, TaskStatus
<1>8. RequeueReset(j) => SchedulerTypeOK'
  <2>1. [tasks[j] EXCEPT !.retries = @ + 1, !.status = "PENDING", !.worker = NoNode] \in Task
    BY <1>1, TaskUpdates DEF TaskStatus
  <2>2. QED
    BY <2>1 DEF RequeueReset
<1>9. QED
  BY <1>2, <1>3, <1>4, <1>5, <1>6, <1>7, <1>8

\* A receive leaves a shorter channel of jobs, and hands out a job.
LEMMA ReceiveTyping ==
  ASSUME SchedulerTypeOK, Receive
  PROVE  SchedulerTypeOK' /\ Head(pending) \in Job
BY HeadTailProperties, SchedulerAssumption DEF SchedulerTypeOK, Receive

\* The operations of the store keep its variables in their types.
LEMMA StoreTyping ==
  ASSUME StoreTypeOK, NEW j \in Job
  PROVE  /\ SaveJob(j) => StoreTypeOK'
         /\ \A s \in TaskStatus : UpdateJobStatus(j, s) => StoreTypeOK'
         /\ \A r \in ResultStatus \cup {NoResult} : SaveResult(j, r) => StoreTypeOK'
BY DEF StoreTypeOK, SaveJob, UpdateJobStatus, SaveResult, Verdict, TaskStatus

\* The master starts with every variable in its type and no goroutine busy.
LEMMA InitTypeInv == Init => TypeInv
<1> USE DEF TypeInv, BusyHoldsTask, TypeOK
<1> SUFFICES ASSUME Init PROVE TypeInv
  OBVIOUS
<1>1. StoreTypeOK
  BY DEF Init, StoreInit, StoreTypeOK
<1>2. SchedulerTypeOK
  <2>1. NewTask \in Task
    BY TaskTypesAssumption DEF Task, NewTask, TaskStatus
  <2>2. QED
    BY <2>1, SchedulerAssumption DEF Init, SchedulerInit, SchedulerTypeOK
<1>3. QED
  BY <1>1, <1>2 DEF Init, SubmitState, DispatchState

\* Each step of the master keeps the types, and goroutines busy exactly with a task.
LEMMA NextTypeInv == TypeInv /\ [Next]_vars => TypeInv'
<1> USE DEF TypeInv, BusyHoldsTask, TypeOK
<1> SUFFICES ASSUME TypeInv, [Next]_vars PROVE TypeInv'
  OBVIOUS
<1> USE DEF handlerVars, goroutineVars
<1>a. /\ UNCHANGED storeVars => StoreTypeOK'
      /\ UNCHANGED schedulerVars => SchedulerTypeOK'
  BY DEF storeVars, schedulerVars, StoreTypeOK, SchedulerTypeOK
<1>1. CASE UNCHANGED vars
  BY <1>1, <1>a DEF vars
<1>2. CASE EnvironmentNext
  BY <1>2, <1>a DEF EnvironmentNext, NodeUp, NodeDown, Shutdown
<1>3. ASSUME NEW j \in Job, Submit(j) \/ SubmitNext(j) PROVE TypeInv'
  <2>1. CASE Submit(j)
    BY <2>1, <1>a, StoreTyping DEF Submit, SubmitStep, SubmitState
  <2>2. CASE SubmitInsert(j)
    BY <2>2, <1>a, SchedulerTyping DEF SubmitInsert, SubmitStep, SubmitState
  <2>3. CASE SubmitSend(j)
    BY <2>3, <1>a, SchedulerTyping DEF SubmitSend, SubmitStep, SubmitState
  <2>4. CASE SubmitFull(j)
    BY <2>4, <1>a DEF SubmitFull, SubmitStep, SubmitState
  <2>5. CASE SubmitUndo(j)
    BY <2>5, <1>a, SchedulerTyping DEF SubmitUndo, SubmitStep, SubmitState
  <2>6. QED
    BY <1>3, <2>1, <2>2, <2>3, <2>4, <2>5 DEF SubmitNext
<1>4. ASSUME NEW c \in Canceller, CancelNext(c) PROVE TypeInv'
  <2>1. ASSUME NEW j \in Job, CancelRead(c, j) PROVE TypeInv'
    BY <2>1, <1>a DEF CancelRead
  <2>2. CASE CancelWrite(c)
    BY <2>2, <1>a, StoreTyping DEF CancelWrite, TaskStatus
  <2>3. QED
    BY <1>4, <2>1, <2>2 DEF CancelNext
<1>5. CASE LoopNext
  <2>1. CASE LoopReceive \/ LoopStop \/ DequeueAborted
    BY <2>1, <1>a DEF LoopReceive, LoopStop, DequeueAborted
  <2>2. ASSUME NEW g \in Goroutine, Dequeue(g) PROVE TypeInv'
    <3>1. Head(pending) \in Job /\ SchedulerTypeOK'
      BY <2>2, ReceiveTyping DEF Dequeue
    <3>2. QED
      BY <2>2, <3>1, <1>a, MasterAssumption DEF Dequeue, DispatchState
  <2>3. QED
    BY <1>5, <2>1, <2>2 DEF LoopNext
<1>6. ASSUME NEW g \in Goroutine, DispatchNext(g) PROVE TypeInv'
  <2> USE DEF Continue, Return, Transition, Elsewhere, DispatchState
  <2>0. pc[g] # "idle" => held[g] \in Job
    OBVIOUS
  <2>1. ASSUME NEW n \in Node, SelectNode(g, n) PROVE TypeInv'
    BY <2>1, <1>a DEF SelectNode
  <2>2. CASE NoHealthyNodes(g)
    BY <2>2, <1>a DEF NoHealthyNodes
  <2>3. CASE DialFailed(g)
    BY <2>3, <1>a DEF DialFailed
  <2>4. CASE StartExecute(g)
    BY <2>4, <2>0, <1>a, SchedulerTyping DEF StartExecute
  <2>5. ASSUME NEW result \in ExecuteReply, ExecuteReturned(g, result) PROVE TypeInv'
    BY <2>5, <1>a, MasterAssumption DEF ExecuteReturned
  <2>6. CASE ExecuteFailed(g)
    BY <2>6, <1>a DEF ExecuteFailed
  <2>7. CASE MarkTaskFailed(g)
    BY <2>7, <2>0, <1>a, SchedulerTyping DEF MarkTaskFailed
  <2>8. CASE MarkJobFailed(g)
    BY <2>8, <2>0, <1>a, StoreTyping DEF MarkJobFailed, TaskStatus
  <2>9. CASE Retry(g)
    BY <2>9, <1>a DEF Retry
  <2>10. CASE GiveUp(g)
    BY <2>10, <1>a DEF GiveUp
  <2>11. CASE Requeue(g)
    BY <2>11, <2>0, <1>a, SchedulerTyping DEF Requeue
  <2>12. CASE RequeueSend(g)
    BY <2>12, <2>0, <1>a, SchedulerTyping DEF RequeueSend
  <2>13. CASE RequeueFull(g)
    BY <2>13, <1>a DEF RequeueFull
  <2>14. CASE SaveTaskResult(g)
    BY <2>14, <2>0, <1>a, StoreTyping DEF SaveTaskResult
  <2>15. CASE CompleteTask(g)
    BY <2>15, <2>0, <1>a, SchedulerTyping DEF CompleteTask
  <2>16. QED
    BY <1>6, <2>1, <2>2, <2>3, <2>4, <2>5, <2>6, <2>7, <2>8, <2>9, <2>10,
       <2>11, <2>12, <2>13, <2>14, <2>15 DEF DispatchNext
<1>7. QED
  BY <1>1, <1>2, <1>3, <1>4, <1>5, <1>6 DEF Next

\* Every step of the master leaves every variable in its type.
THEOREM TypeCorrect == Spec => []TypeOK
<1>1. TypeInv => TypeOK
  BY DEF TypeInv
<1>2. QED
  BY <1>1, InitTypeInv, NextTypeInv, PTL DEF Spec

(***************************************************************************)
(* What the operations of the channel do to the tasks in it.               *)
(***************************************************************************)

\* A send adds its task to the channel, once if it was not there.
LEMMA SendAdds ==
  ASSUME SchedulerTypeOK, NEW j \in Job, Send(j)
  PROVE  /\ \A k \in Job : Queued(k)' <=> Queued(k) \/ k = j
         /\ QueuedOnce /\ ~Queued(j) => QueuedOnce'
<1>1. /\ pending \in Seq(Job)
      /\ pending' = Append(pending, j)
  BY DEF SchedulerTypeOK, Send
<1>2. /\ Len(pending') = Len(pending) + 1
      /\ \A i \in 1..Len(pending) : pending'[i] = pending[i]
      /\ pending'[Len(pending) + 1] = j
      /\ Len(pending) \in Nat
  BY <1>1
<1>3. QED
  BY <1>2 DEF Queued, QueuedOnce

\* A receive takes the oldest task out; if it was there once it is there no more.
LEMMA ReceiveRemoves ==
  ASSUME SchedulerTypeOK, QueuedOnce, Receive
  PROVE  /\ Queued(Head(pending))
         /\ \A k \in Job : Queued(k)' <=> Queued(k) /\ k # Head(pending)
         /\ QueuedOnce'
<1>1. /\ pending \in Seq(Job)
      /\ pending # <<>>
      /\ pending' = Tail(pending)
  BY DEF SchedulerTypeOK, Receive
<1>2. /\ Len(pending) \in Nat \ {0}
      /\ Head(pending) = pending[1]
      /\ Len(pending') = Len(pending) - 1
      /\ \A i \in 1..(Len(pending) - 1) : pending'[i] = pending[i + 1]
  BY <1>1, HeadTailProperties
<1>3. Queued(Head(pending))
  BY <1>2 DEF Queued
<1>4. QueuedOnce'
  BY <1>2 DEF QueuedOnce
<1>5. ASSUME NEW k \in Job
      PROVE  Queued(k)' <=> Queued(k) /\ k # Head(pending)
  <2>1. ASSUME NEW i \in 1..Len(pending'), pending'[i] = k
        PROVE  Queued(k) /\ k # Head(pending)
    <3>1. i + 1 \in 1..Len(pending) /\ pending[i + 1] = k /\ 1 \in 1..Len(pending)
      BY <1>2, <2>1
    <3>2. QED
      BY <1>2, <3>1 DEF Queued, QueuedOnce
  <2>2. ASSUME NEW i \in 1..Len(pending), pending[i] = k, k # Head(pending)
        PROVE  Queued(k)'
    <3>1. i - 1 \in 1..Len(pending') /\ pending'[i - 1] = k
      BY <1>2, <2>2
    <3>2. QED
      BY <3>1 DEF Queued
  <2>3. QED
    BY <2>1, <2>2 DEF Queued
<1>6. QED
  BY <1>3, <1>4, <1>5

\* What an operation on task j leaves it with, all other tasks being as before.
TaskBecomes(j, status, worker, retries) ==
    /\ tasks'[j].status = status
    /\ tasks'[j].worker = worker
    /\ tasks'[j].retries = retries
    /\ \A k \in Job \ {j} : tasks'[k] = tasks[k]

\* The operations of the scheduler on a task, field by field.
LEMMA TaskEffects ==
  ASSUME SchedulerTypeOK, NEW j \in Job
  PROVE  /\ EnqueueRegister(j) => TaskBecomes(j, "PENDING", tasks[j].worker, tasks[j].retries)
         /\ RequeueReset(j) => TaskBecomes(j, "PENDING", NoNode, tasks[j].retries + 1)
         /\ j \in known =>
              /\ \A n \in Node \cup {NoNode} :
                    MarkRunning(j, n) => TaskBecomes(j, "RUNNING", n, tasks[j].retries)
              /\ MarkComplete(j) =>
                    TaskBecomes(j, "COMPLETED", tasks[j].worker, tasks[j].retries)
              /\ MarkFailed(j) =>
                    TaskBecomes(j, "FAILED", tasks[j].worker, tasks[j].retries)
<1> USE DEF SchedulerTypeOK, TaskBecomes, Task
<1>1. EnqueueRegister(j) => TaskBecomes(j, "PENDING", tasks[j].worker, tasks[j].retries)
  BY DEF EnqueueRegister
<1>2. RequeueReset(j) => TaskBecomes(j, "PENDING", NoNode, tasks[j].retries + 1)
  BY DEF RequeueReset
<1>3. ASSUME j \in known, NEW n \in Node \cup {NoNode}, MarkRunning(j, n)
      PROVE  TaskBecomes(j, "RUNNING", n, tasks[j].retries)
  BY <1>3 DEF MarkRunning, Mark
<1>4. j \in known /\ MarkComplete(j) =>
        TaskBecomes(j, "COMPLETED", tasks[j].worker, tasks[j].retries)
  BY DEF MarkComplete, Mark
<1>5. j \in known /\ MarkFailed(j) =>
        TaskBecomes(j, "FAILED", tasks[j].worker, tasks[j].retries)
  BY DEF MarkFailed, Mark
<1>6. QED
  BY <1>1, <1>2, <1>3, <1>4, <1>5
(***************************************************************************)
(* One owner.  A task changes hands only in the send of Submit, in Dequeue *)
(* and where dispatchTask returns or sends the task back.                  *)
(***************************************************************************)

\* A step that keeps the channel and the goroutines' tasks, and takes no
\* acceptance back, keeps every owner.
LEMMA SameOwners ==
  ASSUME SingleOwner, UNCHANGED <<pending, held>>,
         \A j \in Job : submit[j] = "accepted" => submit'[j] = "accepted"
  PROVE  SingleOwner'
BY DEF SingleOwner, Queued, QueuedOnce, Held

\* A goroutine that returns leaves its task without an owner.
LEMMA ReturnOwners ==
  ASSUME TypeInv, SingleOwner, UNCHANGED <<pending, submit>>,
         NEW g \in Goroutine, held' = [held EXCEPT ![g] = NoJob]
  PROVE  SingleOwner'
<1>1. /\ \A j \in Job : Queued(j)' <=> Queued(j)
      /\ QueuedOnce'
  BY DEF SingleOwner, Queued, QueuedOnce
<1>2. QED
  BY <1>1, MasterAssumption DEF SingleOwner, Held, TypeInv, TypeOK

\* Each step of the master hands a task from one owner to at most one other.
LEMMA SingleOwnerStep ==
  ASSUME TypeInv, SingleOwner, [Next]_vars
  PROVE  SingleOwner'
<1>0. TypeOK /\ BusyHoldsTask /\ SchedulerTypeOK
  BY DEF TypeInv, TypeOK
<1> USE DEF storeVars, schedulerVars, handlerVars, goroutineVars
<1>1. CASE UNCHANGED vars
  BY <1>1, SameOwners DEF vars
<1>2. CASE EnvironmentNext
  BY <1>2, SameOwners DEF EnvironmentNext, NodeUp, NodeDown, Shutdown
<1>3. ASSUME NEW j \in Job, Submit(j) \/ SubmitNext(j) PROVE SingleOwner'
  <2>1. CASE Submit(j) \/ SubmitInsert(j) \/ SubmitFull(j) \/ SubmitUndo(j)
    <3>1. UNCHANGED <<pending, held>> /\ submit[j] # "accepted"
      BY <2>1 DEF Submit, SubmitInsert, SubmitFull, SubmitUndo, SubmitStep,
                  EnqueueRegister, EnqueueUndo
    <3>2. \A k \in Job : k # j => submit'[k] = submit[k]
      BY <1>0, <2>1 DEF TypeOK, Submit, SubmitInsert, SubmitFull, SubmitUndo, SubmitStep
    <3>3. QED
      BY <3>1, <3>2, SameOwners
  <2>2. CASE SubmitSend(j)
    <3>1. /\ ~Queued(j) /\ ~Held(j)
          /\ submit' = [submit EXCEPT ![j] = "accepted"]
          /\ UNCHANGED held
          /\ Send(j)
      BY <2>2 DEF SubmitSend, SubmitStep, SingleOwner
    <3>2. /\ \A k \in Job : Queued(k)' <=> Queued(k) \/ k = j
          /\ QueuedOnce'
      BY <1>0, <3>1, SendAdds DEF SingleOwner
    <3>3. QED
      BY <1>0, <3>1, <3>2 DEF SingleOwner, Held, TypeOK
  <2>3. QED
    BY <1>3, <2>1, <2>2 DEF SubmitNext
<1>4. ASSUME NEW c \in Canceller, CancelNext(c) PROVE SingleOwner'
  BY <1>4, SameOwners DEF CancelNext, CancelRead, CancelWrite
<1>5. CASE LoopNext
  <2>1. CASE LoopReceive \/ LoopStop \/ DequeueAborted
    BY <2>1, SameOwners DEF LoopReceive, LoopStop, DequeueAborted
  <2>2. ASSUME NEW g \in Goroutine, Dequeue(g) PROVE SingleOwner'
    <3>1. /\ held[g] = NoJob
          /\ held' = [held EXCEPT ![g] = Head(pending)]
          /\ UNCHANGED submit
          /\ Receive
      BY <1>0, <2>2 DEF Dequeue, BusyHoldsTask
    <3>2. /\ Queued(Head(pending)) /\ Head(pending) \in Job
          /\ \A k \in Job : Queued(k)' <=> Queued(k) /\ k # Head(pending)
          /\ QueuedOnce'
      BY <1>0, <3>1, ReceiveRemoves, ReceiveTyping DEF SingleOwner
    <3>3. QED
      BY <1>0, <3>1, <3>2, MasterAssumption DEF SingleOwner, Held, TypeOK
  <2>3. QED
    BY <1>5, <2>1, <2>2 DEF LoopNext
<1>6. ASSUME NEW g \in Goroutine, DispatchNext(g) PROVE SingleOwner'
  <2> USE DEF Elsewhere, Continue, Return
  <2>1. CASE \/ \E n \in Node : SelectNode(g, n)
             \/ NoHealthyNodes(g) \/ DialFailed(g)
             \/ \E result \in ExecuteReply : ExecuteReturned(g, result)
             \/ ExecuteFailed(g) \/ MarkJobFailed(g) \/ Retry(g) \/ SaveTaskResult(g)
    BY <2>1, SameOwners DEF SelectNode, NoHealthyNodes, DialFailed, ExecuteReturned,
       ExecuteFailed, MarkJobFailed, Retry, SaveTaskResult
  <2>2. CASE StartExecute(g) \/ MarkTaskFailed(g) \/ Requeue(g)
    BY <2>2, SameOwners DEF StartExecute, MarkTaskFailed, Requeue,
       MarkRunning, MarkFailed, Mark, RequeueReset
  <2>3. CASE GiveUp(g) \/ RequeueFull(g) \/ CompleteTask(g)
    BY <2>3, ReturnOwners DEF GiveUp, RequeueFull, CompleteTask, MarkComplete, Mark
  <2>4. CASE RequeueSend(g)
    <3>1. /\ held[g] \in Job
          /\ held' = [held EXCEPT ![g] = NoJob]
          /\ UNCHANGED submit
          /\ Send(held[g])
      BY <1>0, <2>4 DEF RequeueSend, Transition, BusyHoldsTask, TypeOK
    <3>2. /\ \A k \in Job : Queued(k)' <=> Queued(k) \/ k = held[g]
          /\ QueuedOnce'
      BY <1>0, <3>1, SendAdds DEF SingleOwner, Held
    <3>3. QED
      BY <1>0, <3>1, <3>2, MasterAssumption DEF SingleOwner, Held, TypeOK
  <2>5. QED
    BY <1>6, <2>1, <2>2, <2>3, <2>4 DEF DispatchNext
<1>7. QED
  BY <1>1, <1>2, <1>3, <1>4, <1>5, <1>6 DEF Next

(***************************************************************************)
(* The stages.  A step of dispatchTask touches its own task and its own    *)
(* goroutine; for the others the stages are framed once and for all.       *)
(***************************************************************************)

SameJob(j) ==
    /\ tasks'[j] = tasks[j]
    /\ sent'[j] = sent[j]
    /\ jobs'[j] = jobs[j]
    /\ results'[j] = results[j]
    /\ Queued(j)' <=> Queued(j)

SameGoroutine(g) ==
    /\ pc'[g] = pc[g]
    /\ held'[g] = held[g]
    /\ dest'[g] = dest[g]
    /\ reply'[g] = reply[g]

\* A task that a step leaves alone stays in its stage.
LEMMA KeepJob ==
  ASSUME NEW j \in Job, JobStage(j), SameJob(j),
         submit'[j] = submit[j], j \in known' <=> j \in known, Held(j)' <=> Held(j)
  PROVE  JobStage(j)'
BY DEF JobStage, SameJob, Untouched, Waiting, Ended, FailureShown

\* A goroutine that a step leaves alone, with its task, stays where it is in dispatchTask.
LEMMA KeepGoroutine ==
  ASSUME NEW g \in Goroutine, NEW j \in Job, StageOf(g, j), SameJob(j), SameGoroutine(g)
  PROVE  StageOf(g, j)'
BY DEF StageOf, SameJob, SameGoroutine, Waiting, RunningOn, FailureShown

\* What a goroutine busy with task j may rely on.
LEMMA HolderFacts ==
  ASSUME IndInv, NEW g \in Goroutine, pc[g] # "idle"
  PROVE  /\ held[g] \in Job
         /\ submit[held[g]] = "accepted"
         /\ held[g] \in known
         /\ jobs[held[g]] # "ABSENT"
         /\ ~Queued(held[g])
         /\ \A h \in Goroutine \ {g} : held[h] # held[g]
<1>1. held[g] \in Job
  BY DEF IndInv, TypeInv, TypeOK, BusyHoldsTask
<1>2. /\ submit[held[g]] = "accepted"
      /\ ~Queued(held[g])
      /\ \A h \in Goroutine \ {g} : held[h] # held[g]
  BY <1>1, MasterAssumption DEF IndInv, SingleOwner, Held
<1>3. held[g] \in known /\ jobs[held[g]] # "ABSENT"
  BY <1>1, <1>2 DEF IndInv, Stages, JobStage
<1>4. QED
  BY <1>1, <1>2, <1>3

\* dispatchTask changes nothing of another task or another goroutine.
LEMMA DispatchTouchesOwn ==
  ASSUME IndInv, NEW g \in Goroutine, DispatchNext(g)
  PROVE  /\ pc[g] # "idle"
         /\ UNCHANGED <<submit, known>>
         /\ \A k \in Job \ {held[g]} : SameJob(k)
         /\ \A h \in Goroutine \ {g} : SameGoroutine(h)
         /\ held'[g] \in {held[g], NoJob}
<1>0. TypeOK /\ StoreTypeOK /\ SchedulerTypeOK
  BY DEF IndInv, TypeInv, TypeOK
<1>a. UNCHANGED pending => \A k \in Job : Queued(k)' <=> Queued(k)
  BY DEF Queued
<1> USE DEF Elsewhere, Continue, Return, Transition, storeVars, schedulerVars, handlerVars,
            SameJob, SameGoroutine
<1>1. CASE \/ \E n \in Node : SelectNode(g, n)
           \/ NoHealthyNodes(g) \/ DialFailed(g)
           \/ \E result \in ExecuteReply : ExecuteReturned(g, result)
           \/ ExecuteFailed(g) \/ Retry(g)
  BY <1>0, <1>a, <1>1 DEF SelectNode, NoHealthyNodes, DialFailed, ExecuteReturned,
     ExecuteFailed, Retry, TypeOK
<1>2. CASE GiveUp(g) \/ RequeueFull(g)
  BY <1>0, <1>a, <1>2 DEF GiveUp, RequeueFull, TypeOK
<1>3. CASE StartExecute(g) \/ MarkTaskFailed(g) \/ Requeue(g) \/ CompleteTask(g)
  <2>1. UNCHANGED <<pending, known>>
    BY <1>3 DEF StartExecute, MarkTaskFailed, Requeue, CompleteTask,
       MarkRunning, MarkFailed, MarkComplete, Mark, RequeueReset
  <2>2. \A k \in Job \ {held[g]} : tasks'[k] = tasks[k]
    BY <1>0, <1>3 DEF StartExecute, MarkTaskFailed, Requeue, CompleteTask,
       MarkRunning, MarkFailed, MarkComplete, Mark, RequeueReset, SchedulerTypeOK
  <2>3. QED
    BY <1>0, <1>a, <1>3, <2>1, <2>2
       DEF StartExecute, MarkTaskFailed, Requeue, CompleteTask, TypeOK
<1>4. CASE MarkJobFailed(g) \/ SaveTaskResult(g)
  BY <1>0, <1>a, <1>4 DEF MarkJobFailed, SaveTaskResult, UpdateJobStatus, SaveResult,
     TypeOK, StoreTypeOK
<1>5. CASE RequeueSend(g)
  <2>1. held[g] \in Job
    BY <1>5, HolderFacts DEF RequeueSend
  <2>2. \A k \in Job \ {held[g]} : Queued(k)' <=> Queued(k)
    BY <1>0, <1>5, <2>1, SendAdds DEF RequeueSend
  <2>3. QED
    BY <1>0, <1>5, <2>2 DEF RequeueSend, Send, TypeOK
<1>6. QED
  BY <1>1, <1>2, <1>3, <1>4, <1>5 DEF DispatchNext

\* A goroutine's step takes its own task from stage to stage, and leaves a task it
\* lets go of in the channel or ended.
LEMMA OwnStep ==
  ASSUME IndInv, NEW g \in Goroutine, DispatchNext(g), NEW j \in Job, held[g] = j
  PROVE  JobStage(j)' /\ (held'[g] = j => StageOf(g, j)')
<1>0. TypeOK /\ StoreTypeOK /\ SchedulerTypeOK
  BY DEF IndInv, TypeInv, TypeOK
<1>1. /\ pc[g] # "idle"
      /\ UNCHANGED <<submit, known>>
      /\ \A h \in Goroutine \ {g} : held'[h] = held[h]
  BY DispatchTouchesOwn DEF SameGoroutine
<1>2. /\ submit[j] = "accepted" /\ j \in known /\ jobs[j] # "ABSENT" /\ ~Queued(j)
      /\ \A h \in Goroutine \ {g} : held[h] # j
  BY <1>1, HolderFacts
<1>3. JobStage(j) /\ StageOf(g, j) /\ Held(j)
  BY DEF IndInv, Stages, Held
<1>4. /\ Held(j)' <=> held'[g] = j
      /\ UNCHANGED pending => ~Queued(j)'
  BY <1>1, <1>2 DEF Held, Queued
<1>5. /\ tasks[j] \in Task /\ tasks[j].retries \in Nat /\ sent[j] \in Nat /\ MaxRetries \in Nat
      /\ jobs[j] \in TaskStatus \cup {"ABSENT"} /\ dest[g] \in Node \cup {NoNode}
      /\ reply[g] \in ResultStatus \cup {NoResult}
      /\ NoResult \notin ResultStatus /\ NoJob # j
  BY <1>0, MasterAssumption, StoreAssumption, TaskTypesAssumption
     DEF TypeOK, StoreTypeOK, SchedulerTypeOK, Task
<1> DEFINE Goal == JobStage(j)' /\ (held'[g] = j => StageOf(g, j)')
<1>6. ASSUME held' = held, UNCHANGED <<pending, tasks, sent, jobs, results>>
      PROVE  JobStage(j)'
  <2>1. SameJob(j) /\ (Held(j)' <=> Held(j))
    BY <1>6 DEF SameJob, Queued, Held
  <2>2. QED
    BY <1>1, <1>3, <2>1, KeepJob
<1> USE DEF Elsewhere, Continue, Return, Transition, storeVars, schedulerVars
<1>7. ASSUME NEW n \in Node, SelectNode(g, n) PROVE Goal
  BY <1>0, <1>3, <1>6, <1>7 DEF SelectNode, TypeOK, StageOf, Waiting
<1>8. CASE NoHealthyNodes(g)
  BY <1>0, <1>3, <1>6, <1>8 DEF NoHealthyNodes, TypeOK, StageOf, Waiting
<1>9. CASE DialFailed(g)
  BY <1>0, <1>3, <1>6, <1>9 DEF DialFailed, TypeOK, StageOf, Waiting
<1>10. CASE StartExecute(g)
  <2>1. /\ TaskBecomes(j, "RUNNING", dest[g], tasks[j].retries)
        /\ UNCHANGED <<pending, jobs, results, held, dest, reply>>
        /\ pc[g] = "run" /\ pc'[g] = "rpc" /\ sent'[j] = sent[j] + 1
    BY <1>0, <1>2, <1>5, <1>10, TaskEffects DEF StartExecute, MarkRunning, Mark, TypeOK
  <2>2. JobStage(j)'
    BY <1>1, <1>2, <1>3, <1>4, <1>5, <2>1
       DEF JobStage, StageOf, TaskBecomes, Waiting
  <2>3. StageOf(g, j)'
    BY <1>3, <1>5, <2>1 DEF StageOf, TaskBecomes, RunningOn
  <2>4. QED
    BY <2>2, <2>3
<1>11. ASSUME NEW r \in ExecuteReply, ExecuteReturned(g, r) PROVE Goal
  BY <1>0, <1>3, <1>5, <1>6, <1>11, MasterAssumption
     DEF ExecuteReturned, TypeOK, StageOf, RunningOn
<1>12. CASE ExecuteFailed(g)
  BY <1>0, <1>3, <1>6, <1>12 DEF ExecuteFailed, TypeOK, StageOf, RunningOn
<1>13. CASE MarkTaskFailed(g)
  <2>1. /\ TaskBecomes(j, "FAILED", tasks[j].worker, tasks[j].retries)
        /\ UNCHANGED <<pending, jobs, results, sent, held, dest, reply>>
        /\ pc[g] = "fail" /\ pc'[g] = "failjob"
    BY <1>0, <1>2, <1>13, TaskEffects DEF MarkTaskFailed, MarkFailed, Mark, TypeOK
  <2>2. JobStage(j)'
    BY <1>1, <1>2, <1>3, <1>4, <1>5, <2>1 DEF JobStage, TaskBecomes
  <2>3. StageOf(g, j)'
    BY <1>3, <2>1 DEF StageOf, TaskBecomes
  <2>4. QED
    BY <2>2, <2>3
<1>14. CASE MarkJobFailed(g)
  <2>1. /\ jobs'[j] = "FAILED"
        /\ UNCHANGED <<pending, tasks, known, results, sent, held, dest, reply>>
        /\ pc[g] = "failjob" /\ pc'[g] = "retry"
    BY <1>0, <1>2, <1>14 DEF MarkJobFailed, UpdateJobStatus, TypeOK, StoreTypeOK
  <2>2. JobStage(j)'
    BY <1>1, <1>2, <1>3, <1>4, <2>1 DEF JobStage, StageOf, Shown
  <2>3. StageOf(g, j)'
    BY <1>3, <2>1 DEF StageOf, FailureShown
  <2>4. QED
    BY <2>2, <2>3
<1>15. CASE Retry(g)
  <2>1. sent[j] <= MaxRetries
    BY <1>3, <1>5, <1>15 DEF Retry, CanRetry, JobStage
  <2>2. QED
    BY <1>0, <1>3, <1>6, <1>15, <2>1 DEF Retry, TypeOK, StageOf
<1>16. CASE GiveUp(g) \/ RequeueFull(g)
  <2>1. /\ UNCHANGED <<pending, tasks, known, jobs, results, sent>>
        /\ held'[g] = NoJob
        /\ pc[g] \in {"retry", "push"}
    BY <1>0, <1>16 DEF GiveUp, RequeueFull, TypeOK
  <2>2. Ended(j)'
    BY <1>3, <2>1 DEF StageOf, Ended, Waiting, FailureShown
  <2>3. QED
    BY <1>1, <1>2, <1>3, <1>4, <1>5, <2>1, <2>2 DEF JobStage
<1>17. CASE Requeue(g)
  <2>1. /\ TaskBecomes(j, "PENDING", NoNode, tasks[j].retries + 1)
        /\ UNCHANGED <<pending, jobs, results, sent, held, dest, reply>>
        /\ pc[g] = "requeue" /\ pc'[g] = "push"
    BY <1>0, <1>17, TaskEffects DEF Requeue, RequeueReset, TypeOK
  <2>2. JobStage(j)'
    BY <1>1, <1>2, <1>3, <1>4, <1>5, <2>1 DEF JobStage, TaskBecomes
  <2>3. StageOf(g, j)'
    BY <1>3, <1>5, <2>1 DEF StageOf, JobStage, TaskBecomes, Waiting
  <2>4. QED
    BY <2>2, <2>3
<1>18. CASE RequeueSend(g)
  <2>1. /\ UNCHANGED <<tasks, known, jobs, results, sent>>
        /\ held'[g] = NoJob
        /\ pc[g] = "push"
        /\ Send(j)
    BY <1>0, <1>18 DEF RequeueSend, Send, TypeOK
  <2>2. Queued(j)'
    BY <1>0, <2>1, SendAdds
  <2>3. QED
    BY <1>1, <1>2, <1>3, <1>4, <1>5, <2>1, <2>2 DEF JobStage, StageOf, Waiting
<1>19. CASE SaveTaskResult(g)
  <2>1. /\ results'[j] = reply[g] /\ jobs'[j] = Verdict(reply[g])
        /\ UNCHANGED <<pending, tasks, known, sent, held, dest, reply>>
        /\ pc[g] = "save" /\ pc'[g] = "complete"
    BY <1>0, <1>2, <1>19 DEF SaveTaskResult, SaveResult, TypeOK, StoreTypeOK
  <2>2. Verdict(reply[g]) \in Shown /\ (Verdict(reply[g]) = "COMPLETED" => reply[g] = "SUCCESS")
    BY DEF Verdict, IsSuccess, Shown
  <2>3. JobStage(j)'
    BY <1>1, <1>2, <1>3, <1>4, <2>1, <2>2 DEF JobStage, Shown
  <2>4. StageOf(g, j)'
    BY <1>3, <2>1 DEF StageOf, RunningOn
  <2>5. QED
    BY <2>3, <2>4
<1>20. CASE CompleteTask(g)
  <2>1. /\ TaskBecomes(j, "COMPLETED", tasks[j].worker, tasks[j].retries)
        /\ UNCHANGED <<pending, jobs, results, sent>>
        /\ held'[g] = NoJob
        /\ pc[g] = "complete"
    BY <1>0, <1>2, <1>20, TaskEffects DEF CompleteTask, MarkComplete, Mark, TypeOK
  <2>2. Ended(j)'
    BY <1>3, <2>1 DEF StageOf, Ended, TaskBecomes
  <2>3. QED
    BY <1>1, <1>2, <1>3, <1>4, <1>5, <2>1, <2>2 DEF JobStage, TaskBecomes
<1>21. QED
  BY <1>7, <1>8, <1>9, <1>10, <1>11, <1>12, <1>13, <1>14, <1>15, <1>16, <1>17, <1>18,
     <1>19, <1>20 DEF DispatchNext

\* The steps of a Submit call move one task from untouched to waiting or back.
LEMMA SubmitStages ==
  ASSUME IndInv, NEW j \in Job, Submit(j) \/ SubmitNext(j)
  PROVE  Stages'
<1>0. TypeOK /\ StoreTypeOK /\ SchedulerTypeOK /\ MaxRetries \in Nat
  BY TaskTypesAssumption DEF IndInv, TypeInv, TypeOK
<1>1. /\ UNCHANGED <<goroutineVars, sent>>
      /\ submit[j] \in {"none", "saved", "inserted", "undo"}
      /\ \A k \in Job \ {j} : submit'[k] = submit[k]
      /\ submit'[j] # "none"
  BY <1>0 DEF Submit, SubmitNext, SubmitInsert, SubmitSend, SubmitFull, SubmitUndo, SubmitStep,
     TypeOK
<1>2. /\ Untouched(j) /\ ~Queued(j) /\ ~Held(j) /\ JobStage(j)
      /\ \A k \in Job : Held(k)' <=> Held(k)
      /\ UNCHANGED pending => \A k \in Job : Queued(k)' <=> Queued(k)
  BY <1>1 DEF IndInv, SingleOwner, Stages, JobStage, Held, Queued, goroutineVars
<1>3. tasks[j].retries \in Nat
  BY <1>0 DEF SchedulerTypeOK, Task
<1> USE DEF SubmitStep, storeVars, schedulerVars
<1>4. /\ \A k \in Job \ {j} : SameJob(k) /\ (k \in known' <=> k \in known)
      /\ JobStage(j)'
  <2>1. CASE Submit(j)
    <3>1. /\ jobs'[j] = "PENDING" /\ submit'[j] = "saved"
          /\ \A k \in Job \ {j} : jobs'[k] = jobs[k]
          /\ UNCHANGED <<results, schedulerVars>>
          /\ submit[j] = "none"
      BY <1>0, <2>1 DEF Submit, SaveJob, TypeOK, StoreTypeOK
    <3>2. QED
      BY <1>1, <1>2, <3>1 DEF SameJob, JobStage, Untouched, Shown
  <2>2. CASE SubmitInsert(j)
    <3>1. /\ TaskBecomes(j, "PENDING", tasks[j].worker, tasks[j].retries)
          /\ known' = known \cup {j} /\ submit'[j] = "inserted"
          /\ UNCHANGED <<pending, results, jobs>>
          /\ submit[j] = "saved"
      BY <1>0, <2>2, TaskEffects DEF SubmitInsert, EnqueueRegister, TypeOK
    <3>2. QED
      BY <1>1, <1>2, <3>1 DEF SameJob, JobStage, Untouched, TaskBecomes
  <2>3. CASE SubmitSend(j)
    <3>1. /\ UNCHANGED <<tasks, known, results, jobs>>
          /\ submit[j] = "inserted" /\ submit'[j] = "accepted"
          /\ \A k \in Job : Queued(k)' <=> Queued(k) \/ k = j
      BY <1>0, <2>3, SendAdds DEF SubmitSend, Send, TypeOK
    <3>2. tasks[j].status = "PENDING"
      BY <1>2, <3>1 DEF JobStage
    <3>3. QED
      BY <1>0, <1>1, <1>2, <1>3, <3>1, <3>2 DEF SameJob, JobStage, Untouched, Waiting
  <2>4. CASE SubmitFull(j)
    <3>1. /\ UNCHANGED <<storeVars, schedulerVars>>
          /\ submit[j] = "inserted" /\ submit'[j] = "undo"
      BY <1>0, <2>4 DEF SubmitFull, TypeOK
    <3>2. QED
      BY <1>1, <1>2, <3>1 DEF SameJob, JobStage, Untouched
  <2>5. CASE SubmitUndo(j)
    <3>1. /\ UNCHANGED <<storeVars, pending, tasks>>
          /\ known' = known \ {j}
          /\ submit[j] = "undo" /\ submit'[j] = "rejected"
      BY <1>0, <2>5 DEF SubmitUndo, EnqueueUndo, TypeOK
    <3>2. QED
      BY <1>1, <1>2, <3>1 DEF SameJob, JobStage, Untouched
  <2>6. QED
    BY <2>1, <2>2, <2>3, <2>4, <2>5 DEF SubmitNext
<1>5. \A k \in Job : JobStage(k)'
  BY <1>1, <1>2, <1>4, KeepJob DEF IndInv, Stages
<1>6. ASSUME NEW g \in Goroutine, NEW k \in Job, held'[g] = k PROVE StageOf(g, k)'
  <2>1. k # j /\ held[g] = k /\ SameGoroutine(g)
    BY <1>1, <1>2, <1>6 DEF SameGoroutine, goroutineVars, Held
  <2>2. QED
    BY <1>4, <2>1, KeepGoroutine DEF IndInv, Stages
<1>7. QED
  BY <1>5, <1>6 DEF Stages

\* A Cancel call changes a status in the store to CANCELLED, where every stage
\* allows for it, and nothing else.
LEMMA CancelStages ==
  ASSUME IndInv, NEW c \in Canceller, CancelNext(c)
  PROVE  Stages'
<1>1. /\ UNCHANGED <<schedulerVars, goroutineVars, submit, sent, results>>
      /\ \A j \in Job : \/ jobs'[j] = jobs[j]
                       \/ (jobs[j] # "ABSENT" /\ jobs'[j] = "CANCELLED")
  BY DEF CancelNext, CancelRead, CancelWrite, UpdateJobStatus, IndInv, TypeInv, TypeOK,
     StoreTypeOK, storeVars
<1>2. ASSUME NEW j \in Job PROVE JobStage(j)'
  <2>1. JobStage(j) /\ (Held(j)' <=> Held(j)) /\ (Queued(j)' <=> Queued(j))
    BY <1>1 DEF IndInv, Stages, Held, Queued, goroutineVars, schedulerVars
  <2>2. QED
    BY <1>1, <2>1 DEF JobStage, Untouched, Waiting, Ended, FailureShown, schedulerVars, Shown
<1>3. ASSUME NEW g \in Goroutine, NEW j \in Job, held'[g] = j PROVE StageOf(g, j)'
  <2>1. StageOf(g, j)
    BY <1>1, <1>3 DEF IndInv, Stages, goroutineVars
  <2>2. QED
    BY <1>1, <2>1 DEF StageOf, Waiting, RunningOn, FailureShown, goroutineVars, schedulerVars
<1>4. QED
  BY <1>2, <1>3 DEF Stages

\* Dequeue hands a waiting task to an idle goroutine.
LEMMA DequeueStages ==
  ASSUME IndInv, NEW g \in Goroutine, Dequeue(g)
  PROVE  Stages'
<1> DEFINE j == Head(pending)
<1>0. TypeOK /\ SchedulerTypeOK
  BY DEF IndInv, TypeInv, TypeOK
<1>1. /\ pc'[g] = "select" /\ held'[g] = j /\ held[g] = NoJob
      /\ \A h \in Goroutine \ {g} : SameGoroutine(h)
      /\ UNCHANGED <<storeVars, tasks, known, submit, sent>>
      /\ Receive
  BY <1>0 DEF Dequeue, Receive, handlerVars, SameGoroutine, TypeOK, IndInv, TypeInv, BusyHoldsTask
<1>2. /\ j \in Job /\ Queued(j)
      /\ \A k \in Job : Queued(k)' <=> Queued(k) /\ k # j
  BY <1>0, <1>1, ReceiveRemoves, ReceiveTyping DEF IndInv, SingleOwner
<1>3. \A k \in Job : Held(k)' <=> Held(k) \/ k = j
  BY <1>1, <1>2, MasterAssumption DEF Held, SameGoroutine
<1>4. ASSUME NEW k \in Job \ {j} PROVE SameJob(k) /\ JobStage(k)'
  <2>1. SameJob(k)
    BY <1>1, <1>2 DEF SameJob, storeVars
  <2>2. JobStage(k)'
    BY <1>1, <1>3, <2>1, KeepJob DEF IndInv, Stages
  <2>3. QED
    BY <2>1, <2>2
<1>5. ASSUME NEW k \in Job, k = j PROVE JobStage(k)' /\ StageOf(g, k)'
  <2>1. JobStage(k) /\ Waiting(k) /\ ~Queued(k)' /\ Held(k)'
    BY <1>2, <1>3, <1>5 DEF IndInv, Stages, JobStage
  <2>2. QED
    BY <1>1, <2>1 DEF JobStage, StageOf, Untouched, Waiting, storeVars
<1>6. ASSUME NEW h \in Goroutine, NEW k \in Job, held'[h] = k PROVE StageOf(h, k)'
  <2>1. CASE h = g
    BY <1>1, <1>5, <1>6, <2>1
  <2>2. CASE h # g
    <3>1. held[h] = k /\ SameGoroutine(h)
      BY <1>1, <1>6, <2>2 DEF SameGoroutine
    <3>2. k # j
      BY <1>2, <3>1 DEF IndInv, SingleOwner, Held
    <3>3. QED
      BY <1>4, <3>1, <3>2, KeepGoroutine DEF IndInv, Stages
  <2>3. QED
    BY <2>1, <2>2
<1>7. QED
  BY <1>4, <1>5, <1>6 DEF Stages

\* A step of dispatchTask keeps the stages of all tasks: its own by OwnStep, the others
\* because it leaves them alone.
LEMMA DispatchStages ==
  ASSUME IndInv, NEW g \in Goroutine, DispatchNext(g)
  PROVE  Stages'
<1>1. /\ pc[g] # "idle"
      /\ UNCHANGED <<submit, known>>
      /\ \A k \in Job \ {held[g]} : SameJob(k)
      /\ \A h \in Goroutine \ {g} : SameGoroutine(h)
      /\ held'[g] \in {held[g], NoJob}
  BY DispatchTouchesOwn
<1>2. /\ held[g] \in Job
      /\ \A h \in Goroutine \ {g} : held[h] # held[g]
  BY <1>1, HolderFacts
<1>3. PICK j \in Job : held[g] = j
  BY <1>2
<1>4. JobStage(j)' /\ (held'[g] = j => StageOf(g, j)')
  BY <1>3, OwnStep
<1>5. ASSUME NEW k \in Job \ {j} PROVE JobStage(k)'
  <2>1. Held(k)' <=> Held(k)
    BY <1>1, <1>3, MasterAssumption DEF Held, SameGoroutine
  <2>2. QED
    BY <1>1, <1>3, <2>1, KeepJob DEF IndInv, Stages
<1>6. ASSUME NEW h \in Goroutine, NEW k \in Job, held'[h] = k PROVE StageOf(h, k)'
  <2>1. CASE h = g
    BY <1>1, <1>3, <1>4, <1>6, <2>1, MasterAssumption
  <2>2. CASE h # g
    <3>1. held[h] = k /\ SameGoroutine(h) /\ k # j
      BY <1>1, <1>2, <1>3, <1>6, <2>2 DEF SameGoroutine
    <3>2. QED
      BY <1>1, <1>3, <3>1, KeepGoroutine DEF IndInv, Stages
  <2>3. QED
    BY <2>1, <2>2
<1>7. QED
  BY <1>4, <1>5, <1>6 DEF Stages

\* Steps that change neither a task nor a goroutine.
LEMMA QuietStages ==
  ASSUME IndInv, UNCHANGED <<storeVars, schedulerVars, goroutineVars, submit, sent>>
  PROVE  Stages'
<1>1. /\ \A j \in Job : SameJob(j) /\ (Held(j)' <=> Held(j)) /\ (j \in known' <=> j \in known)
      /\ \A g \in Goroutine : SameGoroutine(g)
  BY DEF SameJob, SameGoroutine, Held, Queued, storeVars, schedulerVars, goroutineVars
<1>2. ASSUME NEW j \in Job PROVE JobStage(j)'
  BY <1>1, KeepJob DEF IndInv, Stages
<1>3. ASSUME NEW g \in Goroutine, NEW j \in Job, held'[g] = j PROVE StageOf(g, j)'
  BY <1>1, <1>3, KeepGoroutine DEF IndInv, Stages, SameGoroutine
<1>4. QED
  BY <1>2, <1>3 DEF Stages

(***************************************************************************)
(* The inductive invariant and what follows from it.                       *)
(***************************************************************************)

\* At the start no task is submitted, so every stage holds.
LEMMA InitIndInv == Init => IndInv
<1> SUFFICES ASSUME Init PROVE IndInv
  OBVIOUS
<1>1. TypeInv
  BY InitTypeInv
<1>2. \A i \in 1..Len(pending) : FALSE
  BY DEF Init, SchedulerInit
<1>3. /\ \A j \in Job : ~Queued(j) /\ ~Held(j)
      /\ SingleOwner
  BY <1>2, MasterAssumption DEF Init, SingleOwner, Queued, QueuedOnce, Held
<1>4. Stages
  <2>1. ASSUME NEW j \in Job PROVE JobStage(j)
    BY <1>3, TaskTypesAssumption, StoreAssumption
       DEF Init, StoreInit, SchedulerInit, NewTask, JobStage, Untouched
  <2>2. QED
    BY <2>1, MasterAssumption DEF Init, Stages
<1>5. QED
  BY <1>1, <1>3, <1>4 DEF IndInv

\* IndInv is inductive: each handler, the loop and dispatchTask preserve it.
LEMMA NextIndInv == IndInv /\ [Next]_vars => IndInv'
<1> SUFFICES ASSUME IndInv, [Next]_vars PROVE IndInv'
  OBVIOUS
<1>1. TypeInv'
  BY NextTypeInv DEF IndInv
<1>2. SingleOwner'
  BY SingleOwnerStep DEF IndInv
<1>3. Stages'
  <2>1. CASE UNCHANGED vars
    BY <2>1, QuietStages DEF vars, handlerVars
  <2>2. CASE EnvironmentNext
    BY <2>2, QuietStages DEF EnvironmentNext, NodeUp, NodeDown, Shutdown, handlerVars
  <2>3. CASE \E j \in Job : Submit(j) \/ SubmitNext(j)
    BY <2>3, SubmitStages
  <2>4. CASE \E c \in Canceller : CancelNext(c)
    BY <2>4, CancelStages
  <2>5. CASE LoopReceive \/ LoopStop \/ DequeueAborted
    BY <2>5, QuietStages DEF LoopReceive, LoopStop, DequeueAborted, handlerVars
  <2>6. CASE \E g \in Goroutine : Dequeue(g)
    BY <2>6, DequeueStages
  <2>7. CASE \E g \in Goroutine : DispatchNext(g)
    BY <2>7, DispatchStages
  <2>8. QED
    BY <2>1, <2>2, <2>3, <2>4, <2>5, <2>6, <2>7 DEF Next, LoopNext
<1>4. QED
  BY <1>1, <1>2, <1>3 DEF IndInv

\* IndInv holds in every reachable state.
THEOREM Inductive == Spec => []IndInv
BY InitIndInv, NextIndInv, PTL DEF Spec

\* A task is never in the channel twice, with two goroutines, or in both places, so
\* dispatchTask may use it without a lock.
THEOREM OwnerIsUnique == Spec => []SingleOwner
<1>1. IndInv => SingleOwner
  BY DEF IndInv
<1>2. QED
  BY <1>1, Inductive, PTL

\* However calls fail and nodes come and go, no task is sent to workers more than
\* MaxRetries + 1 times.
THEOREM AttemptsAreBounded == Spec => []AttemptsBounded
<1>1. IndInv => AttemptsBounded
  BY DEF IndInv, Stages, JobStage, AttemptsBounded
<1>2. QED
  BY <1>1, Inductive, PTL

\* The scheduler's RUNNING and PENDING are true of every task.
THEOREM SchedulerIsRight == Spec => []SchedulerTellsTheTruth
<1>1. ASSUME IndInv PROVE SchedulerTellsTheTruth
  <2>1. ASSUME NEW g \in Goroutine, pc[g] \in {"rpc", "save", "complete"}
        PROVE  tasks[held[g]].status = "RUNNING" /\ tasks[held[g]].worker = dest[g]
    <3>1. PICK j \in Job : held[g] = j
      BY <1>1, <2>1, HolderFacts
    <3>2. QED
      BY <1>1, <2>1, <3>1 DEF IndInv, Stages, StageOf, RunningOn
  <2>2. ASSUME NEW j \in Job, tasks[j].status = "RUNNING"
        PROVE  \E g \in Goroutine : /\ held[g] = j
                                    /\ dest[g] = tasks[j].worker
                                    /\ pc[g] \in {"rpc", "fail", "save", "complete"}
    <3>1. JobStage(j)
      BY <1>1 DEF IndInv, Stages
    <3>2. Held(j)
      BY <2>2, <3>1 DEF JobStage, Untouched, Waiting, Ended
    <3>3. PICK g \in Goroutine : held[g] = j
      BY <3>2 DEF Held
    <3>4. StageOf(g, j) /\ pc[g] # "idle" /\ pc[g] \in DispatchState
      BY <1>1, <3>3, MasterAssumption DEF IndInv, Stages, TypeInv, TypeOK, BusyHoldsTask
    <3>5. QED
      BY <2>2, <3>3, <3>4 DEF StageOf, DispatchState, Waiting, RunningOn
  <2>3. ASSUME NEW j \in Job, tasks[j].status = "PENDING" PROVE tasks[j].worker = NoNode
    BY <1>1, <2>3 DEF IndInv, Stages, JobStage
  <2>4. QED
    BY <2>1, <2>2, <2>3 DEF SchedulerTellsTheTruth
<1>2. QED
  BY <1>1, Inductive, PTL

\* A refused task is never executed, and what is dispatched is known to the scheduler.
THEOREM RefusalsAreHonest == Spec => []RefusalIsHonest
<1>1. IndInv => RefusalIsHonest
  BY DEF IndInv, SingleOwner, Stages, JobStage, Untouched, RefusalIsHonest
<1>2. QED
  BY <1>1, Inductive, PTL

\* What clients read in the store agrees with the results and with the scheduler.
THEOREM StoreIsRight == Spec => []StoreAgrees
<1>1. ASSUME IndInv, NEW j \in Job
      PROVE  /\ results[j] # NoResult => jobs[j] \in {Verdict(results[j]), "CANCELLED"}
             /\ jobs[j] = "COMPLETED" => results[j] = "SUCCESS"
             /\ tasks[j].status = "COMPLETED" => results[j] # NoResult
             /\ tasks[j].status = "FAILED" /\ ~Held(j) => jobs[j] \in {"FAILED", "CANCELLED"}
  <2>1. JobStage(j)
    BY <1>1 DEF IndInv, Stages
  <2>2. ~Held(j) /\ tasks[j].status = "COMPLETED" => results[j] # NoResult
    BY <2>1 DEF JobStage, Untouched, Waiting, Ended
  <2>3. ~Held(j) /\ tasks[j].status = "FAILED" => jobs[j] \in {"FAILED", "CANCELLED"}
    BY <2>1 DEF JobStage, Untouched, Waiting, Ended, FailureShown
  <2>4. ASSUME Held(j) PROVE tasks[j].status # "COMPLETED"
    <3>1. PICK g \in Goroutine : held[g] = j
      BY <2>4 DEF Held
    <3>2. StageOf(g, j) /\ pc[g] # "idle" /\ pc[g] \in DispatchState
      BY <1>1, <3>1, MasterAssumption DEF IndInv, Stages, TypeInv, TypeOK, BusyHoldsTask
    <3>3. QED
      BY <3>2 DEF StageOf, DispatchState, Waiting, RunningOn
  <2>5. QED
    BY <2>1, <2>2, <2>3, <2>4 DEF JobStage
<1>2. IndInv => StoreAgrees
  BY <1>1 DEF StoreAgrees
<1>3. QED
  BY <1>2, Inductive, PTL

\* A goroutine whose task has a result is about to mark it complete; no other step
\* than a Cancel call touches the job any more.
THEOREM ResultsAreFinal == Spec => ResultIsFinal
<1>1. ASSUME IndInv, [Next]_vars, NEW j \in Job, results[j] # NoResult
      PROVE  /\ results'[j] = results[j]
             /\ sent'[j] = sent[j]
             /\ jobs'[j] \in {jobs[j], "CANCELLED"}
  <2> DEFINE Kept == /\ results'[j] = results[j]
                     /\ sent'[j] = sent[j]
                     /\ jobs'[j] \in {jobs[j], "CANCELLED"}
  <2>0. /\ TypeOK /\ StoreTypeOK
        /\ submit[j] = "accepted"
    BY <1>1 DEF IndInv, TypeInv, TypeOK, Stages, JobStage, Untouched
  <2>1. CASE UNCHANGED vars
    BY <2>1 DEF vars, storeVars
  <2>2. CASE EnvironmentNext
    BY <2>2 DEF EnvironmentNext, NodeUp, NodeDown, Shutdown, storeVars
  <2>3. ASSUME NEW k \in Job, Submit(k) \/ SubmitNext(k) PROVE Kept
    <3>1. k # j
      BY <2>0, <2>3 DEF Submit, SubmitNext, SubmitInsert, SubmitSend, SubmitFull, SubmitUndo,
         SubmitStep
    <3>2. QED
      BY <2>0, <2>3, <3>1 DEF Submit, SubmitNext, SubmitInsert, SubmitSend, SubmitFull,
         SubmitUndo, SubmitStep, SaveJob, StoreTypeOK, storeVars
  <2>4. ASSUME NEW c \in Canceller, CancelNext(c) PROVE Kept
    BY <2>0, <2>4 DEF CancelNext, CancelRead, CancelWrite, UpdateJobStatus, StoreTypeOK, storeVars
  <2>5. CASE LoopNext
    BY <2>5 DEF LoopNext, LoopReceive, LoopStop, DequeueAborted, Dequeue, storeVars
  <2>6. ASSUME NEW g \in Goroutine, DispatchNext(g) PROVE Kept
    <3>1. CASE held[g] = j
      <4>1. pc[g] = "complete"
        BY <1>1, <3>1 DEF IndInv, Stages, StageOf
      <4>2. CompleteTask(g)
        BY <2>6, <4>1 DEF DispatchNext, SelectNode, NoHealthyNodes, DialFailed, StartExecute,
           ExecuteReturned, ExecuteFailed, MarkTaskFailed, MarkJobFailed, Retry, GiveUp,
           Requeue, RequeueSend, RequeueFull, SaveTaskResult, Continue, Return, Transition
      <4>3. QED
        BY <4>2 DEF CompleteTask, storeVars
    <3>2. CASE held[g] # j
      BY <1>1, <2>6, <3>2, DispatchTouchesOwn DEF SameJob
    <3>3. QED
      BY <3>1, <3>2
  <2>7. QED
    BY <1>1, <2>1, <2>2, <2>3, <2>4, <2>5, <2>6 DEF Next
<1>2. IndInv /\ [Next]_vars => [ResultKept]_vars
  BY <1>1 DEF ResultKept
<1>3. QED
  BY <1>2, Inductive, PTL DEF Spec, ResultIsFinal

(***************************************************************************)
(* Nothing is lost while the channel has room for every task.              *)
(***************************************************************************)

\* The channel is no longer than any set its tasks belong to: they are all different.
LEMMA ChannelFits ==
  ASSUME IndInv, NEW T, IsFiniteSet(T), \A j \in Job : Queued(j) => j \in T
  PROVE  Len(pending) \in Nat /\ Cardinality(T) \in Nat /\ Len(pending) <= Cardinality(T)
<1>1. /\ pending \in [1..Len(pending) -> T]
      /\ Len(pending) \in Nat
  <2>1. pending \in [1..Len(pending) -> Job] /\ Len(pending) \in Nat
    BY DEF IndInv, TypeInv, TypeOK, SchedulerTypeOK
  <2>2. QED
    BY <2>1 DEF Queued
<1>2. Cardinality(T) \in Nat
  BY FS_CardinalityType
<1>3. ASSUME NEW n \in Nat PROVE IsFiniteSet(1..n) /\ Cardinality(1..n) = n
  <2>1. /\ IsFiniteSet(1..n)
        /\ Cardinality(1..n) = IF 1 > n THEN 0 ELSE n - 1 + 1
    BY FS_Interval
  <2>2. QED
    BY <2>1
<1>4. ASSUME Cardinality(T) < Len(pending) PROVE FALSE
  <2>1. \E i, k \in 1..Len(pending) : i # k /\ pending[i] = pending[k]
    BY <1>1, <1>3, <1>4, FS_PigeonHole
  <2>2. QED
    BY <2>1 DEF IndInv, SingleOwner, QueuedOnce
<1>5. QED
  BY <1>1, <1>2, <1>4

\* A goroutine that sends its task back finds room: the tasks in the channel are not
\* its own.
LEMMA RoomForOneMore ==
  ASSUME IndInv, MaxQueue >= Cardinality(Job), NEW g \in Goroutine, held[g] \in Job
  PROVE  ~QueueFull
<1> DEFINE others == Job \ {held[g]}
<1>1. /\ IsFiniteSet(others)
      /\ Cardinality(others) = Cardinality(Job) - 1
      /\ Cardinality(Job) \in Nat
  BY JobsAssumption, FS_RemoveElement, FS_CardinalityType
<1>2. \A j \in Job : Queued(j) => j \in others
  BY DEF IndInv, SingleOwner, Held
<1>3. Len(pending) \in Nat /\ Len(pending) <= Cardinality(others)
  BY <1>1, <1>2, ChannelFits
<1>4. QED
  BY <1>1, <1>3, SchedulerAssumption DEF QueueFull

\* A task that the scheduler accepted is in the channel, with a goroutine, or settled.
THEOREM TasksAreKept == Spec => []NoTaskLost
<1> DEFINE Safe(j) == submit[j] = "accepted" => Queued(j) \/ Held(j) \/ Settled(j)
<1>1. Init => NoTaskLost
  BY DEF Init, NoTaskLost
<1>2. ASSUME IndInv, NoTaskLost, [Next]_vars, MaxQueue >= Cardinality(Job), NEW j \in Job
      PROVE  Safe(j)'
  <2>0. Safe(j) /\ TypeOK /\ SchedulerTypeOK
    BY <1>2 DEF NoTaskLost, IndInv, TypeInv, TypeOK
  <2>1. ASSUME SameJob(j), submit'[j] = submit[j], Held(j)' <=> Held(j) PROVE Safe(j)'
    BY <2>0, <2>1 DEF SameJob, Settled
  <2>2. ASSUME UNCHANGED <<storeVars, schedulerVars, goroutineVars, submit, sent>>
        PROVE  Safe(j)'
    BY <2>1, <2>2 DEF SameJob, Held, Queued, storeVars, schedulerVars, goroutineVars
  <2>3. CASE UNCHANGED vars
    BY <2>2, <2>3 DEF vars, handlerVars
  <2>4. CASE EnvironmentNext
    BY <2>2, <2>4 DEF EnvironmentNext, NodeUp, NodeDown, Shutdown, handlerVars
  <2>5. ASSUME NEW k \in Job, Submit(k) \/ SubmitNext(k) PROVE Safe(j)'
    <3>1. CASE SubmitSend(k)
      <4>1. /\ \A i \in Job : Queued(i)' <=> Queued(i) \/ i = k
            /\ \A i \in Job \ {k} : submit'[i] = submit[i]
            /\ UNCHANGED <<tasks, held>>
        BY <2>0, <3>1, SendAdds DEF SubmitSend, SubmitStep, Send, TypeOK, goroutineVars
      <4>2. QED
        BY <2>0, <4>1 DEF Held, Settled
    <3>2. CASE ~SubmitSend(k)
      <4>1. /\ submit'[k] # "accepted"
            /\ \A i \in Job \ {k} : submit'[i] = submit[i]
            /\ UNCHANGED <<pending, held>>
            /\ \A i \in Job \ {k} : tasks'[i] = tasks[i]
        BY <2>0, <2>5, <3>2 DEF Submit, SubmitNext, SubmitInsert, SubmitFull, SubmitUndo,
           SubmitStep, EnqueueRegister, EnqueueUndo, TypeOK, SchedulerTypeOK, schedulerVars,
           goroutineVars
      <4>2. QED
        BY <2>0, <4>1 DEF Held, Queued, Settled
    <3>3. QED
      BY <3>1, <3>2
  <2>6. ASSUME NEW c \in Canceller, CancelNext(c) PROVE Safe(j)'
    <3>1. UNCHANGED <<schedulerVars, goroutineVars, submit>>
      BY <2>6 DEF CancelNext, CancelRead, CancelWrite
    <3>2. QED
      BY <2>0, <3>1 DEF Held, Queued, Settled, schedulerVars, goroutineVars
  <2>7. CASE LoopReceive \/ LoopStop \/ DequeueAborted
    BY <2>2, <2>7 DEF LoopReceive, LoopStop, DequeueAborted, handlerVars
  <2>8. ASSUME NEW g \in Goroutine, Dequeue(g) PROVE Safe(j)'
    <3>1. /\ \A i \in Job : Queued(i)' <=> Queued(i) /\ i # Head(pending)
          /\ held[g] = NoJob /\ held'[g] = Head(pending)
          /\ \A h \in Goroutine \ {g} : held'[h] = held[h]
          /\ UNCHANGED <<tasks, submit>>
      BY <1>2, <2>0, <2>8, ReceiveRemoves
         DEF Dequeue, Receive, IndInv, SingleOwner, TypeInv, TypeOK, BusyHoldsTask, handlerVars
    <3>2. QED
      BY <2>0, <3>1, MasterAssumption DEF Held, Settled
  <2>9. ASSUME NEW g \in Goroutine, DispatchNext(g) PROVE Safe(j)'
    <3>1. /\ pc[g] # "idle"
          /\ UNCHANGED <<submit, known>>
          /\ \A k \in Job \ {held[g]} : SameJob(k)
          /\ \A h \in Goroutine \ {g} : held'[h] = held[h]
          /\ held'[g] \in {held[g], NoJob}
      BY <1>2, <2>9, DispatchTouchesOwn DEF SameGoroutine
    <3>2. CASE held[g] # j
      <4>1. Held(j)' <=> Held(j)
        BY <3>1, <3>2, MasterAssumption DEF Held
      <4>2. QED
        BY <2>1, <3>1, <3>2, <4>1
    <3>3. CASE held[g] = j /\ held'[g] = j
      BY <3>3 DEF Held
    <3>4. CASE held[g] = j /\ held'[g] = NoJob
      <4>1. GiveUp(g) \/ RequeueSend(g) \/ RequeueFull(g) \/ CompleteTask(g)
        BY <2>9, <3>4, MasterAssumption DEF DispatchNext, SelectNode, NoHealthyNodes,
           DialFailed, StartExecute, ExecuteReturned, ExecuteFailed, MarkTaskFailed,
           MarkJobFailed, Retry, Requeue, SaveTaskResult, Continue, Transition
      <4>2. j \in known /\ StageOf(g, j)
        BY <1>2, <3>1, <3>4, HolderFacts DEF IndInv, Stages
      <4>3. CASE GiveUp(g)
        BY <3>4, <4>2, <4>3
           DEF GiveUp, Return, Transition, StageOf, Settled, schedulerVars, CanRetry
      <4>4. CASE RequeueSend(g)
        BY <2>0, <3>4, <4>4, SendAdds DEF RequeueSend
      <4>5. CASE RequeueFull(g)
        BY <1>2, <3>4, <4>5, RoomForOneMore DEF RequeueFull
      <4>6. CASE CompleteTask(g)
        BY <2>0, <3>4, <4>2, <4>6, TaskEffects DEF CompleteTask, Settled, TaskBecomes
      <4>7. QED
        BY <4>1, <4>3, <4>4, <4>5, <4>6
    <3>5. QED
      BY <3>1, <3>2, <3>3, <3>4
  <2>10. QED
    BY <1>2, <2>3, <2>4, <2>5, <2>6, <2>7, <2>8, <2>9 DEF Next, LoopNext
<1>3. IndInv /\ NoTaskLost /\ [Next]_vars => NoTaskLost'
  BY <1>2 DEF NoTaskLost
<1>4. QED
  BY <1>1, <1>3, Inductive, PTL DEF Spec

==============================================================================
