------------------------ MODULE MasterRefinementProofs ------------------------
(***************************************************************************)
(* Machine-checked proofs that Master implements TaskPool and JobService:  *)
(* each step of the master is a step of the abstract specification or      *)
(* leaves it alone.                                                        *)
(***************************************************************************)
EXTENDS MasterRefinement, MasterProofs

\* The task of the pool is not touched.
SamePool == UNCHANGED <<phaseBar, sent, results>>

\* The pool sees j go to another phase, and nothing of the other tasks.
PoolMove(j, to) == phaseBar' = [phaseBar EXCEPT ![j] = to]

\* A task that a step leaves alone, with its owner, stays in its phase.
LEMMA SamePhase ==
  ASSUME NEW j \in Job, SameJob(j), submit'[j] = submit[j], Held(j)' <=> Held(j)
  PROVE  PhaseOf(j)' = PhaseOf(j)
BY DEF SameJob, PhaseOf

\* A pool task is where its own phase says, when all others have kept theirs.
LEMMA MoveOf ==
  ASSUME NEW j \in Job, NEW to, PhaseOf(j)' = to,
         \A k \in Job \ {j} : PhaseOf(k)' = PhaseOf(k)
  PROVE  PoolMove(j, to)
BY DEF PoolMove, phaseBar

\* A step that leaves tasks, owners, requests and results alone is invisible to the pool.
LEMMA QuietPool ==
  ASSUME UNCHANGED <<pending, tasks, results, held, submit, sent>>
  PROVE  SamePool
<1>1. \A j \in Job : PhaseOf(j)' = PhaseOf(j)
  BY DEF PhaseOf, Queued, Held
<1>2. QED
  BY <1>1 DEF SamePool, phaseBar

\* Steps invisible to the pool stutter there.
LEMMA SamePoolStutters == SamePool => UNCHANGED Pool!vars
BY DEF SamePool, Pool!vars

\* A master that has just started is an empty pool.
LEMMA InitPool == Init => Pool!Init
<1> SUFFICES ASSUME Init PROVE Pool!Init
  OBVIOUS
<1>1. \A j \in Job : PhaseOf(j) = "absent"
  BY DEF Init, PhaseOf
<1>2. QED
  BY <1>1 DEF Init, StoreInit, phaseBar, Pool!Init

\* A Submit call offers its task, then has it accepted or refused.
LEMMA SubmitPool ==
  ASSUME IndInv, NEW j \in Job, Submit(j) \/ SubmitNext(j)
  PROVE  Pool!Next \/ SamePool
<1>0. TypeOK /\ StoreTypeOK /\ SchedulerTypeOK
  BY DEF IndInv, TypeInv, TypeOK
<1>1. /\ UNCHANGED <<held, sent>>
      /\ submit[j] \in {"none", "saved", "inserted", "undo"}
      /\ \A k \in Job \ {j} : submit'[k] = submit[k]
  BY <1>0 DEF Submit, SubmitNext, SubmitInsert, SubmitSend, SubmitFull, SubmitUndo, SubmitStep,
     TypeOK, goroutineVars
<1>2. /\ results[j] = NoResult
      /\ \A k \in Job : Held(k)' <=> Held(k)
      /\ UNCHANGED pending => \A k \in Job : Queued(k)' <=> Queued(k)
  BY <1>1 DEF IndInv, Stages, JobStage, Untouched, Held, Queued
<1> USE DEF SubmitStep, storeVars, schedulerVars
<1>3. CASE Submit(j)
  <2>1. /\ submit[j] = "none" /\ submit'[j] = "saved"
        /\ UNCHANGED <<pending, tasks, results>>
    BY <1>0, <1>3 DEF Submit, SaveJob, TypeOK
  <2>2. PhaseOf(j) = "absent" /\ PhaseOf(j)' = "offered"
    BY <2>1 DEF PhaseOf
  <2>3. \A k \in Job \ {j} : PhaseOf(k)' = PhaseOf(k)
    BY <1>1, <1>2, <2>1 DEF PhaseOf
  <2>4. Pool!Offer(j)
    BY <1>1, <2>1, <2>2, <2>3, MoveOf DEF Pool!Offer, Pool!Move, PoolMove, phaseBar
  <2>5. QED
    BY <2>4 DEF Pool!Next
<1>4. CASE SubmitInsert(j) \/ SubmitFull(j)
  <2>1. /\ submit[j] \in {"saved", "inserted"} /\ submit'[j] \in {"inserted", "undo"}
        /\ UNCHANGED <<pending, results>>
        /\ \A k \in Job \ {j} : tasks'[k] = tasks[k]
    BY <1>0, <1>4 DEF SubmitInsert, SubmitFull, EnqueueRegister, TypeOK, SchedulerTypeOK
  <2>2. PhaseOf(j)' = PhaseOf(j)
    BY <2>1 DEF PhaseOf
  <2>3. \A k \in Job \ {j} : PhaseOf(k)' = PhaseOf(k)
    BY <1>1, <1>2, <2>1 DEF PhaseOf
  <2>4. QED
    BY <1>1, <2>1, <2>2, <2>3 DEF SamePool, phaseBar
<1>5. CASE SubmitSend(j)
  <2>1. /\ submit[j] = "inserted" /\ submit'[j] = "accepted"
        /\ UNCHANGED <<tasks, results>>
        /\ \A k \in Job : Queued(k)' <=> Queued(k) \/ k = j
    BY <1>0, <1>5, SendAdds DEF SubmitSend, Send, TypeOK
  <2>2. PhaseOf(j) = "offered" /\ PhaseOf(j)' = "live"
    BY <1>2, <2>1 DEF PhaseOf
  <2>3. \A k \in Job \ {j} : PhaseOf(k)' = PhaseOf(k)
    BY <1>1, <1>2, <2>1 DEF PhaseOf
  <2>4. Pool!Accept(j)
    BY <1>1, <2>1, <2>2, <2>3, MoveOf DEF Pool!Accept, Pool!Move, PoolMove, phaseBar
  <2>5. QED
    BY <2>4 DEF Pool!Next
<1>6. CASE SubmitUndo(j)
  <2>1. /\ submit[j] = "undo" /\ submit'[j] = "rejected"
        /\ UNCHANGED <<pending, tasks, results>>
    BY <1>0, <1>6 DEF SubmitUndo, EnqueueUndo, TypeOK
  <2>2. PhaseOf(j) = "offered" /\ PhaseOf(j)' = "refused"
    BY <2>1 DEF PhaseOf
  <2>3. \A k \in Job \ {j} : PhaseOf(k)' = PhaseOf(k)
    BY <1>1, <1>2, <2>1 DEF PhaseOf
  <2>4. Pool!Refuse(j)
    BY <1>1, <2>1, <2>2, <2>3, MoveOf DEF Pool!Refuse, Pool!Move, PoolMove, phaseBar
  <2>5. QED
    BY <2>4 DEF Pool!Next
<1>7. QED
  BY <1>3, <1>4, <1>5, <1>6 DEF SubmitNext

\* Dequeue moves a live task from the channel to a goroutine.
LEMMA DequeuePool ==
  ASSUME IndInv, NEW g \in Goroutine, Dequeue(g)
  PROVE  SamePool
<1>1. /\ Receive /\ TypeOK /\ SchedulerTypeOK
      /\ held[g] = NoJob /\ held' = [held EXCEPT ![g] = Head(pending)]
      /\ UNCHANGED <<tasks, results, submit, sent>>
  BY DEF Dequeue, Receive, IndInv, TypeInv, TypeOK, BusyHoldsTask, storeVars, handlerVars
<1>2. /\ Head(pending) \in Job /\ Queued(Head(pending))
      /\ \A k \in Job : Queued(k)' <=> Queued(k) /\ k # Head(pending)
  BY <1>1, ReceiveRemoves, ReceiveTyping DEF IndInv, SingleOwner
<1>3. \A k \in Job : Held(k)' <=> Held(k) \/ k = Head(pending)
  BY <1>1, <1>2, MasterAssumption DEF Held, TypeOK
<1>4. \A k \in Job : PhaseOf(k)' = PhaseOf(k)
  BY <1>1, <1>2, <1>3 DEF PhaseOf
<1>5. QED
  BY <1>1, <1>4 DEF SamePool, phaseBar
\* A requeue that meets a full channel loses its task, and the tasks in the channel
\* are the live ones that fill it.
LEMMA LosePool ==
  ASSUME IndInv, NEW g \in Goroutine, NEW j \in Job, held[g] = j,
         QueueFull, ~Queued(j)
  PROVE  Pool!Crowded(j)
<1> DEFINE Alive == Pool!LiveOthers(j)
<1>1. IsFiniteSet(Alive)
  BY JobsAssumption, FS_Subset DEF Pool!LiveOthers
<1>2. ASSUME NEW k \in Job, Queued(k) PROVE k \in Alive
  <2>1. k # j /\ submit[k] = "accepted" /\ results[k] = NoResult
    BY <1>2 DEF IndInv, SingleOwner, Stages, JobStage, Waiting
  <2>2. PhaseOf(k) = "live"
    BY <1>2, <2>1 DEF PhaseOf
  <2>3. QED
    BY <2>1, <2>2 DEF phaseBar, Pool!LiveOthers
<1>3. Len(pending) \in Nat /\ Cardinality(Alive) \in Nat /\ Len(pending) <= Cardinality(Alive)
  BY <1>1, <1>2, ChannelFits
<1>4. Pool!Cardinality(Alive) = Cardinality(Alive)
  BY Zenon DEF Pool!Cardinality, Cardinality
<1>5. QED
  BY <1>3, <1>4, SchedulerAssumption DEF QueueFull, Pool!Crowded

\* Among the steps of dispatchTask the pool sees the request to the worker, the save
\* of its result, the decision not to retry and the loss of a task.
LEMMA DispatchPool ==
  ASSUME IndInv, IndInv', NEW g \in Goroutine, DispatchNext(g)
  PROVE  Pool!Next \/ SamePool
<1>0. TypeOK /\ StoreTypeOK /\ SchedulerTypeOK /\ MaxRetries \in Nat
  BY TaskTypesAssumption DEF IndInv, TypeInv, TypeOK
<1>1. /\ pc[g] # "idle" /\ pc[g] \in DispatchState
      /\ UNCHANGED <<submit, known>>
      /\ \A k \in Job \ {held[g]} : SameJob(k)
      /\ \A h \in Goroutine \ {g} : held'[h] = held[h]
      /\ held'[g] \in {held[g], NoJob}
  BY <1>0, DispatchTouchesOwn DEF SameGoroutine, TypeOK
<1>2. PICK j \in Job : held[g] = j
  BY <1>1, HolderFacts
<1>3. /\ submit[j] = "accepted" /\ j \in known /\ ~Queued(j) /\ Held(j)
      /\ \A h \in Goroutine \ {g} : held[h] # j
      /\ StageOf(g, j) /\ sent[j] \in Nat
  BY <1>0, <1>1, <1>2, HolderFacts DEF IndInv, Stages, Held, TypeOK
<1>4. \A k \in Job \ {j} : PhaseOf(k)' = PhaseOf(k)
  <2>1. ASSUME NEW k \in Job \ {j} PROVE Held(k)' <=> Held(k)
    BY <1>1, <1>2, MasterAssumption DEF Held
  <2>2. QED
    BY <1>1, <1>2, <2>1, SamePhase
<1>5. Held(j)' <=> held'[g] = j
  BY <1>1, <1>3 DEF Held
<1>6. ASSUME PhaseOf(j)' = PhaseOf(j), UNCHANGED <<sent, results>> PROVE SamePool
  BY <1>4, <1>6 DEF SamePool, phaseBar
<1> USE DEF Elsewhere, Continue, Return, Transition, storeVars, schedulerVars, handlerVars
<1>7. CASE \/ \E n \in Node : SelectNode(g, n)
           \/ NoHealthyNodes(g) \/ DialFailed(g)
           \/ \E result \in ExecuteReply : ExecuteReturned(g, result)
           \/ ExecuteFailed(g) \/ Retry(g)
  BY <1>7, QuietPool DEF SelectNode, NoHealthyNodes, DialFailed, ExecuteReturned,
     ExecuteFailed, Retry
<1>8. CASE MarkTaskFailed(g) \/ MarkJobFailed(g) \/ Requeue(g)
  <2>1. UNCHANGED <<held, results, sent>>
    BY <1>8 DEF MarkTaskFailed, MarkJobFailed, Requeue, UpdateJobStatus
  <2>2. results[j] = NoResult
    BY <1>3, <1>8 DEF StageOf, MarkTaskFailed, MarkJobFailed, Requeue
  <2>3. PhaseOf(j)' = PhaseOf(j)
    BY <1>1, <1>2, <1>3, <1>5, <2>1, <2>2 DEF PhaseOf
  <2>4. QED
    BY <1>6, <2>1, <2>3
<1>9. CASE StartExecute(g)
  <2>1. /\ UNCHANGED <<held, results>>
        /\ sent' = [sent EXCEPT ![j] = @ + 1]
        /\ results[j] = NoResult /\ sent[j] <= MaxRetries
    BY <1>2, <1>3, <1>9 DEF StartExecute, StageOf, Waiting
  <2>2. PhaseOf(j) = "live" /\ PhaseOf(j)' = "live"
    BY <1>1, <1>2, <1>3, <1>5, <2>1 DEF PhaseOf
  <2>3. UNCHANGED phaseBar /\ phaseBar[j] = "live"
    BY <1>4, <2>2 DEF phaseBar
  <2>4. sent[j] < MaxRetries + 1
    BY <1>0, <1>3, <2>1
  <2>5. Pool!Attempt(j)
    BY <2>1, <2>3, <2>4 DEF Pool!Attempt
  <2>6. QED
    BY <2>5 DEF Pool!Next
<1>10. CASE SaveTaskResult(g)
  <2>1. /\ results' = [results EXCEPT ![j] = reply[g]]
        /\ UNCHANGED sent
        /\ results[j] = NoResult /\ sent[j] > 0
        /\ reply[g] \in ResultStatus /\ reply[g] # NoResult
    BY <1>0, <1>2, <1>3, <1>10 DEF SaveTaskResult, SaveResult, StageOf, TypeOK
  <2>2. results'[j] # NoResult
    BY <1>0, <2>1 DEF StoreTypeOK
  <2>3. PhaseOf(j) = "live" /\ PhaseOf(j)' = "done"
    BY <1>1, <1>3, <2>1, <2>2 DEF PhaseOf
  <2>4. Pool!Finish(j, reply[g])
    BY <1>4, <2>1, <2>3, MoveOf DEF Pool!Finish, Pool!Move, PoolMove, phaseBar
  <2>5. QED
    BY <2>1, <2>4 DEF Pool!Next
<1>11. CASE GiveUp(g)
  <2>1. /\ UNCHANGED <<pending, tasks, results, sent>>
        /\ held'[g] = NoJob
        /\ results[j] = NoResult /\ tasks[j].status = "FAILED"
    BY <1>0, <1>3, <1>11 DEF GiveUp, StageOf, TypeOK
  <2>2. ~Queued(j)' /\ ~Held(j)'
    BY <1>3, <1>5, <2>1, MasterAssumption DEF Queued
  <2>3. PhaseOf(j) = "live" /\ PhaseOf(j)' = "failed"
    BY <1>1, <1>3, <2>1, <2>2 DEF PhaseOf
  <2>4. Pool!Fail(j)
    BY <1>4, <2>1, <2>3, MoveOf DEF Pool!Fail, Pool!Move, PoolMove, phaseBar
  <2>5. QED
    BY <2>4 DEF Pool!Next
<1>12. CASE RequeueSend(g)
  <2>1. UNCHANGED <<tasks, results, sent>> /\ Queued(j)' /\ results[j] = NoResult
    BY <1>0, <1>2, <1>3, <1>12, SendAdds DEF RequeueSend, Send, StageOf
  <2>2. PhaseOf(j)' = PhaseOf(j)
    BY <1>1, <1>3, <2>1 DEF PhaseOf
  <2>3. QED
    BY <1>6, <2>1, <2>2
<1>13. CASE RequeueFull(g)
  <2>1. /\ UNCHANGED <<pending, tasks, results, sent>>
        /\ held'[g] = NoJob
        /\ results[j] = NoResult /\ tasks[j].status = "PENDING"
        /\ QueueFull
    BY <1>0, <1>3, <1>13 DEF RequeueFull, StageOf, Waiting, TypeOK
  <2>2. ~Queued(j)' /\ ~Held(j)'
    BY <1>3, <1>5, <2>1, MasterAssumption DEF Queued
  <2>3. PhaseOf(j) = "live" /\ PhaseOf(j)' = "lost"
    BY <1>1, <1>3, <2>1, <2>2 DEF PhaseOf
  <2>4. Pool!Crowded(j)
    BY <1>2, <1>3, <2>1, LosePool
  <2>5. Pool!Move(j, "live", "lost")
    BY <1>4, <2>3, MoveOf DEF Pool!Move, PoolMove, phaseBar
  <2>6. Pool!Lose(j)
    <3>1. UNCHANGED <<sent, results>>
      BY <2>1
    <3>2. QED
      BY <2>4, <2>5, <3>1 DEF Pool!Lose
  <2>7. QED
    BY <2>6 DEF Pool!Next
<1>14. CASE CompleteTask(g)
  <2>1. UNCHANGED <<results, sent>> /\ results[j] # NoResult
    BY <1>3, <1>14 DEF CompleteTask, StageOf
  <2>2. PhaseOf(j)' = PhaseOf(j)
    BY <1>1, <1>3, <2>1 DEF PhaseOf
  <2>3. QED
    BY <1>6, <2>1, <2>2
<1>15. QED
  BY <1>7, <1>8, <1>9, <1>10, <1>11, <1>12, <1>13, <1>14 DEF DispatchNext

\* Whatever clients, nodes and goroutines do, the master behaves as a task pool.
THEOREM MasterImplementsTaskPool == Spec => ImplementsPool
<1>1. ASSUME IndInv, IndInv', [Next]_vars
      PROVE  Pool!Next \/ SamePool
  <2>1. CASE UNCHANGED vars
    BY <2>1, QuietPool DEF vars, storeVars, schedulerVars, handlerVars, goroutineVars
  <2>2. CASE EnvironmentNext
    BY <2>2, QuietPool DEF EnvironmentNext, NodeUp, NodeDown, Shutdown, storeVars, schedulerVars,
       handlerVars, goroutineVars
  <2>3. CASE \E j \in Job : Submit(j) \/ SubmitNext(j)
    BY <1>1, <2>3, SubmitPool
  <2>4. CASE \E c \in Canceller : CancelNext(c)
    BY <2>4, QuietPool DEF CancelNext, CancelRead, CancelWrite, UpdateJobStatus, storeVars,
       schedulerVars, goroutineVars
  <2>5. CASE LoopReceive \/ LoopStop \/ DequeueAborted
    BY <2>5, QuietPool DEF LoopReceive, LoopStop, DequeueAborted, storeVars, schedulerVars,
       handlerVars, goroutineVars
  <2>6. CASE \E g \in Goroutine : Dequeue(g)
    BY <1>1, <2>6, DequeuePool
  <2>7. CASE \E g \in Goroutine : DispatchNext(g)
    BY <1>1, <2>7, DispatchPool
  <2>8. QED
    BY <1>1, <2>1, <2>2, <2>3, <2>4, <2>5, <2>6, <2>7 DEF Next, LoopNext
<1>2. IndInv /\ IndInv' /\ [Next]_vars => [Pool!Next]_(Pool!vars)
  BY <1>1, SamePoolStutters
<1>3. QED
  BY <1>2, InitPool, Inductive, PTL DEF Spec, Pool!Spec, ImplementsPool

\* The end of a task is final because it is in the pool, whose steps move live tasks and
\* those on offer only.
THEOREM TasksAreOverForGood == Spec => TasksEndForGood
<1> DEFINE Kept(t) == phaseBar[t] \in Pool!Over =>
             phaseBar'[t] = phaseBar[t] /\ sent'[t] = sent[t] /\ results'[t] = results[t]
<1>1. ASSUME TypeOK, StoreTypeOK, Pool!Next, NEW u \in Job
      PROVE  Kept(u)
  <2>1. /\ phaseBar = [j \in Job |-> phaseBar[j]]
        /\ sent = [j \in Job |-> sent[j]] /\ results = [j \in Job |-> results[j]]
    BY <1>1 DEF phaseBar, TypeOK, StoreTypeOK
  <2>2. ASSUME NEW t \in Job, NEW from \in {"absent", "offered", "live"}, NEW to,
               Pool!Move(t, from, to), sent' = sent, results' = results
        PROVE  Kept(u)
    BY <2>1, <2>2 DEF Pool!Move, Pool!Over
  <2>3. ASSUME NEW t \in Job, Pool!Attempt(t)
        PROVE  Kept(u)
    BY <2>1, <2>3 DEF Pool!Attempt, Pool!Over
  <2>4. ASSUME NEW t \in Job, NEW o \in ResultStatus, Pool!Finish(t, o)
        PROVE  Kept(u)
    BY <2>1, <2>4 DEF Pool!Finish, Pool!Move, Pool!Over
  <2>5. PICK t \in Job :
          \/ Pool!Offer(t) \/ Pool!Refuse(t) \/ Pool!Accept(t) \/ Pool!Attempt(t)
          \/ \E o \in ResultStatus : Pool!Finish(t, o)
          \/ Pool!Fail(t) \/ Pool!Lose(t)
    BY <1>1 DEF Pool!Next
  <2>6. QED
    BY <2>2, <2>3, <2>4, <2>5 DEF Pool!Offer, Pool!Refuse, Pool!Accept, Pool!Fail, Pool!Lose
<1>2. IndInv => TypeOK /\ StoreTypeOK
  BY DEF IndInv, TypeInv, TypeOK
<1>3. IndInv /\ [Pool!Next]_(Pool!vars) => [\A t \in Job : Kept(t)]_(Pool!vars)
  BY <1>1, <1>2
<1>4. QED
  BY <1>3, Inductive, MasterImplementsTaskPool, PTL
     DEF Pool!Spec, ImplementsPool, Pool!EndsForGood, TasksEndForGood

-----------------------------------------------------------------------------
(* The job service.                                                        *)

\* The status an identifier has for the clients once the step is done.
LEMMA ShownAs ==
  ASSUME NEW j \in Job, NEW status \in Shown \cup {"ABSENT"},
         jobs \in [Job -> TaskStatus \cup {"ABSENT"}], jobs' = [jobs EXCEPT ![j] = status]
  PROVE  jobBar' = [jobBar EXCEPT ![j] =
           IF status = "ABSENT" THEN "none" ELSE IF status = "PENDING" THEN "open" ELSE status]
BY DEF jobBar, Shown, Cancellable

\* A write of the store that finds its job.
LEMMA StatusWritten ==
  ASSUME IndInv, NEW j \in Job, NEW status, UpdateJobStatus(j, status), jobs[j] # "ABSENT"
  PROVE  /\ jobs' = [jobs EXCEPT ![j] = status]
         /\ jobs \in [Job -> TaskStatus \cup {"ABSENT"}]
         /\ jobBar[j] \in {"open", "COMPLETED", "FAILED", "CANCELLED"}
BY DEF UpdateJobStatus, IndInv, TypeInv, TypeOK, StoreTypeOK, Stages, JobStage, Shown, jobBar,
   Cancellable

\* An identifier is handed out once.
LEMMA SubmitJobs ==
  ASSUME IndInv, NEW j \in Job, Submit(j)
  PROVE  Jobs!Submit(j)
<1>1. jobs[j] = "ABSENT" /\ jobs \in [Job -> TaskStatus \cup {"ABSENT"}]
  BY DEF Submit, SubmitStep, IndInv, TypeInv, TypeOK, StoreTypeOK, Stages, JobStage
<1>2. jobs' = [jobs EXCEPT ![j] = "PENDING"]
  BY DEF Submit, SaveJob
<1>3. jobBar' = [jobBar EXCEPT ![j] = "open"]
  BY <1>1, <1>2, ShownAs DEF Shown
<1>4. jobBar[j] = "none"
  BY <1>1 DEF jobBar
<1>5. QED
  BY <1>3, <1>4 DEF Jobs!Submit, Jobs!Fresh

\* The write of a Cancel call, which may come after the job's end.
LEMMA CancelJobs ==
  ASSUME IndInv, NEW c \in Canceller, CancelWrite(c)
  PROVE  Jobs!JobsNext \/ UNCHANGED jobBar
<1>1. PICK j \in Job : cancel[c] = j
  BY DEF CancelWrite, IndInv, TypeInv, TypeOK
<1>2. CASE jobs[j] = "ABSENT"
  BY <1>1, <1>2 DEF CancelWrite, UpdateJobStatus, jobBar
<1>3. CASE jobs[j] # "ABSENT"
  <2>1. /\ jobs' = [jobs EXCEPT ![j] = "CANCELLED"]
        /\ jobs \in [Job -> TaskStatus \cup {"ABSENT"}]
        /\ jobBar[j] \in {"open", "COMPLETED", "FAILED", "CANCELLED"}
    BY <1>1, <1>3, StatusWritten DEF CancelWrite
  <2>2. jobBar' = [jobBar EXCEPT ![j] = "CANCELLED"]
    BY <2>1, ShownAs DEF Shown
  <2>3. CASE jobBar[j] = "CANCELLED"
    BY <2>2, <2>3 DEF jobBar
  <2>4. CASE jobBar[j] # "CANCELLED"
    BY <2>1, <2>2, <2>4 DEF Jobs!Cancel, Jobs!JobsNext
  <2>5. QED
    BY <2>3, <2>4
<1>4. QED
  BY <1>2, <1>3

\* A goroutine that writes a status to the store works on a job that has no verdict of a
\* success: for the clients an attempt ends.
LEMMA AttemptJobs ==
  ASSUME IndInv, NEW g \in Goroutine, NEW j \in Job, held[g] = j,
         MarkJobFailed(g) \/ SaveTaskResult(g)
  PROVE  Jobs!AttemptEnds(j)
<1>1. pc[g] \in {"failjob", "save"}
  BY DEF MarkJobFailed, SaveTaskResult, Continue, Transition
<1>2. /\ jobs[j] \in Shown /\ jobs[j] # "COMPLETED"
      /\ jobs \in [Job -> TaskStatus \cup {"ABSENT"}]
  <2>1. JobStage(j) /\ StageOf(g, j) /\ submit[j] = "accepted"
    BY <1>1, HolderFacts DEF IndInv, Stages
  <2>2. results[j] = NoResult
    BY <1>1, <2>1 DEF StageOf
  <2>3. QED
    BY <2>1, <2>2, StoreAssumption DEF JobStage, IndInv, TypeInv, TypeOK, StoreTypeOK,
       ResultStatus
<1>3. PICK status \in {"COMPLETED", "FAILED"} : jobs' = [jobs EXCEPT ![j] = status]
  <2>1. CASE MarkJobFailed(g)
    BY <1>2, <2>1 DEF MarkJobFailed, UpdateJobStatus, Shown
  <2>2. CASE SaveTaskResult(g)
    BY <1>2, <2>2 DEF SaveTaskResult, SaveResult, Verdict, Shown
  <2>3. QED
    BY <2>1, <2>2
<1>4. jobBar' = [jobBar EXCEPT ![j] = status]
  BY <1>2, <1>3, ShownAs DEF Shown
<1>5. jobBar[j] \in {"open", "FAILED", "CANCELLED"}
  BY <1>2 DEF jobBar, Shown, Cancellable
<1>6. QED
  BY <1>4, <1>5 DEF Jobs!AttemptEnds

\* For its clients the master is the job service that the operator is built on: whatever
\* calls, nodes and goroutines do, statuses move by submissions, ends of attempts and
\* cancellations alone, and only a cancellation covers COMPLETED.
THEOREM MasterImplementsJobService == Spec => ImplementsJobs
<1>1. Init => Jobs!JobsInit
  BY DEF Init, StoreInit, jobBar, Jobs!JobsInit
<1>2. ASSUME IndInv, [Next]_vars
      PROVE  Jobs!JobsNext \/ UNCHANGED jobBar
  <2>1. CASE UNCHANGED jobs
    BY <2>1 DEF jobBar
  <2>2. CASE EnvironmentNext \/ LoopNext \/ UNCHANGED vars
    BY <2>1, <2>2 DEF EnvironmentNext, NodeUp, NodeDown, Shutdown, LoopNext, LoopReceive,
       LoopStop, DequeueAborted, Dequeue, vars, storeVars
  <2>3. ASSUME NEW j \in Job, Submit(j)
        PROVE  Jobs!JobsNext
    BY <1>2, <2>3, SubmitJobs DEF Jobs!JobsNext
  <2>4. CASE \E j \in Job : SubmitNext(j)
    BY <2>1, <2>4 DEF SubmitNext, SubmitInsert, SubmitSend, SubmitFull, SubmitUndo, storeVars
  <2>5. ASSUME NEW c \in Canceller, CancelNext(c)
        PROVE  Jobs!JobsNext \/ UNCHANGED jobBar
    <3>1. CASE CancelWrite(c)
      BY <1>2, <3>1, CancelJobs
    <3>2. CASE \E j \in Job : CancelRead(c, j)
      BY <2>1, <3>2 DEF CancelRead, storeVars
    <3>3. QED
      BY <2>5, <3>1, <3>2 DEF CancelNext
  <2>6. ASSUME NEW g \in Goroutine, DispatchNext(g)
        PROVE  Jobs!JobsNext \/ UNCHANGED jobBar
    <3>1. CASE MarkJobFailed(g) \/ SaveTaskResult(g)
      <4>1. PICK j \in Job : held[g] = j
        BY <1>2, <3>1, HolderFacts DEF MarkJobFailed, SaveTaskResult, Continue, Transition
      <4>2. QED
        BY <1>2, <3>1, <4>1, AttemptJobs DEF Jobs!JobsNext
    <3>2. CASE ~(MarkJobFailed(g) \/ SaveTaskResult(g))
      <4>1. UNCHANGED jobs
        BY <2>6, <3>2 DEF DispatchNext, SelectNode, NoHealthyNodes, DialFailed, StartExecute,
           ExecuteReturned, ExecuteFailed, MarkTaskFailed, Retry, GiveUp, Requeue, RequeueSend,
           RequeueFull, CompleteTask, storeVars
      <4>2. QED
        BY <2>1, <4>1
    <3>3. QED
      BY <3>1, <3>2
  <2>7. QED
    BY <1>2, <2>2, <2>3, <2>4, <2>5, <2>6 DEF Next
<1>3. IndInv /\ [Next]_vars => [Jobs!JobsNext]_jobBar
  BY <1>2
<1>4. QED
  BY <1>1, <1>3, Inductive, PTL DEF Spec, Jobs!JobsSpec, ImplementsJobs
==============================================================================
