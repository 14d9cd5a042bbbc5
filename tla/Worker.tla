-------------------------------- MODULE Worker --------------------------------
(***************************************************************************)
(* internal/worker/server.go: Execute, CancelTask and Shutdown of a worker *)
(* over its task runner.  Registration and heartbeats are in Membership;   *)
(* here Deregister is a call that returns.                                 *)
(*                                                                         *)
(* Nothing turns Execute away before GracefulStop: setting the health      *)
(* status only informs those who ask for it.                               *)
(***************************************************************************)
EXTENDS TaskRunner, Executor

VARIABLES
    phase,      \* of the process: Shutdown's progress, or "dead" after a panic
    owed        \* history: calls in the wait group when the drain began, not over yet

vars == <<runnerVars, phase, owed>>

Phase == {"serving", "closing", "draining", "forcing", "stopping", "stopped", "dead"}

Alive == phase \notin {"stopped", "dead"}

\* The type invariant of the worker and its runner.
TypeOK ==
    /\ RunnerTypeOK
    /\ phase \in Phase
    /\ owed \subseteq Call

Init ==
    /\ RunnerInit
    /\ phase = "serving"
    /\ owed = {}

-----------------------------------------------------------------------------

\* Until GracefulStop the server takes calls.
Execute(c, t) ==
    /\ phase \in {"serving", "closing", "draining", "forcing"}
    /\ Admit(c, t)
    /\ UNCHANGED <<phase, owed>>

CallStep(c) ==
    /\ Alive
    /\ RunStep(c) \/ Finish(c) \/ Expire(c)
    /\ owed' = owed \ {d \in owed : stage'[d] = "idle"}
    /\ UNCHANGED phase

CancelRequest(t) ==
    /\ phase \notin {"stopping", "stopped", "dead"}
    /\ CancelTask(t)
    /\ UNCHANGED <<phase, owed>>

-----------------------------------------------------------------------------
(* Shutdown.                                                               *)

\* The health status is set to NOT_SERVING; the deregistration is under way.
Shutdown ==
    /\ phase = "serving"
    /\ phase' = "closing"
    /\ UNCHANGED <<runnerVars, owed>>

\* Deregister has answered or failed.
StartDrain ==
    /\ phase = "closing"
    /\ phase' = "draining"
    /\ StartWait
    /\ owed' = Joined

\* Mutant: the wait that follows the cancellations is left out.
DrainTimeoutNoWait ==
    /\ phase = "draining"
    /\ phase' = "stopping"
    /\ Cancel({running[t] : t \in TaskId})
    /\ UNCHANGED <<wait, owed>>

\* Thirty seconds are over.
DrainTimeout ==
    /\ phase = "draining"
    /\ phase' = "forcing"
    /\ CancelAll
    /\ UNCHANGED owed

WaitOver ==
    \/ phase = "draining" /\ wait["helper"] = "back"
    \/ phase = "forcing" /\ wait["main"] = "back"

\* WaitForDrain returns; GracefulStop takes no more calls.
Drained ==
    /\ WaitOver
    /\ phase' = "stopping"
    /\ UNCHANGED <<runnerVars, owed>>

\* GracefulStop returns when the last handler has.
Stop ==
    /\ phase = "stopping"
    /\ At(Stages \ {"idle"}) = {}
    /\ phase' = "stopped"
    /\ UNCHANGED <<runnerVars, owed>>

Waiting(w) ==
    /\ Alive
    /\ ReturnFromWait(w)
    /\ UNCHANGED <<phase, owed>>

Panic(w) ==
    /\ Alive
    /\ Panics(w)
    /\ phase' = "dead"
    /\ UNCHANGED <<runnerVars, owed>>

ShutdownNext ==
    \/ Shutdown
    \/ StartDrain
    \/ DrainTimeout
    \/ Drained
    \/ Stop

Next ==
    \/ \E c \in Call, t \in TaskId : Execute(c, t)
    \/ \E c \in Call : CallStep(c)
    \/ \E t \in TaskId : CancelRequest(t)
    \/ ShutdownNext
    \/ \E w \in Waiter : Waiting(w) \/ Panic(w)

Spec == Init /\ [][Next]_vars

\* Goroutines run on, timers fire, and a command whose context is done is killed and
\* ends.  A command may take as long as its timeout allows; nobody has to shut down.
Fairness ==
    /\ \A c \in Call :
        /\ WF_vars(CallStep(c) /\ (RunStep(c) \/ Expire(c)))
        /\ WF_vars(CallStep(c) /\ Finish(c) /\ c \in ctxDone)
    /\ WF_vars(StartDrain)
    /\ WF_vars(DrainTimeout)
    /\ WF_vars(Drained)
    /\ WF_vars(Stop)
    /\ \A w \in Waiter : WF_vars(Waiting(w) \/ Panic(w))

FairSpec == Spec /\ Fairness

-----------------------------------------------------------------------------

\* What the worker reports to the master as its active tasks, and refuses calls by, is
\* the number of calls under way, whatever order Runs and their deferred functions
\* are in; when all is quiet it is zero.
ActiveIsExact == activeTasks = Cardinality(Counted)

\* The capacity check is not atomic with the count, so calls can exceed MaxTasks
\* together; but only those that overlapped between check and count do, next to fewer
\* than MaxTasks others.
OnlyRacersOvercommit ==
    activeTasks > MaxTasks => Cardinality(Counted \ raced) < MaxTasks

\* CancelTask, and the end of a drain, cancel a call that is running the task they
\* name: no entry of the map outlives its call, though calls of one task overwrite
\* and delete each other's.
CancelHitsTheLiving == \A t \in TaskId : running[t] # NoCall =>
    running[t] \in Tracked /\ task[running[t]] = t

\* A call can be cancelled as long as it runs, unless it has met another call of its
\* task on this worker: only then may CancelTask and the drain miss it.
OnlyCollidedEscape == \A c \in Tracked \ collided : running[task[c]] = c

\* WaitForDrain returns, in time or after its timeout, only when every call that was in
\* the wait group when it began is over.
DrainIsComplete == phase \in {"stopping", "stopped"} => owed = {}

\* Once calls stop arriving, a shutdown ends: after the drain's timeout every execution
\* is cancelled or runs into its own.  (A panic of the wait group ends it too.)
NoArrival == \A c \in Call : stage[c] = "idle" => stage'[c] = "idle"

ShutdownEnds ==
    (<>[][NoArrival]_vars) => (phase = "closing" ~> phase \in {"stopped", "dead"})

\* A worker's reply that lets the master try again says that nothing was started, so that
\* no command runs twice by such a retry; what was started, killed ones included, is
\* answered for good.  (An error that is not the worker's says nothing of the kind.)
RefusedIsUntouched ==
    \A request \in Request : \A outcome \in OutcomesOf(request.payload) :
        MayRetry(Reply(request, HasCapacity, outcome)) => ~Runs(request, HasCapacity)

\* A job is COMPLETED only by a process that ran to its end with exit code 0, and a task
\* that Validate would let through is refused by a worker only for its capacity or its
\* capabilities.  (Nothing calls Validate.)
CompletedMeansZero ==
    \A request \in Request : \A outcome \in OutcomesOf(request.payload) :
        LET reply == Reply(request, HasCapacity, outcome)
        IN  /\ JobStatusOf(reply) = "COMPLETED" =>
                 outcome = "exited 0" /\ Runs(request, HasCapacity)
            /\ \A allowed, blocked \in Lists :
                 /\ Validate(request.payload, allowed, blocked)
                 /\ request.hasId /\ HasCapacity /\ request.type \in Capabilities \ {""}
                 => ~MayRetry(reply)

-----------------------------------------------------------------------------
(* The inductive invariant behind the properties above.                    *)

TasksKnown == \A c \in Call : stage[c] # "idle" => task[c] \in TaskId

InflightIsExact == inflight = Cardinality(Joined)

\* A call in the map that has met no other of its task is alone with its entry.
EntryIsOwn == \A c \in Tracked \ collided :
    running[task[c]] = c /\ \A d \in Tracked \ {c} : task[d] # task[c]

\* While a call is on its way to the count, fewer than MaxTasks counted calls have met
\* no other; one that has met none still finds the room it was admitted for.
RacersBounded ==
    /\ Entering # {} \/ activeTasks > MaxTasks => Cardinality(Counted \ raced) < MaxTasks
    /\ \A c \in Entering \ raced : Entering = {c} /\ activeTasks < MaxTasks

\* What the drain is owed is in the wait group, and nothing when a wait is over.
DrainIsOwed ==
    /\ owed \subseteq Joined
    /\ phase \in {"serving", "closing"} => \A w \in Waiter : wait[w] = "off"
    /\ (\E w \in Waiter : wait[w] \in {"woken", "back"}) \/ phase \in {"stopping", "stopped"}
         => owed = {}

WorkerInv ==
    /\ TypeOK
    /\ TasksKnown
    /\ ActiveIsExact
    /\ InflightIsExact
    /\ CancelHitsTheLiving
    /\ EntryIsOwn
    /\ RacersBounded
    /\ DrainIsOwed
==============================================================================
