------------------------------ MODULE TaskRunner ------------------------------
(***************************************************************************)
(* internal/worker/runner.go: concurrent calls of Run, CancelTask, and the *)
(* two waits of WaitForDrain.                                              *)
(*                                                                         *)
(* Run is cut where it touches shared state: the atomic counter, the map   *)
(* of cancel functions under its mutex, the wait group.  A refused call    *)
(* changes nothing and is not an action.  What a task computes is left     *)
(* out: an execution ends by itself or because its context is done.        *)
(***************************************************************************)
EXTENDS Naturals, FiniteSets

CONSTANTS
    Call,          \* calls of Run that can be under way at the same time
    TaskId,        \* identifiers of tasks; a retry may meet its first attempt
    NoCall,        \* no call
    NoTask,        \* no task
    MaxTasks       \* TaskRunner.maxTasks

ASSUME TaskRunnerAssumption ==
    /\ IsFiniteSet(Call)
    /\ NoCall \notin Call
    /\ NoTask \notin TaskId
    /\ MaxTasks \in Nat \ {0}

VARIABLES
    stage,         \* where each call of Run is
    task,          \* the task it was given
    ctxDone,       \* the calls whose execCtx is done before they end
    running,       \* TaskRunner.running: whose cancel function the map has
    activeTasks,   \* TaskRunner.activeTasks
    inflight,      \* the counter of TaskRunner.wg
    wait,          \* WaitForDrain: its goroutine's wg.Wait and its own second one
    raced,         \* history: calls between check and count at the same time as others
    collided       \* history: calls in the map at the same time as one of their task

runVars == <<stage, task, ctxDone, raced, collided>>
runnerVars == <<runVars, running, activeTasks, inflight, wait>>

Waiter == {"helper", "main"}

Stages == {"idle", "admitted", "tracked", "counted", "executing", "ended", "untracked",
           "uncounted"}

Unended == {"admitted", "tracked", "counted", "executing"}

At(stages) == {c \in Call : stage[c] \in stages}

\* Calls between the capacity check and the increment.
Entering == At({"admitted", "tracked"})

\* Calls between the write of their cancel function and its removal.
Tracked == At({"tracked", "counted", "executing", "ended"})

\* Calls the counter counts, and calls the wait group does.
Counted == At({"counted", "executing", "ended", "untracked"})
Joined == At({"executing", "ended", "untracked", "uncounted"})

RunnerTypeOK ==
    /\ stage \in [Call -> Stages]
    /\ task \in [Call -> TaskId \cup {NoTask}]
    /\ ctxDone \subseteq Call
    /\ running \in [TaskId -> Call \cup {NoCall}]
    /\ activeTasks \in Nat
    /\ inflight \in Nat
    /\ wait \in [Waiter -> {"off", "called", "blocked", "woken", "back"}]
    /\ raced \subseteq Call
    /\ collided \subseteq Call

RunnerInit ==
    /\ stage = [c \in Call |-> "idle"]
    /\ task = [c \in Call |-> NoTask]
    /\ ctxDone = {}
    /\ running = [t \in TaskId |-> NoCall]
    /\ activeTasks = 0
    /\ inflight = 0
    /\ wait = [w \in Waiter |-> "off"]
    /\ raced = {}
    /\ collided = {}

-----------------------------------------------------------------------------
(* Run.                                                                    *)

Goto(c, from, to) ==
    /\ stage[c] = from
    /\ stage' = [stage EXCEPT ![c] = to]

\* Mutant: one call more than the limit is admitted.
HasCapacityOneMore == activeTasks <= MaxTasks

HasCapacity == activeTasks < MaxTasks

\* The check of the counter, and the context with its timeout.
Admit(c, t) ==
    /\ HasCapacity
    /\ Goto(c, "idle", "admitted")
    /\ task' = [task EXCEPT ![c] = t]
    /\ raced' = IF Entering = {} THEN raced ELSE raced \cup Entering \cup {c}
    /\ UNCHANGED <<ctxDone, running, activeTasks, inflight, wait, collided>>

Rivals(c) == {d \in Tracked \ {c} : task[d] = task[c]}

\* The map's entry of the task is overwritten, also when a call is using it.
Track(c) ==
    /\ Goto(c, "admitted", "tracked")
    /\ running' = [running EXCEPT ![task[c]] = c]
    /\ collided' = IF Rivals(c) = {} THEN collided ELSE collided \cup Rivals(c) \cup {c}
    /\ UNCHANGED <<task, ctxDone, activeTasks, inflight, wait, raced>>

Count(c) ==
    /\ Goto(c, "tracked", "counted")
    /\ activeTasks' = activeTasks + 1
    /\ UNCHANGED <<task, ctxDone, running, inflight, wait, raced, collided>>

\* Mutant: the call never joins the wait group.
JoinSkipped(c) ==
    /\ Goto(c, "counted", "executing")
    /\ UNCHANGED <<task, ctxDone, running, activeTasks, inflight, wait, raced, collided>>

Join(c) ==
    /\ Goto(c, "counted", "executing")
    /\ inflight' = inflight + 1
    /\ UNCHANGED <<task, ctxDone, running, activeTasks, wait, raced, collided>>

\* registry.Execute returns.
Finish(c) ==
    /\ Goto(c, "executing", "ended")
    /\ ctxDone' = ctxDone \ {c}
    /\ UNCHANGED <<task, running, activeTasks, inflight, wait, raced, collided>>

\* Mutant: the deferred function forgets the map.
UntrackSkipped(c) ==
    /\ Goto(c, "ended", "untracked")
    /\ UNCHANGED <<task, ctxDone, running, activeTasks, inflight, wait, raced, collided>>

\* Mutant: every entry is dropped.
UntrackAll(c) ==
    /\ Goto(c, "ended", "untracked")
    /\ running' = [t \in TaskId |-> NoCall]
    /\ UNCHANGED <<task, ctxDone, activeTasks, inflight, wait, raced, collided>>

\* Mutant: the drain keeps the mutex while it waits.
UntrackLockedOut(c) ==
    /\ wait["main"] \in {"off", "back"}
    /\ Goto(c, "ended", "untracked")
    /\ running' = [running EXCEPT ![task[c]] = NoCall]
    /\ UNCHANGED <<task, ctxDone, activeTasks, inflight, wait, raced, collided>>

\* The entry of the task goes, whichever call wrote it.
Untrack(c) ==
    /\ Goto(c, "ended", "untracked")
    /\ running' = [running EXCEPT ![task[c]] = NoCall]
    /\ UNCHANGED <<task, ctxDone, activeTasks, inflight, wait, raced, collided>>

\* Mutant: the counter is left alone.
UncountSkipped(c) ==
    /\ Goto(c, "untracked", "uncounted")
    /\ UNCHANGED <<task, ctxDone, running, activeTasks, inflight, wait, raced, collided>>

Uncount(c) ==
    /\ Goto(c, "untracked", "uncounted")
    /\ activeTasks' = activeTasks - 1
    /\ UNCHANGED <<task, ctxDone, running, inflight, wait, raced, collided>>

\* wg.Done, which releases all waiters when the counter gets to zero.
Leave(c) ==
    /\ Goto(c, "uncounted", "idle")
    /\ task' = [task EXCEPT ![c] = NoTask]
    /\ inflight' = inflight - 1
    /\ wait' = IF inflight' = 0
               THEN [w \in Waiter |-> IF wait[w] = "blocked" THEN "woken" ELSE wait[w]]
               ELSE wait
    /\ raced' = raced \ {c}
    /\ collided' = collided \ {c}
    /\ UNCHANGED <<ctxDone, running, activeTasks>>

-----------------------------------------------------------------------------
(* Contexts: the timeout of the call, CancelTask, the end of the drain.    *)

Cancel(calls) ==
    /\ ctxDone' = ctxDone \cup (calls \cap At(Unended))
    /\ UNCHANGED <<stage, task, running, activeTasks, inflight, raced, collided>>

\* The task's timeout is over, or the caller has gone.
Expire(c) ==
    /\ c \in At(Unended) \ ctxDone
    /\ Cancel({c})
    /\ UNCHANGED wait

CancelTask(t) ==
    /\ running[t] # NoCall
    /\ Cancel({running[t]})
    /\ UNCHANGED wait

-----------------------------------------------------------------------------
(* WaitForDrain and sync.WaitGroup.                                        *)

WaitStep(w, from, to) ==
    /\ wait[w] = from
    /\ wait' = [wait EXCEPT ![w] = to]
    /\ UNCHANGED <<runVars, running, activeTasks, inflight>>

\* WaitForDrain starts its goroutine.
StartWait == WaitStep("helper", "off", "called")

\* Its context is done: every cancel function of the map is called, then wg.Wait.
CancelAll ==
    /\ wait["main"] = "off"
    /\ Cancel({running[t] : t \in TaskId})
    /\ wait' = [wait EXCEPT !["main"] = "called"]

\* wg.Wait returns at once or goes to sleep.
EnterWait(w) == WaitStep(w, "called", IF inflight = 0 THEN "back" ELSE "blocked")

Wake(w) ==
    /\ inflight = 0
    /\ WaitStep(w, "woken", "back")

\* The group was used again before the waiter ran: "WaitGroup is reused before previous
\* Wait has returned".  An Add that comes even before the waiters are released panics
\* in the caller instead; either way the process ends.
Panics(w) == wait[w] = "woken" /\ inflight # 0

RunStep(c) ==
    \/ Track(c)
    \/ Count(c)
    \/ Join(c)
    \/ Untrack(c)
    \/ Uncount(c)
    \/ Leave(c)

ReturnFromWait(w) == EnterWait(w) \/ Wake(w)
==============================================================================
