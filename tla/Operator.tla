------------------------------- MODULE Operator -------------------------------
(***************************************************************************)
(* internal/operator/controller.go: the controller of one DistributedJob.  *)
(*                                                                         *)
(* The informer keeps a copy of the object and hands snapshots of it to    *)
(* the handler, one at a time, when the object changes and at every        *)
(* resync.  The handler trusts its snapshot: it submits the job's tasks    *)
(* when that has no phase, or asks the master for each of its tasks, and   *)
(* goes on to updateStatus with what it has found.                         *)
(*                                                                         *)
(* updateStatus never gets to its write.  It hands a map with int32 and    *)
(* []string values to unstructured.SetNestedField, whose deep copy of JSON *)
(* values panics on both; the informer passes the panic on, and the        *)
(* process ends.  Kubernetes starts it again, with the object as it was.   *)
(* The identifiers and counts that the status would show are therefore     *)
(* left out.                                                               *)
(*                                                                         *)
(* A phase comes from elsewhere only: whoever may write the status of the  *)
(* object can set it, and anybody may delete the object.  The informer,    *)
(* the API server and the kubelet are Kubernetes's, as far as the          *)
(* controller uses them.                                                   *)
(***************************************************************************)
EXTENDS JobService, Integers, Sequences, FiniteSets

CONSTANTS
    Parallelism,   \* spec.parallelism: tasks to submit
    MaxNotices     \* bound: snapshots that wait for the handler

ASSUME OperatorAssumption ==
    /\ Parallelism \in Nat
    /\ MaxNotices \in Nat \ {0}

VARIABLES
    object,        \* the object at the API server
    cached,        \* the informer's copy
    notices,       \* snapshots the handler has not looked at
    at,            \* where the handler is; "down" when the process does not run
    tries,         \* startJobs: calls of Submit made
    calm           \* no failures, and nobody else writes the status, from now on

informerVars == <<cached, notices>>
handlerVars == <<at, tries>>
vars == <<job, object, informerVars, handlerVars, calm>>

\* What reconcile tells apart.  "new" has no phase, or Pending; "running" is Running and
\* names tasks; "over" is Succeeded or Failed, or Running without tasks; "gone" is deleted.
Object == {"new", "running", "over", "gone"}

\* Nothing is to be done for these.
Done == {"over", "gone"}

\* The type invariant of the controller.
TypeOK ==
    /\ JobsTypeOK
    /\ object \in Object
    /\ cached \in Object
    /\ notices \in Seq(Object)
    /\ Len(notices) <= MaxNotices
    /\ at \in {"down", "idle", "submit", "update"}
    /\ tries \in 0..Parallelism
    /\ calm \in BOOLEAN

Init ==
    /\ JobsInit
    /\ object = "new"
    /\ cached = "gone"
    /\ notices = <<>>
    /\ at = "down"
    /\ tries = 0
    /\ calm = FALSE

-----------------------------------------------------------------------------
(* The informer.                                                           *)

Notify(snapshot) ==
    /\ at # "down"
    /\ Len(notices) < MaxNotices
    /\ notices' = Append(notices, snapshot)
    /\ cached' = snapshot
    /\ UNCHANGED <<job, object, handlerVars, calm>>

\* A change of the object arrives.  Of a deletion too, which the handler only logs.
Observe == cached # object /\ Notify(object)


\* Every thirty seconds the copy is handed out again.
Resync == cached # "gone" /\ Notify(cached)

-----------------------------------------------------------------------------
(* The process.                                                            *)

\* The informer lists the object and is told of it as of a new one.
Start ==
    /\ at = "down"
    /\ at' = "idle"
    /\ cached' = object
    /\ notices' = IF object = "gone" THEN <<>> ELSE <<object>>
    /\ UNCHANGED <<job, object, tries, calm>>

Ends ==
    /\ at' = "down"
    /\ tries' = 0
    /\ cached' = "gone"
    /\ notices' = <<>>
    /\ UNCHANGED <<job, object, calm>>

\* The process is stopped or killed, wherever it is.
Stop ==
    /\ ~calm
    /\ at # "down"
    /\ Ends

-----------------------------------------------------------------------------
(* reconcile.                                                              *)

Snapshot == Head(notices)

Take ==
    /\ at = "idle"
    /\ notices # <<>>
    /\ notices' = Tail(notices)
    /\ UNCHANGED <<job, object, cached, tries, calm>>

Skip ==
    /\ Take
    /\ Snapshot \in Done
    /\ UNCHANGED at

\* Mutant: a phase that is over is not looked for.
StartJobsAgain ==
    /\ Take
    /\ Snapshot # "running"
    /\ at' = "submit"

StartJobs ==
    /\ Take
    /\ Snapshot = "new"
    /\ at' = "submit"

\* The master is asked for each task.  Whatever it answers, if it does, the handler goes
\* on to updateStatus.
CheckJobStatus ==
    /\ Take
    /\ Snapshot = "running"
    /\ at' = "update"

-----------------------------------------------------------------------------
(* startJobs.                                                              *)

\* Mutant: the loop runs once more.
SubmitCallOneMore ==
    /\ at = "submit"
    /\ tries <= Parallelism
    /\ tries' = tries + 1
    /\ UNCHANGED <<object, informerVars, at, calm>>

SubmitCall ==
    /\ at = "submit"
    /\ tries < Parallelism
    /\ tries' = tries + 1
    /\ UNCHANGED <<object, informerVars, at, calm>>

\* The master accepts, whether or not its answer comes in time.
SubmitTask(j) == SubmitCall /\ Submit(j)

\* The master refuses, or does not get the call: the loop goes on.
SubmitRefused ==
    /\ SubmitCall
    /\ ~calm \/ \A j \in JobId : ~Fresh(j)
    /\ UNCHANGED job

\* With or without tasks there is a status to write.
Submitted ==
    /\ at = "submit"
    /\ tries = Parallelism
    /\ at' = "update"
    /\ tries' = 0
    /\ UNCHANGED <<job, object, informerVars, calm>>

-----------------------------------------------------------------------------
(* updateStatus.                                                           *)

\* The types of Go that a decoder of JSON yields; the deep copy panics on any other.
JSONTypes == {"string", "bool", "int64", "float64", "json.Number", "nil",
              "[]interface{}", "map[string]interface{}"}

\* Those of phase and message, of the counts, and of the identifiers.
StatusTypes == {"string", "int32", "[]string"}

\* Mutant: the snapshot of an object that cannot be read is put back, as in a work queue.
GetFailsRequeued ==
    /\ at = "update"
    /\ object = "gone" \/ ~calm
    /\ at' = "idle"
    /\ notices' = <<"new">>
    /\ UNCHANGED <<job, object, cached, tries, calm>>

\* The object has been deleted, or the API server does not answer.
GetFails ==
    /\ at = "update"
    /\ object = "gone" \/ ~calm
    /\ at' = "idle"
    /\ UNCHANGED <<job, object, informerVars, tries, calm>>

SetNestedFieldPanics ==
    /\ at = "update"
    /\ object # "gone"
    /\ ~(StatusTypes \subseteq JSONTypes)
    /\ Ends

-----------------------------------------------------------------------------
(* The surroundings.                                                       *)

\* Somebody sets the status by hand, or restores an object that has one.
SetByOthers ==
    /\ ~calm
    /\ object # "gone"
    /\ object' \in {"new", "running", "over"}
    /\ UNCHANGED <<job, informerVars, handlerVars, calm>>

Delete ==
    /\ object # "gone"
    /\ object' = "gone"
    /\ UNCHANGED <<job, informerVars, handlerVars, calm>>

MasterStep(j) ==
    /\ AttemptEnds(j) \/ (~calm /\ Cancel(j))
    /\ UNCHANGED <<object, informerVars, handlerVars, calm>>

MasterRestart ==
    /\ ~calm
    /\ Forget
    /\ UNCHANGED <<object, informerVars, handlerVars, calm>>

Calm ==
    /\ ~calm
    /\ calm' = TRUE
    /\ UNCHANGED <<job, object, informerVars, handlerVars>>

HandlerStep ==
    \/ Skip \/ StartJobs \/ CheckJobStatus
    \/ \E j \in JobId : SubmitTask(j)
    \/ SubmitRefused \/ Submitted
    \/ GetFails \/ SetNestedFieldPanics

Next ==
    \/ Observe \/ Resync
    \/ Start \/ Stop
    \/ HandlerStep
    \/ SetByOthers \/ Delete
    \/ \E j \in JobId : MasterStep(j)
    \/ MasterRestart
    \/ Calm

Spec == Init /\ [][Next]_vars

\* The informer's timers and the handler run on, and Kubernetes starts the process again.
\* The informer's buffer has no bound: MaxNotices must not keep a change from it.
Fairness ==
    /\ SF_vars(Observe)
    /\ WF_vars(Resync)
    /\ WF_vars(Start)
    /\ WF_vars(HandlerStep)

FairSpec == Spec /\ Fairness

-----------------------------------------------------------------------------

\* The identifiers that have been given to tasks.
Submissions == {j \in JobId : ~Fresh(j)}

\* The object needs nothing and no older snapshot of it is left, neither with the informer
\* nor with the handler.
Resting ==
    /\ object \in Done
    /\ cached \in Done
    /\ \A i \in DOMAIN notices : notices[i] \in Done
    /\ at \in {"down", "idle"}

\* Old snapshots make the handler submit tasks for an object that is deleted, or has an
\* end, already.  When they are through it submits none any more, over resyncs, restarts
\* of operator and master, and a deletion after the end.
RestsForGood ==
    [][Resting /\ object' \in Done => Resting' /\ Submissions' = Submissions]_vars

\* An object that has an end or is deleted comes to rest: the old snapshots run out, a
\* handler in the middle of one ends by its failed read or by its panic, and the process
\* that starts after that sees the object as it is.
ComesToRest == <>[](object \in Done) => <>[]Resting


-----------------------------------------------------------------------------
(* What the code's comments and the definition of the resource say and the *)
(* code does not do.                                                       *)

\* When there are no failures the phase of a job is written at last: startJobs has a
\* comment that says so.
PhaseIsWritten == <>[]calm => <>(object # "new")
==============================================================================
