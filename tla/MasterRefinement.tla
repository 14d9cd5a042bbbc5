--------------------------- MODULE MasterRefinement ---------------------------
(***************************************************************************)
(* The master implements TaskPool and JobService: what becomes of tasks,   *)
(* and what the clients see of it.  A task is alive while it is in the     *)
(* channel or with a goroutine and has no result; it is done from the step *)
(* that saves its result.                                                  *)
(***************************************************************************)
EXTENDS MasterInvariant

PhaseOf(j) ==
    CASE submit[j] = "none" -> "absent"
      [] submit[j] \in {"saved", "inserted", "undo"} -> "offered"
      [] submit[j] = "rejected" -> "refused"
      [] submit[j] = "accepted" /\ results[j] # NoResult -> "done"
      [] submit[j] = "accepted" /\ results[j] = NoResult /\ (Queued(j) \/ Held(j)) -> "live"
      [] OTHER -> IF tasks[j].status = "FAILED" THEN "failed" ELSE "lost"

phaseBar == [j \in Job |-> PhaseOf(j)]

Pool == INSTANCE TaskPool WITH
    Task <- Job,
    Outcome <- ResultStatus,
    NoOutcome <- NoResult,
    MaxAttempts <- MaxRetries + 1,
    Capacity <- MaxQueue,
    phase <- phaseBar,
    attempts <- sent,
    outcome <- results

\* Every behaviour of the master is one of the task pool: a task is lost only by a
\* requeue that meets a channel filled by other accepted tasks, attempts are bounded
\* and an outcome always comes from an attempt.
ImplementsPool == Pool!Spec

\* A task that was refused, settled, given up or lost is not sent to a worker any more:
\* no goroutine and no place in the channel is left to it, whatever comes late.
TasksEndForGood == Pool!EndsForGood

-----------------------------------------------------------------------------

\* What GetStatus answers, by the store alone.
jobBar == [j \in Job |->
    IF jobs[j] = "ABSENT" THEN "none" ELSE IF Cancellable(jobs[j]) THEN "open" ELSE jobs[j]]

Jobs == INSTANCE JobService WITH JobId <- Job, job <- jobBar

\* Every behaviour of the master is one of the job service that the operator is built
\* on: an identifier is handed out once and never forgotten while the master runs; its
\* status moves by ends of attempts and Cancel calls alone, and from COMPLETED only to
\* CANCELLED.
ImplementsJobs == Jobs!JobsSpec
==============================================================================
