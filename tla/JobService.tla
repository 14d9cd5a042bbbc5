------------------------------ MODULE JobService ------------------------------
(***************************************************************************)
(* What the clients of internal/master/server.go see of their jobs:        *)
(* Submit hands out a new identifier, GetStatus answers with the status in *)
(* the store or "not found", and a restart of the master forgets them all. *)
(* Master implements this specification (MasterRefinement); Operator, one  *)
(* of the clients, is specified over it.                                   *)
(***************************************************************************)

CONSTANT
    JobId        \* identifiers a master can hand out

VARIABLE
    job          \* the status of each identifier; "open" is PENDING or RUNNING

JobStatus == {"none", "open", "COMPLETED", "FAILED", "CANCELLED", "lost"}

JobsTypeOK == job \in [JobId -> JobStatus]

JobsInit == job = [j \in JobId |-> "none"]

\* No job has had this identifier.
Fresh(j) == job[j] = "none"

Submit(j) ==
    /\ Fresh(j)
    /\ job' = [job EXCEPT ![j] = "open"]

\* An attempt ends.  A job that shows FAILED may have a retry due, and a cancelled one
\* is executed all the same.
AttemptEnds(j) ==
    /\ job[j] \in {"open", "FAILED", "CANCELLED"}
    /\ \E status \in {"COMPLETED", "FAILED"} : job' = [job EXCEPT ![j] = status]

\* Cancel reads the status before it writes, so that it can cover a final one.
Cancel(j) ==
    /\ job[j] \in {"open", "COMPLETED", "FAILED"}
    /\ job' = [job EXCEPT ![j] = "CANCELLED"]

Forget == job' = [j \in JobId |-> IF job[j] = "none" THEN "none" ELSE "lost"]

JobsNext ==
    \/ \E j \in JobId : Submit(j) \/ AttemptEnds(j) \/ Cancel(j)
    \/ Forget

JobsSpec == JobsInit /\ [][JobsNext]_job
==============================================================================
