-------------------------------- MODULE Store --------------------------------
(***************************************************************************)
(* internal/master/store.go: the jobs a client asks about.  One mutex      *)
(* guards the maps, so each operation is one step.  results[j] stands for  *)
(* Store.results[id] and for Job.Result, assigned under the same lock.     *)
(***************************************************************************)
EXTENDS TaskTypes

CONSTANT
    NoResult     \* no result saved yet

ASSUME StoreAssumption == NoResult \notin ResultStatus

VARIABLES
    jobs,        \* Store.jobs: "ABSENT" or the Status of the stored Job
    results      \* Store.results

storeVars == <<jobs, results>>

StoreTypeOK ==
    /\ jobs \in [Job -> TaskStatus \cup {"ABSENT"}]
    /\ results \in [Job -> ResultStatus \cup {NoResult}]

StoreInit ==
    /\ jobs = [j \in Job |-> "ABSENT"]
    /\ results = [j \in Job |-> NoResult]

\* Submit builds the Job with Status PENDING and saves it.
SaveJob(j) ==
    /\ jobs' = [jobs EXCEPT ![j] = "PENDING"]
    /\ UNCHANGED results

UpdateJobStatus(j, status) ==
    /\ jobs' = IF jobs[j] = "ABSENT" THEN jobs ELSE [jobs EXCEPT ![j] = status]
    /\ UNCHANGED results

\* The job status a saved result is reported as.
Verdict(result) == IF IsSuccess(result) THEN "COMPLETED" ELSE "FAILED"

SaveResult(j, result) ==
    /\ results' = [results EXCEPT ![j] = result]
    /\ jobs' = IF jobs[j] = "ABSENT" THEN jobs ELSE [jobs EXCEPT ![j] = Verdict(result)]
==============================================================================
