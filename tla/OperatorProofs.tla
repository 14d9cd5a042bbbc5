---------------------------- MODULE OperatorProofs ----------------------------
(***************************************************************************)
(* Machine-checked proofs about Operator and JobService.                   *)
(***************************************************************************)
EXTENDS Operator, SequenceTheorems, TLAPS

\* What the master does to its jobs keeps their statuses in their type.
LEMMA JobsStep ==
  ASSUME JobsTypeOK, [JobsNext]_job
  PROVE  JobsTypeOK'
<1> USE DEF JobsTypeOK, JobStatus
<1>1. ASSUME NEW j \in JobId, Submit(j) \/ AttemptEnds(j) \/ Cancel(j) PROVE JobsTypeOK'
  BY <1>1 DEF Submit, AttemptEnds, Cancel
<1>2. CASE Forget \/ UNCHANGED job
  BY <1>2 DEF Forget
<1>3. QED
  BY <1>1, <1>2 DEF JobsNext

\* Every step does one of these to the jobs.
LEMMA NextJobs == [Next]_vars => [JobsNext]_job
<1> SUFFICES ASSUME [Next]_vars PROVE [JobsNext]_job
  OBVIOUS
<1>1. CASE Observe \/ Resync \/ Start \/ Stop \/ SetByOthers \/ Delete \/ Calm \/ UNCHANGED vars
  BY <1>1 DEF Observe, Resync, Notify, Start, Stop, Ends, SetByOthers, Delete, Calm, vars
<1>2. CASE Skip \/ StartJobs \/ CheckJobStatus
  BY <1>2 DEF Skip, StartJobs, CheckJobStatus, Take
<1>3. CASE SubmitRefused \/ Submitted \/ GetFails \/ SetNestedFieldPanics
  BY <1>3 DEF SubmitRefused, Submitted, GetFails, SetNestedFieldPanics, Ends
<1>4. ASSUME NEW j \in JobId, SubmitTask(j) \/ MasterStep(j)
      PROVE  JobsNext
  BY <1>4 DEF SubmitTask, MasterStep, JobsNext
<1>5. CASE MasterRestart
  BY <1>5 DEF MasterRestart, JobsNext
<1>6. QED
  BY <1>1, <1>2, <1>3, <1>4, <1>5 DEF Next, HandlerStep

\* The operator sees its jobs move by steps of the job service only: what holds of them
\* there holds of them here.
THEOREM OperatorIsOverJobService == Spec => JobsSpec
<1>1. Init => JobsInit
  BY DEF Init
<1>2. QED
  BY <1>1, NextJobs, PTL DEF Spec, JobsSpec

-----------------------------------------------------------------------------

\* The handler's part of the types.
HandlerTypeOK == at \in {"down", "idle", "submit", "update"} /\ tries \in 0..Parallelism

\* The informer's part of the types.
InformerTypeOK ==
    /\ cached \in Object
    /\ notices \in Seq(Object)
    /\ Len(notices) <= MaxNotices

\* Each step keeps the types.
LEMMA NextTyping ==
  ASSUME TypeOK, [Next]_vars
  PROVE  TypeOK'
<1> USE OperatorAssumption DEF TypeOK
<1>1. JobsTypeOK'
  BY NextJobs, JobsStep
<1>2. ASSUME object' \in Object, calm' \in BOOLEAN, HandlerTypeOK', InformerTypeOK'
      PROVE  TypeOK'
  BY <1>1, <1>2 DEF HandlerTypeOK, InformerTypeOK
<1>3. HandlerTypeOK /\ InformerTypeOK
  BY DEF HandlerTypeOK, InformerTypeOK
<1>4. ASSUME NEW snapshot \in Object, Notify(snapshot)
      PROVE  TypeOK'
  <2>1. InformerTypeOK'
    BY <1>4 DEF Notify, InformerTypeOK
  <2>2. QED
    BY <1>2, <1>3, <1>4, <2>1 DEF Notify, handlerVars, HandlerTypeOK
<1>5. CASE Observe \/ Resync
  BY <1>4, <1>5 DEF Observe, Resync
<1>6. CASE Start
  <2>1. InformerTypeOK'
    BY <1>6 DEF Start, InformerTypeOK
  <2>2. QED
    BY <1>2, <1>3, <1>6, <2>1 DEF Start, HandlerTypeOK
<1>7. CASE Stop \/ SetNestedFieldPanics
  <2>1. Ends
    BY <1>7 DEF Stop, SetNestedFieldPanics
  <2>2. InformerTypeOK' /\ HandlerTypeOK'
    BY <2>1 DEF Ends, InformerTypeOK, HandlerTypeOK, Object
  <2>3. QED
    BY <1>2, <2>1, <2>2 DEF Ends
<1>8. CASE Skip \/ StartJobs \/ CheckJobStatus
  <2>1. Take
    BY <1>8 DEF Skip, StartJobs, CheckJobStatus
  <2>2. InformerTypeOK'
    BY <2>1 DEF Take, InformerTypeOK
  <2>3. HandlerTypeOK'
    BY <1>8, <2>1 DEF Skip, StartJobs, CheckJobStatus, Take, HandlerTypeOK
  <2>4. QED
    BY <1>2, <2>1, <2>2, <2>3 DEF Take
<1>9. CASE (\E j \in JobId : SubmitTask(j)) \/ SubmitRefused
  <2>1. SubmitCall
    BY <1>9 DEF SubmitTask, SubmitRefused
  <2>2. QED
    BY <1>2, <1>3, <2>1 DEF SubmitCall, HandlerTypeOK, InformerTypeOK, informerVars
<1>10. CASE Submitted \/ GetFails
  BY <1>2, <1>3, <1>10 DEF Submitted, GetFails, HandlerTypeOK, InformerTypeOK, informerVars
<1>11. CASE SetByOthers \/ Delete \/ (\E j \in JobId : MasterStep(j)) \/ MasterRestart \/ Calm
            \/ UNCHANGED vars
  BY <1>2, <1>3, <1>11 DEF SetByOthers, Delete, MasterStep, MasterRestart, Calm, vars,
     HandlerTypeOK, InformerTypeOK, informerVars, handlerVars, Object
<1>12. QED
  BY <1>5, <1>6, <1>7, <1>8, <1>9, <1>10, <1>11 DEF Next, HandlerStep

\* The variables of the controller keep their types.
THEOREM OperatorTypeOK == Spec => []TypeOK
<1>1. Init => TypeOK
  <2> SUFFICES ASSUME Init PROVE TypeOK
    OBVIOUS
  <2>1. JobsTypeOK
    BY DEF Init, JobsInit, JobsTypeOK, JobStatus
  <2>2. notices \in Seq(Object) /\ Len(notices) <= MaxNotices /\ tries \in 0..Parallelism
    BY OperatorAssumption DEF Init
  <2>3. QED
    BY <2>1, <2>2 DEF Init, TypeOK, Object
<1>2. QED
  BY <1>1, NextTyping, PTL DEF Spec

-----------------------------------------------------------------------------

\* Only a call of the handler's in startJobs uses up an identifier.
LEMMA OnlySubmitsSubmit ==
  ASSUME JobsTypeOK, [Next]_vars, at # "submit"
  PROVE  Submissions' = Submissions
<1> USE DEF JobsTypeOK, Submissions, Fresh
<1>1. CASE UNCHANGED job
  BY <1>1
<1>2. ASSUME NEW j \in JobId, MasterStep(j)
      PROVE  Submissions' = Submissions
  BY <1>2 DEF MasterStep, AttemptEnds, Cancel
<1>3. CASE MasterRestart
  BY <1>3 DEF MasterRestart, Forget
<1>4. CASE Observe \/ Resync \/ Start \/ Stop \/ SetByOthers \/ Delete \/ Calm \/ UNCHANGED vars
  BY <1>1, <1>4 DEF Observe, Resync, Notify, Start, Stop, Ends, SetByOthers, Delete, Calm, vars
<1>5. CASE HandlerStep
  BY <1>1, <1>5 DEF HandlerStep, Skip, StartJobs, CheckJobStatus, Take, SubmitTask, SubmitRefused,
     SubmitCall, Submitted, GetFails, SetNestedFieldPanics, Ends
<1>6. QED
  BY <1>2, <1>3, <1>4, <1>5 DEF Next

\* When every snapshot left is of an object that needs nothing, the handler skips each, and
\* a process that starts is told of nothing else.
THEOREM RestIsForGood == Spec => RestsForGood
<1>1. ASSUME TypeOK, Resting, [Next]_vars, object' \in Done
      PROVE  Resting' /\ Submissions' = Submissions
  <2> USE DEF TypeOK, Resting
  <2>1. Submissions' = Submissions
    BY <1>1, OnlySubmitsSubmit
  <2> SUFFICES Resting'
    BY <2>1
  <2>2. CASE UNCHANGED <<cached, notices, at>>
    BY <1>1, <2>2
  <2>3. ASSUME NEW snapshot \in Done, Notify(snapshot)
        PROVE  Resting'
    <3>1. notices' = Append(notices, snapshot) /\ cached' = snapshot /\ at' = at
      BY <2>3 DEF Notify, handlerVars
    <3>2. \A i \in DOMAIN notices' : notices'[i] \in {snapshot} \cup {notices[k] : k \in DOMAIN notices}
      BY <1>1, <3>1
    <3>3. QED
      BY <1>1, <3>1, <3>2
  <2>4. CASE Observe \/ Resync
    BY <1>1, <2>3, <2>4 DEF Observe, Resync
  <2>5. CASE Start
    <3>1. cached' = object /\ at' = "idle" /\ \A i \in DOMAIN notices' : notices'[i] = object
      BY <2>5 DEF Start
    <3>2. QED
      BY <1>1, <3>1
  <2>6. CASE Stop
    BY <1>1, <2>6 DEF Stop, Ends, Done
  <2>7. ASSUME Take
        PROVE  Snapshot \in Done /\ \A i \in DOMAIN notices' : notices'[i] \in Done
    <3>1. notices # <<>> /\ notices \in Seq(Object) /\ notices' = Tail(notices)
      BY <1>1, <2>7 DEF Take
    <3>2. Snapshot = notices[1] /\ 1 \in DOMAIN notices
      BY <3>1 DEF Snapshot
    <3>3. \A i \in DOMAIN notices' : i + 1 \in DOMAIN notices /\ notices'[i] = notices[i + 1]
      BY <3>1
    <3>4. QED
      BY <1>1, <3>2, <3>3
  <2>8. CASE Skip
    BY <1>1, <2>7, <2>8 DEF Skip, Take
  <2>9. CASE HandlerStep /\ ~Skip
    <3>1. ~StartJobs /\ ~CheckJobStatus
      BY <2>7 DEF StartJobs, CheckJobStatus, Done
    <3>2. at \in {"submit", "update"}
      BY <2>9, <3>1 DEF HandlerStep, SubmitTask, SubmitRefused, SubmitCall, Submitted, GetFails,
         SetNestedFieldPanics
    <3>3. QED
      BY <1>1, <3>2
  <2>10. CASE SetByOthers \/ Delete \/ (\E j \in JobId : MasterStep(j)) \/ MasterRestart \/ Calm
              \/ UNCHANGED vars
    BY <2>2, <2>10 DEF SetByOthers, Delete, MasterStep, MasterRestart, Calm, vars, informerVars,
       handlerVars
  <2>11. QED
    BY <1>1, <2>4, <2>5, <2>6, <2>8, <2>9, <2>10 DEF Next
<1>2. TypeOK /\ [Next]_vars
        => [Resting /\ object' \in Done => Resting' /\ Submissions' = Submissions]_vars
  BY <1>1
<1>3. QED
  BY <1>2, OperatorTypeOK, PTL DEF Spec, RestsForGood
==============================================================================
