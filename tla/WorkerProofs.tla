----------------------------- MODULE WorkerProofs -----------------------------
(***************************************************************************)
(* Machine-checked proofs about Worker and TaskRunner.                     *)
(***************************************************************************)
EXTENDS Worker, FiniteSetTheorems, TLAPS

\* Steps that leave all calls of Run alone.
RunsStill ==
    UNCHANGED <<stage, task, running, activeTasks, inflight, raced, collided>>

\* Every step is one of a call, or leaves all calls alone.
LEMMA StepKinds ==
  ASSUME [Next]_vars
  PROVE  \/ \E c \in Call, t \in TaskId : Execute(c, t)
         \/ \E c \in Call : CallStep(c)
         \/ RunsStill
<1> USE DEF RunsStill, runnerVars, runVars
<1>1. CASE UNCHANGED vars
  BY <1>1 DEF vars
<1>2. CASE \E t \in TaskId : CancelRequest(t)
  BY <1>2 DEF CancelRequest, CancelTask, Cancel
<1>3. CASE ShutdownNext
  BY <1>3 DEF ShutdownNext, Shutdown, StartDrain, StartWait, WaitStep, DrainTimeout, CancelAll,
     Cancel, Drained, Stop
<1>4. CASE \E w \in Waiter : Waiting(w) \/ Panic(w)
  BY <1>4 DEF Waiting, ReturnFromWait, EnterWait, Wake, WaitStep, Panic
<1>5. QED
  BY <1>1, <1>2, <1>3, <1>4 DEF Next

\* What a call in a set of stages becomes when c goes to another stage.
LEMMA AtMoves ==
  ASSUME NEW S, stage \in [Call -> Stages], NEW c \in Call, NEW from, NEW to, Goto(c, from, to)
  PROVE  /\ from \in S => c \in At(S)
         /\ from \notin S => c \notin At(S)
         /\ to \in S => At(S)' = At(S) \cup {c}
         /\ to \notin S => At(S)' = At(S) \ {c}
BY DEF At, Goto

\* Sets of calls are finite.
LEMMA CallsFinite ==
  ASSUME NEW C, C \subseteq Call
  PROVE  IsFiniteSet(C) /\ Cardinality(C) \in Nat
BY TaskRunnerAssumption, FS_Subset, FS_CardinalityType

LEMMA AtFinite ==
  ASSUME NEW S
  PROVE  IsFiniteSet(At(S)) /\ Cardinality(At(S)) \in Nat
BY CallsFinite DEF At

-----------------------------------------------------------------------------

\* The initial state satisfies the invariant.
LEMMA InitInv == Init => WorkerInv
<1> SUFFICES ASSUME Init PROVE WorkerInv
  OBVIOUS
<1> USE DEF Init, RunnerInit
<1>1. TypeOK
  BY DEF TypeOK, RunnerTypeOK, Phase, Stages
<1>2. \A S : "idle" \notin S => At(S) = {}
  BY DEF At
<1>3. Counted = {} /\ Joined = {} /\ Tracked = {} /\ Entering = {}
  BY <1>2 DEF Counted, Joined, Tracked, Entering
<1>4. ActiveIsExact /\ InflightIsExact /\ RacersBounded
  BY <1>3, FS_EmptySet, TaskRunnerAssumption DEF ActiveIsExact, InflightIsExact, RacersBounded
<1>5. TasksKnown /\ CancelHitsTheLiving /\ EntryIsOwn /\ DrainIsOwed
  BY <1>3 DEF TasksKnown, CancelHitsTheLiving, EntryIsOwn, DrainIsOwed
<1>6. QED
  BY <1>1, <1>4, <1>5 DEF WorkerInv

\* Each step keeps the types.
LEMMA NextTyping ==
  ASSUME WorkerInv, [Next]_vars
  PROVE  TypeOK' /\ TasksKnown'
<1> USE TaskRunnerAssumption DEF WorkerInv, TypeOK, RunnerTypeOK, TasksKnown
<1>1. CASE UNCHANGED vars
  BY <1>1 DEF vars, runnerVars, runVars
<1>2. CASE \E c \in Call, t \in TaskId : Execute(c, t)
  BY <1>2 DEF Execute, Admit, Goto, Stages, Entering, At
<1>3. ASSUME NEW c \in Call, CallStep(c) PROVE TypeOK' /\ TasksKnown'
  <2>1. phase' = phase /\ owed' \subseteq Call
    BY <1>3 DEF CallStep
  <2>2. CASE Track(c)
    BY <2>1, <2>2 DEF Track, Goto, Stages, Rivals, Tracked, At
  <2>3. CASE Count(c) \/ Join(c) \/ Finish(c) \/ Expire(c)
    BY <2>1, <2>3 DEF Count, Join, Finish, Expire, Cancel, Goto, Stages
  <2>4. CASE Untrack(c)
    BY <2>1, <2>4 DEF Untrack, Goto, Stages
  <2>5. CASE Uncount(c)
    <3>1. c \in Counted /\ Cardinality(Counted) \in Nat /\ Counted # {}
      BY <2>5, AtFinite DEF Counted, At, Uncount, Goto
    <3>2. activeTasks > 0
      BY <3>1, FS_EmptySet, AtFinite DEF ActiveIsExact, Counted
    <3>3. QED
      BY <2>1, <2>5, <3>2 DEF Uncount, Goto, Stages
  <2>6. CASE Leave(c)
    <3>1. c \in Joined /\ Cardinality(Joined) \in Nat /\ Joined # {}
      BY <2>6, AtFinite DEF Joined, At, Leave, Goto
    <3>2. inflight > 0
      BY <3>1, FS_EmptySet, AtFinite DEF InflightIsExact, Joined
    <3>3. QED
      BY <2>1, <2>6, <3>2 DEF Leave, Goto, Stages
  <2>7. QED
    BY <1>3, <2>2, <2>3, <2>4, <2>5, <2>6 DEF CallStep, RunStep
<1>4. CASE \E t \in TaskId : CancelRequest(t)
  BY <1>4 DEF CancelRequest, CancelTask, Cancel
<1>5. CASE ShutdownNext
  BY <1>5 DEF ShutdownNext, Shutdown, StartDrain, StartWait, WaitStep, DrainTimeout, CancelAll,
     Cancel, Drained, Stop, Phase, Waiter, Joined, At, runnerVars, runVars
<1>6. CASE \E w \in Waiter : Waiting(w) \/ Panic(w)
  BY <1>6 DEF Waiting, ReturnFromWait, EnterWait, Wake, WaitStep, Panic, Phase, runnerVars, runVars
<1>7. QED
  BY <1>1, <1>2, <1>3, <1>4, <1>5, <1>6 DEF Next

-----------------------------------------------------------------------------
(* The counters.                                                           *)

\* A set of stages as seen from a step of one call.
LEMMA CountMoves ==
  ASSUME NEW S, stage \in [Call -> Stages], NEW c \in Call, NEW from, NEW to, Goto(c, from, to)
  PROVE  /\ from \in S /\ to \in S => At(S)' = At(S)
         /\ from \notin S /\ to \notin S => At(S)' = At(S)
         /\ from \notin S /\ to \in S => Cardinality(At(S)') = Cardinality(At(S)) + 1
         /\ from \in S /\ to \notin S => Cardinality(At(S)') = Cardinality(At(S)) - 1
<1> DEFINE A == At(S)
<1>1. IsFiniteSet(A) /\ Cardinality(A) \in Nat
  BY AtFinite
<1>2. /\ from \in S => c \in A
      /\ from \notin S => c \notin A
      /\ to \in S => At(S)' = A \cup {c}
      /\ to \notin S => At(S)' = A \ {c}
  BY AtMoves
<1>3. /\ c \notin A => Cardinality(A \cup {c}) = Cardinality(A) + 1
      /\ c \in A => Cardinality(A \ {c}) = Cardinality(A) - 1
  <2> HIDE DEF A
  <2>1. QED
    BY <1>1, FS_AddElement, FS_RemoveElement
<1> HIDE DEF A
<1>4. QED
  BY <1>2, <1>3 DEF A

\* The two counters are the numbers of calls they are meant to count.
LEMMA NextCounters ==
  ASSUME WorkerInv, [Next]_vars
  PROVE  ActiveIsExact' /\ InflightIsExact'
<1> stage \in [Call -> Stages]
  BY DEF WorkerInv, TypeOK, RunnerTypeOK
<1> USE DEF WorkerInv, ActiveIsExact, InflightIsExact
<1>1. CASE RunsStill
  BY <1>1 DEF RunsStill, Counted, Joined, At
<1>2. ASSUME NEW c \in Call, NEW t \in TaskId, Execute(c, t)
      PROVE  ActiveIsExact' /\ InflightIsExact'
  <2>1. Goto(c, "idle", "admitted") /\ UNCHANGED <<activeTasks, inflight>>
    BY <1>2 DEF Execute, Admit
  <2>2. QED
    BY <2>1, CountMoves DEF Counted, Joined
<1>3. ASSUME NEW c \in Call, CallStep(c)
      PROVE  ActiveIsExact' /\ InflightIsExact'
  <2>1. CASE Track(c)
    BY <2>1, CountMoves DEF Track, Counted, Joined
  <2>2. CASE Count(c)
    BY <2>2, CountMoves DEF Count, Counted, Joined
  <2>3. CASE Join(c)
    BY <2>3, CountMoves DEF Join, Counted, Joined
  <2>4. CASE Finish(c)
    BY <2>4, CountMoves DEF Finish, Counted, Joined
  <2>5. CASE Untrack(c)
    BY <2>5, CountMoves DEF Untrack, Counted, Joined
  <2>6. CASE Uncount(c)
    BY <2>6, CountMoves DEF Uncount, Counted, Joined
  <2>7. CASE Leave(c)
    BY <2>7, CountMoves DEF Leave, Counted, Joined
  <2>8. CASE Expire(c)
    BY <2>8 DEF Expire, Cancel, Counted, Joined, At
  <2>9. QED
    BY <1>3, <2>1, <2>2, <2>3, <2>4, <2>5, <2>6, <2>7, <2>8 DEF CallStep, RunStep
<1>4. QED
  BY <1>1, <1>2, <1>3, StepKinds

-----------------------------------------------------------------------------
(* The map of cancel functions.                                            *)

\* What a step of one call does to the set of calls in the map.
LEMMA TrackedMoves ==
  ASSUME stage \in [Call -> Stages], NEW c \in Call
  PROVE  /\ Track(c) => c \notin Tracked /\ Tracked' = Tracked \cup {c}
         /\ Untrack(c) => c \in Tracked /\ Tracked' = Tracked \ {c}
         /\ Count(c) \/ Join(c) \/ Finish(c) \/ Expire(c) => Tracked' = Tracked
         /\ Uncount(c) \/ Leave(c) => Tracked' = Tracked /\ c \notin Tracked
<1> USE DEF Tracked
<1>1. Track(c) => c \notin Tracked /\ Tracked' = Tracked \cup {c}
  BY AtMoves DEF Track
<1>2. Untrack(c) => c \in Tracked /\ Tracked' = Tracked \ {c}
  BY AtMoves DEF Untrack
<1>3. Count(c) \/ Join(c) \/ Finish(c) => Tracked' = Tracked
  BY CountMoves DEF Count, Join, Finish
<1>4. Expire(c) => Tracked' = Tracked
  BY DEF Expire, Cancel, At
<1>5. Uncount(c) \/ Leave(c) => Tracked' = Tracked /\ c \notin Tracked
  BY CountMoves, AtMoves DEF Uncount, Leave
<1>6. QED
  BY <1>1, <1>2, <1>3, <1>4, <1>5

\* Entries belong to calls that run, and a call that has met no rival has its entry.
LEMMA NextMap ==
  ASSUME WorkerInv, [Next]_vars
  PROVE  CancelHitsTheLiving' /\ EntryIsOwn'
<1> USE TaskRunnerAssumption
<1>1. /\ stage \in [Call -> Stages] /\ task \in [Call -> TaskId \cup {NoTask}]
      /\ running \in [TaskId -> Call \cup {NoCall}]
      /\ Tracked \subseteq Call
      /\ \A c \in Tracked : task[c] \in TaskId
      /\ CancelHitsTheLiving /\ EntryIsOwn
  BY DEF WorkerInv, TypeOK, RunnerTypeOK, TasksKnown, Tracked, At
<1>2. CASE RunsStill
  BY <1>1, <1>2 DEF RunsStill, CancelHitsTheLiving, EntryIsOwn, Tracked, At
<1>3. ASSUME NEW c \in Call, NEW t \in TaskId, Execute(c, t)
      PROVE  CancelHitsTheLiving' /\ EntryIsOwn'
  <2>1. c \notin Tracked /\ Tracked' = Tracked
    BY <1>1, <1>3, AtMoves, CountMoves DEF Execute, Admit, Tracked
  <2>2. \A d \in Tracked : task'[d] = task[d]
    BY <1>1, <1>3, <2>1 DEF Execute, Admit
  <2>3. QED
    BY <1>1, <1>3, <2>1, <2>2 DEF Execute, Admit, CancelHitsTheLiving, EntryIsOwn
<1>4. ASSUME NEW c \in Call, CallStep(c)
      PROVE  CancelHitsTheLiving' /\ EntryIsOwn'
  <2>1. CASE Track(c)
    <3>1. c \notin Tracked /\ Tracked' = Tracked \cup {c}
      BY <1>1, <2>1, TrackedMoves
    <3>2. task[c] \in TaskId
      BY <2>1 DEF Track, Goto, WorkerInv, TasksKnown
    <3>3. /\ running' = [running EXCEPT ![task[c]] = c]
          /\ task' = task
          /\ collided' = IF Rivals(c) = {} THEN collided ELSE collided \cup Rivals(c) \cup {c}
      BY <2>1 DEF Track
    <3>4. CancelHitsTheLiving'
      BY <1>1, <3>1, <3>2, <3>3 DEF CancelHitsTheLiving
    <3>5. \A d \in Tracked : d \notin collided' => task[d] # task[c]
      BY <3>1, <3>3 DEF Rivals
    <3>6. c \notin collided' => \A d \in Tracked : task[d] # task[c]
      BY <3>1, <3>3 DEF Rivals
    <3>7. EntryIsOwn'
      BY <1>1, <3>1, <3>2, <3>3, <3>5, <3>6 DEF EntryIsOwn
    <3>8. QED
      BY <3>4, <3>7
  <2>2. CASE Untrack(c)
    <3>1. /\ c \in Tracked /\ Tracked' = Tracked \ {c}
          /\ running' = [running EXCEPT ![task[c]] = NoCall]
          /\ task' = task /\ collided' = collided
      BY <1>1, <2>2, TrackedMoves DEF Untrack
    <3>2. CancelHitsTheLiving'
      BY <1>1, <3>1 DEF CancelHitsTheLiving
    <3>3. EntryIsOwn'
      BY <1>1, <3>1 DEF EntryIsOwn
    <3>4. QED
      BY <3>2, <3>3
  <2>3. CASE Count(c) \/ Join(c) \/ Finish(c) \/ Expire(c)
    <3>1. Tracked' = Tracked /\ UNCHANGED <<task, running, collided>>
      BY <1>1, <2>3, TrackedMoves DEF Count, Join, Finish, Expire, Cancel
    <3>2. QED
      BY <1>1, <3>1 DEF CancelHitsTheLiving, EntryIsOwn
  <2>4. CASE Uncount(c) \/ Leave(c)
    <3>1. Tracked' = Tracked /\ c \notin Tracked /\ running' = running
      BY <1>1, <2>4, TrackedMoves DEF Uncount, Leave
    <3>2. /\ \A d \in Tracked : task'[d] = task[d]
          /\ \A d \in Tracked : d \in collided' <=> d \in collided
      BY <1>1, <2>4, <3>1 DEF Uncount, Leave
    <3>3. QED
      BY <1>1, <3>1, <3>2 DEF CancelHitsTheLiving, EntryIsOwn
  <2>5. QED
    BY <1>4, <2>1, <2>2, <2>3, <2>4 DEF CallStep, RunStep
<1>5. QED
  BY <1>2, <1>3, <1>4, StepKinds

-----------------------------------------------------------------------------
(* Room for the calls.                                                     *)

\* A part of a set of calls is no larger.
LEMMA SmallerCalls ==
  ASSUME NEW C, NEW D, D \subseteq Call, C \subseteq D
  PROVE  Cardinality(C) <= Cardinality(D)
BY CallsFinite, FS_Subset

\* Only calls that overlapped on their way to the count can exceed the limit.
LEMMA NextRacers ==
  ASSUME WorkerInv, [Next]_vars
  PROVE  RacersBounded'
<1> USE TaskRunnerAssumption
<1>1. /\ stage \in [Call -> Stages] /\ activeTasks \in Nat /\ raced \subseteq Call
      /\ activeTasks = Cardinality(Counted) /\ RacersBounded
      /\ Counted \subseteq Call /\ Entering \subseteq Call
  BY DEF WorkerInv, TypeOK, RunnerTypeOK, ActiveIsExact, Counted, Entering, At
<1>2. ASSUME RacersBounded, UNCHANGED <<activeTasks>>, Counted' = Counted, Entering' = Entering,
             Counted' \ raced' = Counted \ raced, Entering' \ raced' = Entering \ raced
      PROVE  RacersBounded'
  BY <1>2 DEF RacersBounded
<1>3. CASE RunsStill
  BY <1>1, <1>2, <1>3 DEF RunsStill, Counted, Entering, At
<1>4. ASSUME NEW c \in Call, NEW t \in TaskId, Execute(c, t)
      PROVE  RacersBounded'
  <2>1. /\ HasCapacity /\ UNCHANGED activeTasks
        /\ raced' = IF Entering = {} THEN raced ELSE raced \cup Entering \cup {c}
    BY <1>4 DEF Execute, Admit
  <2>2. Counted' = Counted /\ Entering' = Entering \cup {c}
    BY <1>1, <1>4, AtMoves, CountMoves DEF Execute, Admit, Counted, Entering
  <2>3. Cardinality(Counted' \ raced') < MaxTasks
    <3>1. Cardinality(Counted' \ raced') <= Cardinality(Counted)
      BY <1>1, <2>2, SmallerCalls
    <3>2. Cardinality(Counted' \ raced') \in Nat
      BY <1>1, <2>2, CallsFinite
    <3>3. QED
      BY <1>1, <2>1, <3>1, <3>2 DEF HasCapacity
  <2>4. QED
    BY <2>1, <2>2, <2>3 DEF RacersBounded, HasCapacity
<1>5. ASSUME NEW c \in Call, CallStep(c)
      PROVE  RacersBounded'
  <2>1. CASE Track(c)
    BY <1>1, <1>2, <2>1, CountMoves DEF Track, Counted, Entering
  <2>2. CASE Count(c)
    <3>1. /\ c \in Entering /\ Entering' = Entering \ {c}
          /\ Counted' = Counted \cup {c}
          /\ activeTasks' = activeTasks + 1 /\ raced' = raced
      BY <1>1, <2>2, AtMoves DEF Count, Counted, Entering
    <3>2. CASE c \in raced
      <4>1. Counted' \ raced' = Counted \ raced /\ Cardinality(Counted \ raced) < MaxTasks
        BY <1>1, <3>1, <3>2 DEF RacersBounded
      <4>2. Entering' \ raced' = {}
        BY <1>1, <3>1, <3>2 DEF RacersBounded
      <4>3. QED
        BY <4>1, <4>2 DEF RacersBounded
    <3>3. CASE c \notin raced
      <4>1. Entering = {c} /\ activeTasks < MaxTasks
        BY <1>1, <3>1, <3>3 DEF RacersBounded
      <4>2. Entering' = {} /\ ~(activeTasks' > MaxTasks)
        BY <1>1, <3>1, <4>1
      <4>3. QED
        BY <4>2 DEF RacersBounded
    <3>4. QED
      BY <3>2, <3>3
  <2>3. CASE Join(c) \/ Finish(c)
    BY <1>1, <1>2, <2>3, CountMoves DEF Join, Finish, Counted, Entering
  <2>4. CASE Untrack(c)
    BY <1>1, <1>2, <2>4, CountMoves DEF Untrack, Counted, Entering
  <2>5. CASE Expire(c)
    BY <1>1, <1>2, <2>5 DEF Expire, Cancel, Counted, Entering, At
  <2>6. CASE Uncount(c)
    <3>1. /\ Entering' = Entering /\ Counted' = Counted \ {c}
          /\ activeTasks' = activeTasks - 1 /\ raced' = raced
      BY <1>1, <2>6, AtMoves, CountMoves DEF Uncount, Counted, Entering
    <3>2. Cardinality(Counted' \ raced') <= Cardinality(Counted \ raced)
      BY <1>1, <3>1, SmallerCalls
    <3>3. Cardinality(Counted' \ raced') \in Nat /\ Cardinality(Counted \ raced) \in Nat
      BY <1>1, <3>1, CallsFinite
    <3>4. QED
      BY <1>1, <3>1, <3>2, <3>3 DEF RacersBounded
  <2>7. CASE Leave(c)
    <3>1. /\ Entering' = Entering /\ Counted' = Counted
          /\ activeTasks' = activeTasks /\ raced' = raced \ {c}
          /\ c \notin Entering /\ c \notin Counted
      BY <1>1, <2>7, AtMoves, CountMoves DEF Leave, Counted, Entering
    <3>2. QED
      BY <1>1, <1>2, <3>1
  <2>8. QED
    BY <1>5, <2>1, <2>2, <2>3, <2>4, <2>5, <2>6, <2>7 DEF CallStep, RunStep
<1>6. QED
  BY <1>3, <1>4, <1>5, StepKinds

-----------------------------------------------------------------------------
(* The drain.                                                              *)

\* A call that takes no part in the wait group is owed to nobody, and once the group's
\* counter has been zero nothing is.
LEMMA NextDrain ==
  ASSUME WorkerInv, [Next]_vars
  PROVE  DrainIsOwed'
<1>1. /\ stage \in [Call -> Stages] /\ inflight \in Nat
      /\ wait \in [Waiter -> {"off", "called", "blocked", "woken", "back"}]
      /\ phase \in Phase /\ owed \subseteq Joined /\ DrainIsOwed
  BY DEF WorkerInv, TypeOK, RunnerTypeOK, DrainIsOwed
<1>2. inflight = 0 => Joined = {}
  BY AtFinite, FS_EmptySet DEF WorkerInv, InflightIsExact, Joined
<1>3. inflight' = 0 => Joined' = {}
  <2>1. InflightIsExact' /\ TypeOK'
    BY NextCounters, NextTyping
  <2>2. Joined' \subseteq Call
    BY DEF Joined, At
  <2>3. IsFiniteSet(Joined')
    BY <2>2, CallsFinite
  <2>4. QED
    BY <2>1, <2>3, FS_EmptySet DEF InflightIsExact
<1>4. CASE UNCHANGED vars
  BY <1>1, <1>4 DEF vars, runnerVars, runVars, DrainIsOwed, Joined, At
<1>5. ASSUME NEW c \in Call, NEW t \in TaskId, Execute(c, t)
      PROVE  DrainIsOwed'
  <2>1. Joined' = Joined /\ UNCHANGED <<wait, phase, owed>>
    BY <1>1, <1>5, CountMoves DEF Execute, Admit, Joined
  <2>2. QED
    BY <1>1, <2>1 DEF DrainIsOwed
<1>6. ASSUME NEW c \in Call, CallStep(c)
      PROVE  DrainIsOwed'
  <2>1. owed' \subseteq owed /\ phase' = phase /\ \A d \in owed' : stage'[d] # "idle"
    BY <1>6 DEF CallStep
  <2>2. CASE Leave(c)
    <3>1. Joined' = Joined \ {c} /\ stage'[c] = "idle"
      <4>1. stage'[c] = "idle"
        BY <1>1, <2>2 DEF Leave, Goto
      <4>2. QED
        BY <1>1, <2>2, <4>1, AtMoves DEF Leave, Joined
    <3>2. owed' \subseteq Joined'
      BY <1>1, <2>1, <3>1
    <3>3. phase \in {"serving", "closing"} => wait' = wait
      BY <1>1, <2>2 DEF Leave, DrainIsOwed
    <3>4. inflight' = 0 \/ wait' = wait
      BY <2>2 DEF Leave
    <3>5. QED
      BY <1>1, <1>3, <2>1, <3>2, <3>3, <3>4 DEF DrainIsOwed
  <2>3. CASE ~Leave(c)
    <3>1. Joined \subseteq Joined'
      <4>1. CASE Track(c)
        BY <1>1, <4>1, CountMoves DEF Track, Joined
      <4>2. CASE Count(c)
        BY <1>1, <4>2, CountMoves DEF Count, Joined
      <4>3. CASE Join(c)
        BY <1>1, <4>3, AtMoves DEF Join, Joined
      <4>4. CASE Finish(c) \/ Untrack(c) \/ Uncount(c)
        BY <1>1, <4>4, CountMoves DEF Finish, Untrack, Uncount, Joined
      <4>5. CASE Expire(c)
        BY <4>5 DEF Expire, Cancel, Joined, At
      <4>6. QED
        BY <1>6, <2>3, <4>1, <4>2, <4>3, <4>4, <4>5 DEF CallStep, RunStep
    <3>2. wait' = wait
      BY <1>6, <2>3 DEF CallStep, RunStep, Track, Count, Join, Finish, Untrack, Uncount, Expire
    <3>3. QED
      BY <1>1, <2>1, <3>1, <3>2 DEF DrainIsOwed
  <2>4. QED
    BY <2>2, <2>3
<1>7. CASE \E t \in TaskId : CancelRequest(t)
  BY <1>1, <1>7 DEF CancelRequest, CancelTask, Cancel, DrainIsOwed, Joined, At
<1>8. CASE ShutdownNext
  <2>1. Joined' = Joined
    BY <1>8 DEF ShutdownNext, Shutdown, StartDrain, StartWait, WaitStep, DrainTimeout, CancelAll,
       Cancel, Drained, Stop, runnerVars, runVars, Joined, At
  <2>2. CASE Shutdown \/ Drained \/ Stop
    BY <1>1, <2>1, <2>2 DEF Shutdown, Drained, Stop, WaitOver, DrainIsOwed, runnerVars, Waiter
  <2>3. CASE StartDrain
    BY <1>1, <2>1, <2>3 DEF StartDrain, StartWait, WaitStep, DrainIsOwed, Waiter
  <2>4. CASE DrainTimeout
    BY <1>1, <2>1, <2>4 DEF DrainTimeout, CancelAll, DrainIsOwed, Waiter
  <2>5. QED
    BY <1>8, <2>2, <2>3, <2>4 DEF ShutdownNext
<1>9. ASSUME NEW w \in Waiter, Waiting(w) \/ Panic(w)
      PROVE  DrainIsOwed'
  <2>1. Joined' = Joined /\ owed' = owed
    BY <1>9 DEF Waiting, Panic, ReturnFromWait, EnterWait, Wake, WaitStep, runnerVars, runVars,
       Joined, At
  <2>2. CASE Panic(w)
    BY <1>1, <2>1, <2>2 DEF Panic, runnerVars, DrainIsOwed
  <2>3. CASE Wake(w) /\ phase' = phase
    BY <1>1, <1>2, <2>1, <2>3 DEF Wake, WaitStep, DrainIsOwed
  <2>4. CASE EnterWait(w) /\ phase' = phase
    BY <1>1, <1>2, <2>1, <2>4 DEF EnterWait, WaitStep, DrainIsOwed
  <2>5. QED
    BY <1>9, <2>2, <2>3, <2>4 DEF Waiting, ReturnFromWait
<1>10. QED
  BY <1>4, <1>5, <1>6, <1>7, <1>8, <1>9 DEF Next

-----------------------------------------------------------------------------

\* The inductive invariant holds in every reachable state of a worker.
THEOREM WorkerInvariant == Spec => []WorkerInv
<1>1. WorkerInv /\ [Next]_vars => WorkerInv'
  BY NextTyping, NextCounters, NextMap, NextRacers, NextDrain DEF WorkerInv
<1>2. QED
  BY InitInv, <1>1, PTL DEF Spec

\* The worker's variables keep their types.
THEOREM WorkerTypeOK == Spec => []TypeOK
<1>1. WorkerInv => TypeOK
  BY DEF WorkerInv
<1>2. QED
  BY WorkerInvariant, <1>1, PTL

\* The count of active tasks is the number of calls under way, whatever order the atomic
\* additions of Run and of its deferred functions come in.
THEOREM WorkerCountsExactly == Spec => []ActiveIsExact
<1>1. WorkerInv => ActiveIsExact
  BY DEF WorkerInv
<1>2. QED
  BY WorkerInvariant, <1>1, PTL

\* Run's check and its increment are two steps, and only calls between the two at the same
\* time can take the worker over its limit.
THEOREM OvercommitNeedsRacers == Spec => []OnlyRacersOvercommit
<1>1. WorkerInv => OnlyRacersOvercommit
  BY DEF WorkerInv, RacersBounded, OnlyRacersOvercommit
<1>2. QED
  BY WorkerInvariant, <1>1, PTL

\* Every cancel function of the map belongs to a call that is running that task.
THEOREM CancelFindsItsTask == Spec => []CancelHitsTheLiving
<1>1. WorkerInv => CancelHitsTheLiving
  BY DEF WorkerInv
<1>2. QED
  BY WorkerInvariant, <1>1, PTL

\* Only calls that met another call of their task can run without an entry in the map.
THEOREM CollidedOnlyEscape == Spec => []OnlyCollidedEscape
<1>1. WorkerInv => OnlyCollidedEscape
  BY DEF WorkerInv, EntryIsOwn, OnlyCollidedEscape
<1>2. QED
  BY WorkerInvariant, <1>1, PTL

\* WaitForDrain returns only when all calls it found in the wait group are over.
THEOREM DrainCompletes == Spec => []DrainIsComplete
<1>1. WorkerInv => DrainIsComplete
  BY DEF WorkerInv, DrainIsOwed, DrainIsComplete
<1>2. QED
  BY WorkerInvariant, <1>1, PTL

\* An error of the worker's means that no executor was reached.
THEOREM RefusalsStartNothing == Spec => []RefusedIsUntouched
<1>1. RefusedIsUntouched
  <2> SUFFICES ASSUME NEW request \in Request, NEW outcome \in OutcomesOf(request.payload),
                      Runs(request, HasCapacity)
               PROVE  Reply(request, HasCapacity, outcome).code = "OK"
    BY DEF RefusedIsUntouched, MayRetry
  <2>1. request.hasId /\ request.type # "" /\ HasCapacity
    BY DEF Runs
  <2>2. Reply(request, HasCapacity, outcome) \in {Answered("FAILURE"), Answered("SUCCESS")}
    BY <2>1 DEF Reply
  <2>3. QED
    BY <2>2 DEF Answered
<1>2. QED
  BY <1>1, PTL

\* Completed jobs have run to their end with exit code 0; valid ones are answered.
THEOREM CompletedJobsExitedZero == Spec => []CompletedMeansZero
<1>1. CompletedMeansZero
  <2> SUFFICES ASSUME NEW request \in Request, NEW outcome \in OutcomesOf(request.payload)
               PROVE  /\ JobStatusOf(Reply(request, HasCapacity, outcome)) = "COMPLETED" =>
                           outcome = "exited 0" /\ Runs(request, HasCapacity)
                      /\ \A allowed, blocked \in Lists :
                           /\ Validate(request.payload, allowed, blocked)
                           /\ request.hasId /\ HasCapacity
                           /\ request.type \in Capabilities \ {""}
                           => ~MayRetry(Reply(request, HasCapacity, outcome))
    BY DEF CompletedMeansZero
  <2> DEFINE reply == Reply(request, HasCapacity, outcome)
  <2>1. \/ reply.code # "OK" /\ ~Runs(request, HasCapacity)
        \/ reply.code = "OK" /\ Runs(request, HasCapacity)
    BY DEF Reply, Runs, Error, Answered
  <2>2. reply.code = "OK" /\ outcome # "exited 0" => reply.status = "FAILURE"
    BY DEF Reply, Error, Answered, CommandResult
  <2>3. \A allowed, blocked \in Lists :
          Validate(request.payload, allowed, blocked) => request.payload.readable
    BY DEF Validate
  <2>5. QED
    BY <2>1, <2>2, <2>3 DEF JobStatusOf, MayRetry, ResultStatus, Runs
<1>2. QED
  BY <1>1, PTL
==============================================================================
