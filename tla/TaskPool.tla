------------------------------- MODULE TaskPool -------------------------------
(***************************************************************************)
(* What the master promises about the tasks it is given, without channel,  *)
(* locks or goroutines: an accepted task is attempted a bounded number of  *)
(* times and ends done or failed; its outcome comes from an attempt and    *)
(* never changes; a refused task is never attempted; and a task is lost    *)
(* only for want of room, while Capacity other tasks are alive.            *)
(***************************************************************************)
EXTENDS Naturals, FiniteSets

CONSTANTS
    Task,          \* the tasks
    Outcome,       \* what an attempt may come back with
    NoOutcome,     \* no outcome yet
    MaxAttempts,   \* attempts a task gets
    Capacity       \* tasks that can wait at the same time

VARIABLES
    phase,         \* the life of each task
    attempts,      \* how often it was given to a worker
    outcome        \* what came of it

vars == <<phase, attempts, outcome>>

Phase == {"absent", "offered", "refused", "live", "done", "failed", "lost"}

Init ==
    /\ phase = [t \in Task |-> "absent"]
    /\ attempts = [t \in Task |-> 0]
    /\ outcome = [t \in Task |-> NoOutcome]

Move(t, from, to) ==
    /\ phase[t] = from
    /\ phase' = [phase EXCEPT ![t] = to]

Offer(t) == Move(t, "absent", "offered") /\ UNCHANGED <<attempts, outcome>>

Refuse(t) == Move(t, "offered", "refused") /\ UNCHANGED <<attempts, outcome>>

Accept(t) == Move(t, "offered", "live") /\ UNCHANGED <<attempts, outcome>>

Attempt(t) ==
    /\ phase[t] = "live"
    /\ attempts[t] < MaxAttempts
    /\ attempts' = [attempts EXCEPT ![t] = @ + 1]
    /\ UNCHANGED <<phase, outcome>>

Finish(t, o) ==
    /\ Move(t, "live", "done")
    /\ attempts[t] > 0
    /\ outcome' = [outcome EXCEPT ![t] = o]
    /\ UNCHANGED attempts

Fail(t) == Move(t, "live", "failed") /\ UNCHANGED <<attempts, outcome>>

LiveOthers(t) == {u \in Task \ {t} : phase[u] = "live"}

Crowded(t) == Cardinality(LiveOthers(t)) >= Capacity

Lose(t) ==
    /\ Move(t, "live", "lost")
    /\ Crowded(t)
    /\ UNCHANGED <<attempts, outcome>>

Next ==
    \E t \in Task :
        \/ Offer(t)
        \/ Refuse(t)
        \/ Accept(t)
        \/ Attempt(t)
        \/ \E o \in Outcome : Finish(t, o)
        \/ Fail(t)
        \/ Lose(t)

Spec == Init /\ [][Next]_vars

-----------------------------------------------------------------------------

Over == {"refused", "done", "failed", "lost"}

\* What has become of a task is final: it is not attempted again, nor does another
\* outcome come late.
EndsForGood == [][\A t \in Task : phase[t] \in Over =>
    phase'[t] = phase[t] /\ attempts'[t] = attempts[t] /\ outcome'[t] = outcome[t]]_vars
==============================================================================
