------------------------------ MODULE Membership ------------------------------
(***************************************************************************)
(* How workers get on and off the master's list: Register, Deregister and  *)
(* HeartbeatLoop of internal/worker/registration.go, as Run and Shutdown   *)
(* of internal/worker/server.go use them, with the master's registration   *)
(* handlers and health check over Registry.                                *)
(*                                                                         *)
(* A call can fail although the master has handled it or will: its request *)
(* then stays on the way, to be handled later or never.  Workers crash and *)
(* start again under their identifier; the master restarts and knows       *)
(* nobody.  Once calm, there are no failures any more.                     *)
(*                                                                         *)
(* Registration.registered is written by the heartbeat loop and read by    *)
(* Shutdown without a lock; reads see the last write here.                 *)
(***************************************************************************)
EXTENDS Registry

VARIABLES
    main,        \* where each worker's Server.Run is
    loop,        \* where its HeartbeatLoop is
    rpc,         \* the call each of the two is making
    registered,  \* workers with Registration.registered set
    ctxDone,     \* workers that have been told to stop
    orphans,     \* requests whose caller has given up, at most one of a kind
    calm,        \* no failures from now on
    acked,       \* history: workers whose deregistration was answered
    overtaken    \* history: workers of which a registration, of this run of theirs or an
                 \* earlier one, was handled after Shutdown began

workerVars == <<main, loop, rpc, registered, ctxDone>>
vars == <<registryVars, workerVars, orphans, calm, acked, overtaken>>

Proc == {"main", "loop"}

Kind == {"register", "deregister", "heartbeat"}

\* The type invariant of the workers' side and the registry.
TypeOK ==
    /\ RegistryTypeOK
    /\ main \in [Node -> {"down", "register", "serving", "deregister", "draining", "gone"}]
    /\ loop \in [Node -> {"off", "idle", "beat", "rejoin"}]
    /\ rpc \in [Node -> [Proc -> {"none", "sent", "ok", "refused", "failed"}]]
    /\ registered \subseteq Node
    /\ ctxDone \subseteq Node
    /\ orphans \subseteq Node \X Kind
    /\ calm \in BOOLEAN
    /\ acked \subseteq Node
    /\ overtaken \subseteq Node

NoCalls == [p \in Proc |-> "none"]

Init ==
    /\ RegistryInit
    /\ main = [n \in Node |-> "down"]
    /\ loop = [n \in Node |-> "off"]
    /\ rpc = [n \in Node |-> NoCalls]
    /\ registered = {}
    /\ ctxDone = {}
    /\ orphans = {}
    /\ calm = FALSE
    /\ acked = {}
    /\ overtaken = {}

\* What a process that has made a call has asked for.
Asked(n, p) ==
    IF p = "main" THEN IF main[n] = "register" THEN "register" ELSE "deregister"
    ELSE IF loop[n] = "rejoin" THEN "register" ELSE "heartbeat"

\* A process of n makes a call, or has had its answer.
Set(n, p, answer) == rpc' = [rpc EXCEPT ![n][p] = answer]

\* The requests on the way when n's process ends.
Unanswered(n) == {<<n, Asked(n, p)>> : p \in {q \in Proc : rpc[n][q] = "sent"}}

-----------------------------------------------------------------------------
(* Server.Run and Shutdown.                                                *)

\* The process starts, for the first time or again, and registers.
Start(n) ==
    /\ main[n] \in {"down", "gone"}
    /\ main' = [main EXCEPT ![n] = "register"]
    /\ Set(n, "main", "sent")
    /\ acked' = acked \ {n}
    /\ overtaken' = overtaken \ {n}
    /\ UNCHANGED <<registryVars, loop, registered, ctxDone, orphans, calm>>

\* A failure is logged; the heartbeat loop starts all the same.
Registered(n) ==
    /\ main[n] = "register"
    /\ rpc[n]["main"] \in {"ok", "failed"}
    /\ registered' = IF rpc[n]["main"] = "ok" THEN registered \cup {n} ELSE registered
    /\ main' = [main EXCEPT ![n] = "serving"]
    /\ loop' = [loop EXCEPT ![n] = "idle"]
    /\ Set(n, "main", "none")
    /\ UNCHANGED <<registryVars, ctxDone, orphans, calm, acked, overtaken>>

\* A signal.
Stop(n) ==
    /\ main[n] \in {"register", "serving"}
    /\ n \notin ctxDone
    /\ ctxDone' = ctxDone \cup {n}
    /\ UNCHANGED <<registryVars, main, loop, rpc, registered, orphans, calm, acked, overtaken>>

\* Shutdown; Deregister does nothing for a worker that is not registered.
Shutdown(n) ==
    /\ main[n] = "serving"
    /\ n \in ctxDone
    /\ IF n \in registered
       THEN main' = [main EXCEPT ![n] = "deregister"] /\ Set(n, "main", "sent")
       ELSE main' = [main EXCEPT ![n] = "draining"] /\ UNCHANGED rpc
    /\ UNCHANGED <<registryVars, loop, registered, ctxDone, orphans, calm, acked, overtaken>>

Deregistered(n) ==
    /\ main[n] = "deregister"
    /\ rpc[n]["main"] \in {"ok", "failed"}
    /\ registered' = IF rpc[n]["main"] = "ok" THEN registered \ {n} ELSE registered
    /\ acked' = IF rpc[n]["main"] = "ok" THEN acked \cup {n} ELSE acked
    /\ main' = [main EXCEPT ![n] = "draining"]
    /\ Set(n, "main", "none")
    /\ UNCHANGED <<registryVars, loop, ctxDone, orphans, calm, overtaken>>

\* Whatever the process was doing ends with it.
Ends(n, as) ==
    /\ main' = [main EXCEPT ![n] = as]
    /\ loop' = [loop EXCEPT ![n] = "off"]
    /\ rpc' = [rpc EXCEPT ![n] = NoCalls]
    /\ orphans' = orphans \cup Unanswered(n)
    /\ registered' = registered \ {n}
    /\ ctxDone' = ctxDone \ {n}
    /\ UNCHANGED <<registryVars, calm, acked, overtaken>>

\* Tasks are drained and the connection is closed.
Exit(n) == main[n] = "draining" /\ Ends(n, "gone")

Crash(n) == ~calm /\ main[n] \notin {"down", "gone"} /\ Ends(n, "down")

-----------------------------------------------------------------------------
(* HeartbeatLoop.                                                          *)

\* A tick finds the worker registered; any other has no effect.
Tick(n) ==
    /\ loop[n] = "idle"
    /\ n \in registered \ ctxDone
    /\ loop' = [loop EXCEPT ![n] = "beat"]
    /\ Set(n, "loop", "sent")
    /\ UNCHANGED <<registryVars, main, registered, ctxDone, orphans, calm, acked, overtaken>>

\* Mutant: an unknown worker only logs that it is unknown.
HeartbeatIgnored(n) ==
    /\ loop[n] = "beat"
    /\ rpc[n]["loop"] \in {"ok", "refused", "failed"}
    /\ loop' = [loop EXCEPT ![n] = "idle"]
    /\ Set(n, "loop", "none")
    /\ UNCHANGED <<registryVars, main, registered, ctxDone, orphans, calm, acked, overtaken>>

\* The answer "not acknowledged" leads to a registration; a failure waits for the next tick.
HeartbeatAnswered(n) ==
    /\ loop[n] = "beat"
    /\ rpc[n]["loop"] \in {"ok", "refused", "failed"}
    /\ IF rpc[n]["loop"] = "refused"
       THEN loop' = [loop EXCEPT ![n] = "rejoin"] /\ Set(n, "loop", "sent")
       ELSE loop' = [loop EXCEPT ![n] = "idle"] /\ Set(n, "loop", "none")
    /\ UNCHANGED <<registryVars, main, registered, ctxDone, orphans, calm, acked, overtaken>>

Rejoined(n) ==
    /\ loop[n] = "rejoin"
    /\ rpc[n]["loop"] \in {"ok", "failed"}
    /\ registered' = IF rpc[n]["loop"] = "ok" THEN registered \cup {n} ELSE registered
    /\ loop' = [loop EXCEPT ![n] = "idle"]
    /\ Set(n, "loop", "none")
    /\ UNCHANGED <<registryVars, main, ctxDone, orphans, calm, acked, overtaken>>

LoopEnds(n) ==
    /\ loop[n] = "idle"
    /\ n \in ctxDone
    /\ loop' = [loop EXCEPT ![n] = "off"]
    /\ UNCHANGED <<registryVars, main, rpc, registered, ctxDone, orphans, calm, acked, overtaken>>

-----------------------------------------------------------------------------
(* Calls.                                                                  *)

\* Mutant: a deregistration only marks the node.
HandlerMarksDraining(n, kind) ==
    /\ CASE kind = "register" -> Enter(n)
         [] kind = "deregister" ->
              status' = [status EXCEPT ![n] = "DRAINING"] /\ UNCHANGED <<listed, silence, load>>
         [] kind = "heartbeat" -> IF n \in listed THEN Refresh(n, 0) ELSE UNCHANGED registryVars
    /\ overtaken' = IF kind = "register" /\ main[n] \in {"deregister", "draining", "gone"}
                    THEN overtaken \cup {n} ELSE overtaken

\* The master's handler of a request of n.
Handler(n, kind) ==
    /\ CASE kind = "register" -> Enter(n)
         [] kind = "deregister" -> Drop(n)
         [] kind = "heartbeat" -> IF n \in listed THEN Refresh(n, 0) ELSE UNCHANGED registryVars
    /\ overtaken' = IF kind = "register" /\ main[n] \in {"deregister", "draining", "gone"}
                    THEN overtaken \cup {n} ELSE overtaken

\* Mutant: an unknown worker gets an answer its loop does not know.
AnswerUnknown(n, kind) == IF kind = "heartbeat" /\ n \notin listed THEN "unknown" ELSE "ok"

Answer(n, kind) == IF kind = "heartbeat" /\ n \notin listed THEN "refused" ELSE "ok"

Handle(n, p) ==
    /\ rpc[n][p] = "sent"
    /\ Handler(n, Asked(n, p))
    /\ Set(n, p, Answer(n, Asked(n, p)))
    /\ UNCHANGED <<main, loop, registered, ctxDone, orphans, calm, acked>>

\* Calls carry the context of Run, but for the deregistration.
MayFail(n, p) == ~calm \/ (n \in ctxDone /\ Asked(n, p) # "deregister")

\* The call fails, or its context is done; the request may be handled later.
Fail(n, p) ==
    /\ rpc[n][p] = "sent"
    /\ MayFail(n, p)
    /\ Set(n, p, "failed")
    /\ orphans' = orphans \cup {<<n, Asked(n, p)>>}
    /\ UNCHANGED <<registryVars, main, loop, registered, ctxDone, calm, acked, overtaken>>

HandleLate(n, kind) ==
    /\ <<n, kind>> \in orphans
    /\ Handler(n, kind)
    /\ orphans' = orphans \ {<<n, kind>>}
    /\ UNCHANGED <<workerVars, calm, acked>>

Lose(n, kind) ==
    /\ <<n, kind>> \in orphans
    /\ orphans' = orphans \ {<<n, kind>>}
    /\ UNCHANGED <<registryVars, workerVars, calm, acked, overtaken>>

-----------------------------------------------------------------------------
(* The master's clock, its health check, its restarts.                     *)

\* n's loop is sending heartbeats which arrive.
Beating(n) == calm /\ loop[n] # "off" /\ n \in registered \ ctxDone

\* The heartbeat interval is shorter than both timeouts.
TimePasses(n) ==
    /\ silence[n] = "heard" => ~Beating(n)
    /\ FallSilent(n)
    /\ UNCHANGED <<workerVars, orphans, calm, acked, overtaken>>

\* NodePool has the health check in its parts; nothing comes between them.
CheckHealth == Sweep /\ UNCHANGED <<workerVars, orphans, calm, acked, overtaken>>

\* Mutant: only nodes already marked unhealthy are removed.
RemoveExpiredUnhealthy(n) ==
    /\ n \in Overdue
    /\ status[n] = "UNHEALTHY"
    /\ Drop(n)
    /\ UNCHANGED <<workerVars, orphans, calm, acked, overtaken>>

RemoveExpired(n) ==
    /\ n \in Overdue
    /\ Drop(n)
    /\ UNCHANGED <<workerVars, orphans, calm, acked, overtaken>>

\* The registry is in memory only; calls in flight fail.
MasterRestart ==
    /\ ~calm
    /\ listed' = {}
    /\ status' = [n \in Node |-> "HEALTHY"]
    /\ silence' = [n \in Node |-> "heard"]
    /\ load' = [n \in Node |-> 0]
    /\ rpc' = [n \in Node |-> [p \in Proc |->
                 IF rpc[n][p] = "sent" THEN "failed" ELSE rpc[n][p]]]
    /\ orphans' = {}
    /\ UNCHANGED <<main, loop, registered, ctxDone, calm, acked, overtaken>>

Calm ==
    /\ ~calm
    /\ calm' = TRUE
    /\ UNCHANGED <<registryVars, workerVars, orphans, acked, overtaken>>

-----------------------------------------------------------------------------

RunStep(n) == Registered(n) \/ Shutdown(n) \/ Deregistered(n) \/ Exit(n)

LoopStep(n) == Tick(n) \/ HeartbeatAnswered(n) \/ Rejoined(n) \/ LoopEnds(n)

Delivery(n, kind) == HandleLate(n, kind) \/ Lose(n, kind)

NodeNext(n) ==
    \/ Start(n) \/ Stop(n) \/ Crash(n)
    \/ RunStep(n)
    \/ LoopStep(n)
    \/ \E p \in Proc : Handle(n, p) \/ Fail(n, p)
    \/ \E kind \in Kind : Delivery(n, kind)
    \/ TimePasses(n)
    \/ RemoveExpired(n)

Next ==
    \/ \E n \in Node : NodeNext(n)
    \/ CheckHealth
    \/ MasterRestart
    \/ Calm

Spec == Init /\ [][Next]_vars

\* Goroutines run on, tickers and clocks go on, and every call is answered or fails.
\* Nobody has to start, to stop or to crash.
Fairness ==
    /\ WF_vars(CheckHealth)
    /\ \A n \in Node :
        /\ WF_vars(RunStep(n))
        /\ WF_vars(LoopStep(n))
        /\ \A p \in Proc : WF_vars(Handle(n, p))
        /\ \A kind \in Kind : WF_vars(Delivery(n, kind))
        /\ WF_vars(TimePasses(n))
        /\ WF_vars(RemoveExpired(n))

FairSpec == Spec /\ Fairness

-----------------------------------------------------------------------------

\* A serving worker that the master has forgotten, by a restart or by the health check,
\* registers again, and is offered to the dispatcher for good once failures have ended.
ComesBack == \A n \in Node :
    <>[](calm /\ main[n] = "serving" /\ n \in registered) => <>[](n \in Healthy)

\* A worker that is gone leaves the list: by its deregistration, or by the health check
\* if it crashed, if its call failed, or if a late registration put it back.
GoneLeaves == \A n \in Node :
    <>[](main[n] \in {"down", "gone"}) => <>[](n \notin listed)

\* n is offered to the dispatcher, its heartbeats arrive, and no request to leave is behind.
On(n) ==
    /\ calm
    /\ main[n] = "serving"
    /\ n \in registered \ ctxDone
    /\ loop[n] # "off"
    /\ n \in Healthy
    /\ silence[n] = "heard"
    /\ <<n, "deregister">> \notin orphans

\* A worker that is back stays until it is told to stop: neither late requests of its own
\* nor the health check take it off the list or stop its heartbeats.
BackForGood == [][\A n \in Node : On(n) => On(n)' \/ n \in ctxDone']_vars

\* n has ended, is off the list, and no registration of it is behind.
Off(n) ==
    /\ main[n] \in {"down", "gone"}
    /\ n \notin listed
    /\ <<n, "register">> \notin orphans

\* A worker that has left stays away until it is started again, whichever of its
\* heartbeats and deregistrations are still on the way.
GoneForGood == [][\A n \in Node : Off(n) => Off(n)' \/ main'[n] = "register"]_vars

\* n's first registration has failed and no request of it is on the way.
Outside(n) ==
    /\ main[n] = "serving"
    /\ n \notin registered
    /\ <<n, "register">> \notin orphans

\* The heartbeat loop does not register a worker: one whose first registration failed
\* stays off the list while it runs, and with it all its capacity.  This is what the code
\* does; RegistrationIsRetried is what it says.
OutsideForGood ==
    [][\A n \in Node : Outside(n) /\ n \notin listed => n \notin listed']_vars

\* A worker is on the list after an answered deregistration only if a registration was
\* handled after Shutdown had begun: one that its heartbeat loop had on the way, or a late
\* one, its own or of an earlier run under the same identifier.
GhostsAreLate == \A n \in Node :
    main[n] \in {"draining", "gone"} /\ n \in acked /\ n \in listed => n \in overtaken

-----------------------------------------------------------------------------
(* What the log says and the code does not do.                             *)

\* "initial registration failed, will retry via heartbeat": a worker that keeps serving
\* gets on the list and is offered to the dispatcher once failures have ended.  The loop
\* does nothing until the worker is registered.
RegistrationIsRetried == \A n \in Node :
    <>[](calm /\ main[n] = "serving") => <>[](n \in Healthy)

-----------------------------------------------------------------------------
(* The inductive invariants behind the action properties and GhostsAreLate. *)

\* A call is made where the process waits for its answer, and the loop runs in a worker
\* that has started.
CallsHavePlaces == \A n \in Node :
    /\ main[n] \notin {"register", "deregister"} => rpc[n]["main"] = "none"
    /\ loop[n] \in {"off", "idle"} => rpc[n]["loop"] = "none"
    /\ main[n] \in {"down", "gone", "register"} => loop[n] = "off"

\* The loop of a worker that has not begun to shut down acts for a registered one.
LoopIsRegistered == \A n \in Node :
    main[n] = "serving" /\ loop[n] \in {"beat", "rejoin"} => n \in registered

\* When the master has answered a deregistration, the worker is off the list already, and
\* it does not serve again before it has started again.
AnsweredIsOff == \A n \in Node :
    /\ main[n] = "deregister" /\ rpc[n]["main"] = "ok" /\ n \in listed => n \in overtaken
    /\ n \in acked => main[n] \in {"draining", "gone", "down"}

MembershipInv ==
    /\ TypeOK
    /\ CallsHavePlaces
    /\ LoopIsRegistered
    /\ AnsweredIsOff
    /\ GhostsAreLate
==============================================================================
