------------------------------- MODULE Executor -------------------------------
(***************************************************************************)
(* What becomes of one execution: the executors of pkg/executor, the reply *)
(* of Execute in internal/worker/server.go, and how sendToWorker in        *)
(* internal/master/dispatcher.go and SaveResult in store.go read it.       *)
(*                                                                         *)
(* Exit codes are 0, 1 for any other, and -1 where there is none.  Of a    *)
(* payload only what decides is kept; how a process ends is the operating  *)
(* system's choice.                                                        *)
(***************************************************************************)
EXTENDS Integers

CONSTANT
    Capabilities     \* types of the executors that are registered

TaskType == {"", "command", "unknown"}

Command == {"", "listed", "unlisted"}

\* AllowedCommands and BlockedCommands are empty, or name one of the commands.
Lists == {{}, {"listed"}}

Payload == [readable : BOOLEAN, command : Command]

Request == [hasId : BOOLEAN, type : TaskType, payload : Payload]

\* How cmd.Run can end; "cut short" is a process whose context was done, or whose output
\* could not be read to the end, though it exited with 0.
Outcomes == {"not started", "exited 0", "exited 1", "killed", "cut short"}

\* Without a name there is nothing to start.
OutcomesOf(payload) == IF payload.command = "" THEN {"not started"} ELSE Outcomes

-----------------------------------------------------------------------------
(* The command executor.                                                   *)

\* Lists that are empty exclude nothing.
Validate(payload, allowed, blocked) ==
    /\ payload.readable
    /\ payload.command # ""
    /\ payload.command \notin blocked
    /\ allowed # {} => payload.command \in allowed

\* Mutant: the exit code alone tells.
CommandResultByCode(outcome) ==
    [exitCode |-> IF outcome = "exited 1" THEN 1 ELSE 0, error |-> outcome = "exited 1"]

CommandResult(outcome) ==
    [exitCode |-> CASE outcome = "exited 0" -> 0
                    [] outcome = "exited 1" -> 1
                    [] OTHER -> -1,
     error |-> outcome # "exited 0"]

-----------------------------------------------------------------------------
(* The worker's reply.                                                     *)

Error(code) == [code |-> code, status |-> "none"]

Answered(status) == [code |-> "OK", status |-> status]

\* The executor is reached, and gets past the decoding of the payload.
Runs(request, admitted) ==
    /\ request.hasId /\ request.type # ""
    /\ admitted
    /\ request.type \in Capabilities
    /\ request.payload.readable

\* Mutant: a result with an error is an error of the call.
ReplyFails(request, admitted, outcome) ==
    IF ~request.hasId \/ request.type = "" THEN Error("InvalidArgument")
    ELSE IF ~admitted THEN Error("ResourceExhausted")
    ELSE IF ~Runs(request, admitted) \/ CommandResult(outcome).error THEN Error("Internal")
    ELSE Answered("SUCCESS")

Reply(request, admitted, outcome) ==
    LET result == CommandResult(outcome)
    IN  IF ~request.hasId \/ request.type = "" THEN Error("InvalidArgument")
        ELSE IF ~admitted THEN Error("ResourceExhausted")
        ELSE IF ~Runs(request, admitted) THEN Error("Internal")
        ELSE IF result.error \/ result.exitCode # 0 THEN Answered("FAILURE")
        ELSE Answered("SUCCESS")

-----------------------------------------------------------------------------
(* The master's reading.                                                   *)

\* The dispatcher may try a task again only after an error.
MayRetry(reply) == reply.code # "OK"

ResultStatus(reply) == IF reply.status \in {"SUCCESS", "TIMEOUT", "CANCELLED"}
                       THEN reply.status ELSE "FAILURE"

JobStatusOf(reply) ==
    IF MayRetry(reply) \/ ResultStatus(reply) # "SUCCESS" THEN "FAILED" ELSE "COMPLETED"
==============================================================================
