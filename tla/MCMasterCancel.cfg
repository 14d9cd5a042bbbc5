\* A cancelled job is still sent to a worker.
SPECIFICATION Spec
CONSTANTS
    Job = {j1}
    Node = {n1}
    Goroutine = {g1, g2}
    Canceller = {c1}
    NoJob = NoJob
    NoNode = NoNode
    NoResult = NoResult
    MaxRetries = 1
    MaxQueue = 1
    RetriesBound = 2
    ExecuteReply = {"SUCCESS", "FAILURE"}
PROPERTY
    CancelledNotExecuted
