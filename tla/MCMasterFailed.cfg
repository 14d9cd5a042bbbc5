\* FAILED is reported while a retry is due.
SPECIFICATION Spec
CONSTANTS
    Job = {j1}
    Node = {n1}
    Goroutine = {g1, g2}
    Canceller = {}
    NoJob = NoJob
    NoNode = NoNode
    NoResult = NoResult
    MaxRetries = 1
    MaxQueue = 1
    RetriesBound = 2
    ExecuteReply = {"SUCCESS", "FAILURE"}
PROPERTY
    FailedIsFinal
