\* Two jobs over a channel of one: Submit and Requeue meet a full queue.
SPECIFICATION Spec
CONSTANTS
    Job = {j1, j2}
    Node = {n1}
    Goroutine = {g1, g2}
    Canceller = {c1}
    NoJob = NoJob
    NoNode = NoNode
    NoResult = NoResult
    MaxRetries = 1
    MaxQueue = 1
    RetriesBound = 2
    ExecuteReply = {"SUCCESS", "FAILURE"}
SYMMETRY Symmetry
INVARIANTS
    TypeOK
    SingleOwner
    AttemptsBounded
    SchedulerTellsTheTruth
    StoreAgrees
    RefusalIsHonest
PROPERTIES
    ResultIsFinal
    ImplementsJobs
    ImplementsPool
