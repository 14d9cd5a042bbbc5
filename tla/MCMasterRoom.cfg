\* Two jobs over a channel with room for both: nothing is lost, everything settles.
\* No symmetry: liveness is checked.
SPECIFICATION FairSpec
CONSTANTS
    Job = {j1, j2}
    Node = {n1}
    Goroutine = {g1, g2}
    Canceller = {}
    NoJob = NoJob
    NoNode = NoNode
    NoResult = NoResult
    MaxRetries = 1
    MaxQueue = 2
    RetriesBound = 2
    ExecuteReply = {"SUCCESS"}
INVARIANTS
    NoTaskLost
PROPERTIES
    Settles
    ShutdownStopsLoop
