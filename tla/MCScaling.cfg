\* Four nodes for up to two replicas, so that two can be surplus; two dispatch goroutines
\* and the ticker.
SPECIFICATION FairSpec
CONSTANTS
    Node = {n1, n2, n3, n4}
    NodeTasks = 1
    Goroutine = {g1, g2}
    Ticker = Ticker
    MinReplicas = 1
    MaxReplicas = 2
    TasksPerWorker = 2
    ScaleUpThreshold = 1
    Foreign = {1, 2}
    MaxPending = 1
    MaxRunning = 2
INVARIANTS
    TypeOK
    InRange
    OneScaleUpPerCooldown
    BalancersAvoidFull
PROPERTIES
    BacklogGrows
