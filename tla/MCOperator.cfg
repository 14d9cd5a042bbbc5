\* Two tasks, submitted once and in part once more, over two snapshots.
\* A deleted object leaves nothing to do: the system may stop.
SPECIFICATION FairSpec
CONSTANTS
    JobId = {j1, j2, j3}
    Parallelism = 2
    MaxNotices = 2
CHECK_DEADLOCK FALSE
INVARIANTS
    TypeOK
PROPERTIES
    RestsForGood
    ComesToRest
    
