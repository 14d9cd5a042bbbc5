\* Two calls, of one task or of two, on a worker with room for one.
SPECIFICATION FairSpec
CONSTANTS
    Call = {c1, c2}
    TaskId = {t1, t2}
    NoCall = NoCall
    NoTask = NoTask
    MaxTasks = 1
    Capabilities = {"command"}
INVARIANTS
    TypeOK
    ActiveIsExact
    OnlyRacersOvercommit
    CancelHitsTheLiving
    OnlyCollidedEscape
    DrainIsComplete
    RefusedIsUntouched
    CompletedMeansZero
PROPERTIES
    ShutdownEnds
CHECK_DEADLOCK FALSE
