\* No phase is ever written.
SPECIFICATION FairSpec
CONSTANTS
    JobId = {j1, j2}
    Parallelism = 1
    MaxNotices = 1
CHECK_DEADLOCK FALSE
PROPERTY
    PhaseIsWritten
