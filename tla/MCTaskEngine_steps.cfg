\* One executing task with four steps (2 waits for 1, 3 for 2), two coroutines, two faults.
CONSTANTS
    t1 = t1
    t2 = t2
    None = None
    Task = {t1}
    Parent <- Orphans
    Deadline <- NoDeadline
    Step = {1, 2, 3, 4}
    Deps <- BranchDeps
    Key = {k1}
    Caller = {c1, c2}
    OrphanAfter = 1
    ClockMayGoBack = FALSE
    MaxTime = 0
    MaxTrail <- LongTrails
    MaxFaults = 2
SPECIFICATION RunningSpec
SYMMETRY Symmetric
CHECK_DEADLOCK FALSE
INVARIANTS
    TypeOK
    AuditFollowsTrail
    StopIsRecorded
    StepsInOrder
    TrailIsOneStory
    NothingHalfDone
