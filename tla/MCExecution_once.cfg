\* A tool that asks, cannot be repeated and listens to the stop at a point; stops, denials and failures at every write.
CONSTANTS
    t1 = t1
    t2 = t2
    t3 = t3
    p1 = p1
    p2 = p2
    None = None
    Task = {t1}
    Page = {p1, p2}
    Asking = {t1}
    Policed = {}
    Idempotent = {}
    Pointed = {t1}
    Expiring = {}
    Worst <- NoSpending
    MonthCap = 0
    MaxAsks = 3
    MaxCrashes = 2
SPECIFICATION FairSpec
CHECK_DEADLOCK FALSE
INVARIANTS
    TypeOK
    DoneOnce
    ClosesAsItHappened
    NoStepLeftOpen
PROPERTIES
    EndedStepCloses
