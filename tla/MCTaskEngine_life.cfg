\* A task and its planning child from nothing, a plan of one step, two coroutines, time and recover().
CONSTANTS
    t1 = t1
    t2 = t2
    None = None
    Task = {t1, t2}
    Parent <- PlanningChild
    Deadline <- DeadlineAt1
    Step = {1}
    Deps <- NoDeps
    Key = {k1}
    Caller = {c1, c2}
    OrphanAfter = 1
    ClockMayGoBack = FALSE
    MaxTime = 1
    MaxTrail <- ParentsTrail
    MaxFaults = 0
SPECIFICATION Spec
SYMMETRY Symmetric
CHECK_DEADLOCK FALSE
INVARIANTS
    OrphansWereSilent
PROPERTIES
    ImplementsLifecycle
