\* A tool that cannot be repeated, with one node and a crash; or one that can, with two nodes.
CONSTANTS
    t1 = t1
    t2 = t2
    None = None
    Task = {t1, t2}
    Node = {d1, d2}
    Relocatable = {t2}
    TTL = 2
    Cap = 3
    DecisionTTL = 1
    OrphanAfter = 3
    MaxRows = 2
    MaxTime = 3
    MaxCrashes = 1
SPECIFICATION OnceOrAgain
SYMMETRY SymmetricNodes
CHECK_DEADLOCK FALSE
PROPERTIES
    NoOrphanHasWork
INVARIANTS
    TypeOK
    DoneOnce
    DeliveredIsKept
    OpenStepIsFound
