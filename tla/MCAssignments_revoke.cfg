\* The revocation of a node against its own renewal.
CONSTANTS
    t1 = t1
    t2 = t2
    None = None
    Task = {t1}
    Node = {d1}
    Relocatable = {t1}
    TTL = 2
    Cap = 3
    DecisionTTL = 1
    OrphanAfter = 3
    MaxRows = 1
    MaxTime = 3
    MaxCrashes = 0
SPECIFICATION Spec
CHECK_DEADLOCK FALSE
INVARIANTS
    RevokedWorkIsOver
