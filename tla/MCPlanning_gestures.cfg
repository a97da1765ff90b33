\* Two requests at once, five gestures of the user, a crash between any two writes.
CONSTANTS
    c1 = c1
    c2 = c2
    None = None
    Caller = {c1, c2}
    MaxGestures = 5
    MaxCrashes = 1
SPECIFICATION FairSpec
CHECK_DEADLOCK FALSE
INVARIANTS
    TypeOK
    PlanIsTheAnswer
PROPERTIES
    NoWalkPulledBack
    EndIsSettled
