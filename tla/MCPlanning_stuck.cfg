\* One request at a time, and a crash between the plan and the queue.
CONSTANTS
    c1 = c1
    c2 = c2
    None = None
    Caller = {c1}
    MaxGestures = 4
    MaxCrashes = 1
SPECIFICATION Spec
CHECK_DEADLOCK FALSE
INVARIANTS
    NobodyIsLeftPlanning
