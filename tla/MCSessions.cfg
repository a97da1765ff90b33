\* A session of two calls and two gestures, a stop, two crashes and their start-ups.
CONSTANTS
    None = None
    Unknown = Unknown
    Amount = 2
    MaxWorst = 2
    Looks = 2
    MaxCalls = 2
    MaxCrashes = 2
SPECIFICATION FairSpec
CHECK_DEADLOCK FALSE
INVARIANTS
    TypeOK
    ChargesAreCounted
    YesCoversGestures
    QuietAfterTheClose
PROPERTIES
    StartUpLeavesNothing
    LaunchedSessionCloses
