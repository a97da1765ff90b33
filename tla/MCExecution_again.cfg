\* A tool that may be repeated, covered by a policy the user revokes: a crash, two surfaces. Or two tasks that spend, and a month that pays for one.
CONSTANTS
    t1 = t1
    t2 = t2
    t3 = t3
    p1 = p1
    p2 = p2
    None = None
    Task = {t1, t2, t3}
    Page = {p1, p2}
    Asking = {t1}
    Policed = {t1}
    Idempotent = {t1}
    Pointed = {}
    Expiring = {t1}
    Worst <- Spending
    MonthCap = 1
    MaxAsks = 3
    MaxCrashes = 1
SPECIFICATION OneAsksOrTwoSpend
SYMMETRY SymmetricPagesAndSpenders
CHECK_DEADLOCK FALSE
INVARIANTS
    YesBehindEveryAct
    CapHolds
PROPERTIES
    NoMeansNo
