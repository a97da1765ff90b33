\* Two processes on two folders, two codes, and one of each thing that goes wrong.
CONSTANTS
    p1 = p1
    p2 = p2
    h1 = h1
    h2 = h2
    c1 = c1
    c2 = c2
    n1 = n1
    n2 = n2
    q1 = q1
    q2 = q2
    t1 = t1
    None = None
    Proc = {p1, p2}
    Home = {h1, h2}
    Code = {c1, c2}
    Node = {n1, n2}
    Tool = {t1}
    Req = {q1, q2}
    Budgets <- BudgetOfBirths
SPECIFICATION BirthsOrTwins
SYMMETRY Symmetric
CHECK_DEADLOCK FALSE
INVARIANTS
    TypeOK
    OneNodeOfACode
    AuditTellsTheRow
    TwinMeansTwo
