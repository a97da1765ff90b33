\* Two tasks and three pages: every hand-over, and the stop of ELA at any moment.
CONSTANTS
    t1 = t1
    t2 = t2
    p1 = p1
    p2 = p2
    p3 = p3
    g1 = g1
    g2 = g2
    a1 = a1
    a2 = a2
    None = None
    Window = {g1, g2}
    Asker = {a1, a2}
    Task = {t1, t2}
    Page = {p1, p2, p3}
    Plans <- TwoTasks
SPECIFICATION PagesAndWindows
CHECK_DEADLOCK FALSE
INVARIANTS
    TypeOK
    OneCloser
    BrowsersAreCounted
    ShutIsTrue
PROPERTIES
    EverythingEnds
