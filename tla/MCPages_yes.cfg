\* One task whose page waits for a yes.
CONSTANTS
    t1 = t1
    t2 = t2
    p1 = p1
    p2 = p2
    p3 = p3
    g1 = g1
    g2 = g2
    a1 = a1
    a2 = a2
    None = None
    Window = {}
    Asker = {}
    Task = {t1}
    Page = {p1, p2}
    Plans <- Gestures
SPECIFICATION Spec
CHECK_DEADLOCK FALSE
PROPERTIES
    YesKeepsThePage
