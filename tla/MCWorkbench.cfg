CONSTANTS
    None = None
    a = a
    b = b
    t1 = t1
    t2 = t2
    Sources = {a, b}
    Threads = {t1, t2}
    MaxSteps = 2
SPECIFICATION MCSpec
INVARIANTS WorkbenchTypeOK PaneShowsOneThread DeepLinkRestores
PROPERTY SelectionSettles
CHECK_DEADLOCK FALSE
