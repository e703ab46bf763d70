SPECIFICATION Spec
CONSTANTS
    w1 = w1
    w2 = w2
    c1 = c1
    r1 = r1
    r2 = r2
    r3 = r3
    Workspaces = {w1, w2}
    Children = {c1}
    Requests = {r1, r2, r3}
    Root = Root
    Old = Old
    None = None
INVARIANT RemovedIsDropped
SYMMETRY Symmetry
CHECK_DEADLOCK FALSE
