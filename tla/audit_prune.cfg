SPECIFICATION SpacedSpec
CONSTANTS
    p1 = p1
    p2 = p2
    Prunes = {p1, p2}
    Ids = {1, 2, 3, 4}
    Stored = {2, 3}
    PageSize = 1
    Window = 2
    MaxDelay = 1
    LastSecond = 5
SYMMETRY Symmetry
CHECK_DEADLOCK FALSE
INVARIANTS TypeOK NoSilentDelete VerifiedReportIsExact
PROPERTY TrailOnlyGrows
