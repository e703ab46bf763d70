SPECIFICATION Spec
CONSTANTS
    r1 = r1
    r2 = r2
    Requests = {r1, r2}
    Client = client
    Token = token
    Callers = {1}
    Assets = {1, 2}
    Agents = {}
    Owners = {2}
    PageSize = 1
    Cap = 2
    Policies <- MCPolicies
    Windows = {1}
    MaxEdits = 1
    Now = 2
SYMMETRY Symmetry
CHECK_DEADLOCK FALSE
INVARIANTS TypeOK PrunedWasDue PruneReportAddsUp
PROPERTIES RerunsAreClean BackfillIsComplete WalkIsComplete
