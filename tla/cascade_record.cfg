SPECIFICATION Spec
CONSTANTS
    a1 = a1
    a2 = a2
    a3 = a3
    c1 = c1
    r1 = r1
    r2 = r2
    r3 = r3
    seed = seed
    Assets = {a1, a2, a3}
    Collections = {c1}
    Requests = {r1, r2}
    Seed = seed
    Fields = {visibility, confidentiality}
    Born = {a1, a2}
    Given <- MCGiven
    Operations = {"deleteAsset", "createRelation"}
SYMMETRY Symmetry
CHECK_DEADLOCK FALSE
INVARIANT CascadeIsRecorded
