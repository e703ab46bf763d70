SPECIFICATION FairSpec
CONSTANTS
    a1 = a1
    a2 = a2
    a3 = a3
    c1 = c1
    r1 = r1
    r2 = r2
    r3 = r3
    seed = seed
    Assets = {a1, a2, a3}
    Collections = {}
    Requests = {r1, r2}
    Seed = seed
    Fields = {}
    Born = {a1, a2, a3}
    Given <- MCCycle
    Operations = {"createRelation", "deleteRelation", "setAuth", "deleteAsset"}
CHECK_DEADLOCK FALSE
PROPERTY EveryRequestIsAnswered
