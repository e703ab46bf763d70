SPECIFICATION Spec
CONSTANTS
    r1 = r1
    r2 = r2
    admins = admins
    staff = staff
    team = team
    author = author
    reader = reader
    authorSpn = authorSpn
    readerSpn = readerSpn
    Requests = {r1, r2}
    Asks <- MCAsks
    Callers <- MCCallers
    Assets = {1, 2, 3}
    Creator <- MCCreator
    Instances = {3}
    Contexts <- MCContexts
    Initially <- MCInitially
    Groups = {admins, team}
    Admins = admins
    Collections = {1, 2, 3}
    Trail <- MCTrail
    TrailIds = {1, 2, 3, 4, 5}
    Limits = {2}
    Backends = {"sqlite", "mongo"}
    Births <- MCBirths
    MaxEvents = 1
    Now = 2
CHECK_DEADLOCK FALSE
INVARIANTS TypeOK BandsAgree BypassIsAudited
PROPERTIES WalkIsExact CollectionsPassedBy EntriesPassedBy WritesWereAllowed
