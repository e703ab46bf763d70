SPECIFICATION Spec
CONSTANTS
    r1 = r1
    r2 = r2
    Requests = {r1, r2}
    Subs = {s1, s2, s3}
    Seeds = {s1, s2}
    Platform = {s3}
    Names = {admins, team}
    Reserved = admins
    Fixed = fixed
    Boot = boot
    Old = old
    Nobody = nobody
    Backends = {"sqlite", "mongo"}
SYMMETRY Symmetry
CHECK_DEADLOCK FALSE
INVARIANTS TypeOK NamesAreUnique AdminsGroupStays MembersHaveAGroup OneGroupDeletion MembershipsAreAudited ResolutionIsCurrent
PROPERTIES ChangedByManagers SeedsLand
