SPECIFICATION Spec
CONSTANTS
    p1 = p1
    w1 = w1
    k1 = k1
    k2 = k2
    NoGid = NoGid
    StaffGid = StaffGid
    NoKey = NoKey
    NoUser = NoUser
    User = {u1}
    Staff = {}
    Project = {p1, w1}
    Workshop = {w1}
    Key = {k1, k2}
    ApiChoices <- ApiEverything
    Faults = {"http"}
INVARIANTS CacheKeysFollowApi GidFollowsCache
PROPERTIES Converges
