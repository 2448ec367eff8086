SPECIFICATION Spec
CONSTANTS
    p1 = p1
    w1 = w1
    k1 = k1
    k2 = k2
    NoGid = NoGid
    StaffGid = StaffGid
    NoKey = NoKey
    NoUser = NoUser
    User = {u1}
    Staff = {}
    Project = {p1}
    Workshop = {}
    Key = {k1}
    ApiChoices <- ApiStatus
    Faults = {"smtp", "stop", "crash", "reject", "lost"}
INVARIANTS TypeOK NoStrandedKeyNotice OpenedHasEntry CacheFollowsApi GroupsFollowCache AllNoticesSent
PROPERTIES NoticesDelivered
ACTION_CONSTRAINT ApiChangesInSleep
