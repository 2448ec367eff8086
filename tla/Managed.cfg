SPECIFICATION ManagedSpec
CONSTANTS
    p1 = p1
    k1 = k1
    NoGid = NoGid
    StaffGid = StaffGid
    NoKey = NoKey
    NoUser = NoUser
    User = {u1}
    Staff = {}
    Project = {p1}
    Workshop = {}
    Key = {k1}
    ApiChoices <- ApiStatus
    Faults = {"http"}
    Commands = {"reset", "null", "delete", "forget", "key", "project", "deactivated", "flag", "name", "pubkey", "flush"}
    MaxCommands = 2
INVARIANTS ManagedTypeOK ShellFollowsApiManaged KeysFollowApiManaged
PROPERTIES KeyLookupsSucceed AccountMailedOnce
