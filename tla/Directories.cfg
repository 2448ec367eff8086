SPECIFICATION Spec
CONSTANTS
    User = {u1, u2}
    Project = {p1}
    UserDirs <- MCUserDirs
    GroupDirs <- MCGroupDirs
    Nobody = Nobody
    NoUid = NoUid
    Faults = {"mkdir", "chmod", "chown", "crash", "stop"}
INVARIANTS FlagMeansOwned
PROPERTIES DirectoriesAppear
