SPECIFICATION Spec
CONSTANTS
    p1 = p1
    u1 = u1
    m1 = m1
    Project = {p1}
    DirProject = {}
    User = {u1}
    UserDirs <- MCUserDirs
    GroupDirs <- MCGroupDirs
    Mail = {m1}
    RoundOf <- MCRoundOf
    LastRound = 2
    Root = Root
    Nobody = Nobody
    NoUid = NoUid
    NoTask = NoTask
    Faults = {"crash", "stop", "slow", "chown", "refused", "raise", "nofile", "notemplate"}
INVARIANTS TypeOK FileWellFormed FlagMeansListed FlagMeansLoaded MailRecorded
PROPERTIES GatherEnds WorkDone
