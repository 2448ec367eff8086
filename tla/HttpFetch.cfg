SPECIFICATION FetchSpec
CONSTANTS
    Get = {"sshkeys", "userproject"}
    NTry = 3
    HandleSessionClose = TRUE
INVARIANTS SessionOpenWhileAsking DataMeansBothLists
PROPERTIES FetchEnds
CHECK_DEADLOCK FALSE
