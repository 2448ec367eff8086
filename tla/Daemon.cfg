SPECIFICATION Spec
CONSTANTS
    Pid = {d1, d2, d3}
    CallList <- MCCallList
    NoPid = NoPid
    Torn = Torn
    OneStarter = TRUE
    Faults = {"crash", "torn", "reuse"}
INVARIANTS OneDaemon ServiceOwnsPidfile
PROPERTIES NoSpuriousRefusal TasksRecur
