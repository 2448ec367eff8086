SPECIFICATION Spec
CONSTANTS
    User = {u1, u2}
    Slot = {p1, p2}
    hpc = hpc
    hpcusers = hpcusers
    cpu = cpu
    HpcUsers = hpcusers
    DefaultGroups <- MCDefaultGroups
    ResourceGroups <- MCResourceGroups
    NewIdentifier = 90
    GidOffset = 6
    MaxCommands = 4
    Faults = {"refuse", "crash"}
SYMMETRY Alike
INVARIANTS GidsDistinct ReferencesExist MembersFollow
