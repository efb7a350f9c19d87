SPECIFICATION Spec
CONSTANTS
    dac = dac
    test = test
    NoName = NoName
    Names <- MCNames
    Images <- MCImages
    Returns = {7, 65535}
    MaxBlocks = 0
    Clients = {c1}
    Functions = {0}
    Faults = {"write", "read", "loss", "dup"}
    MaxFaults = 1
    MaxOps = 2
INVARIANTS TypeOK ReadsOwnAnswer CallsFindAModule PerformsTheCall
PROPERTY ImplementsRemoteCall
CHECK_DEADLOCK FALSE
