SPECIFICATION FairSpec
CONSTANTS
    dac = dac
    test = test
    NoName = NoName
    Names <- MCNames
    Images <- MCImages
    Returns = {65535}
    MaxBlocks = 0
    Clients = {c1, c2}
    Functions = {0, 1}
    Faults = {}
    MaxFaults = 0
    MaxOps = 1
INVARIANTS PerformsTheCall
PROPERTY OperationsReturn
