SPECIFICATION Spec
CONSTANTS
    dac = dac
    test = test
    NoName = NoName
    Names <- MCNames
    Images <- MCImages
    Returns = {7}
    MaxBlocks = 0
    Clients = {c1}
    Functions = {0, 1}
    Faults = {}
    MaxFaults = 0
    MaxOps = 1
INVARIANT LookupFindsModule
CHECK_DEADLOCK FALSE
