SPECIFICATION ServerSpec
CONSTANTS
    dac = dac
    test = test
    other = other
    NoName = NoName
    Names <- MCNames
    Images <- MCImages
    Inputs <- MCInputs
    Returns = {0, 7}
    MaxBlocks = 2
INVARIANT FailureIsReported
CHECK_DEADLOCK FALSE
