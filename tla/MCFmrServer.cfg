SPECIFICATION ServerSpec
CONSTANTS
    dac = dac
    test = test
    other = other
    NoName = NoName
    Names <- MCNames
    Images <- MCImages
    Inputs <- MCInputs
    Returns = {0, 7}
    MaxBlocks = 2
INVARIANTS DevTypeOK RegistryConsistent ErrorIsOfThisPacket
PROPERTY DamageIsHarmless
CHECK_DEADLOCK FALSE
