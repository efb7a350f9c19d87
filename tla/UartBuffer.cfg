SPECIFICATION Spec
CONSTANTS
    Size = 3
    IndexMod = 8
    LengthMod = 8
    Depth = 2
    Lengths = {1, 2, 4}
    MaxBytes = 5
INVARIANTS InOrder NothingLost InBounds ResetForgets
PROPERTIES NoMoreThanAsked
CHECK_DEADLOCK FALSE
