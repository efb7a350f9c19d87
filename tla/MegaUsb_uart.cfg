SPECIFICATION FairSpec
CONSTANTS
    Contexts = {"main", "uart"}
    FrameMod = 4
    DebugSize = 2
    Lengths = {1}
    Recovery = 1
    Kinds = {"answer", "configure"}
    MaxRequests = 1
    MaxResets = 1
    Printed = 3
    MaxBytes = 1
INVARIANTS OwnEndpoint FlushArmed
PROPERTIES CallsReturn DebugGoesOut
CHECK_DEADLOCK FALSE
