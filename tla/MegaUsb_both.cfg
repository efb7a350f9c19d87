SPECIFICATION Spec
CONSTANTS
    Contexts = {"main", "uart"}
    FrameMod = 4
    DebugSize = 2
    Lengths = {1}
    Recovery = 1
    Kinds = {"answer", "configure", "clear"}
    MaxRequests = 2
    MaxResets = 2
    Printed = 3
    MaxBytes = 2
INVARIANTS OwnEndpoint FlushArmed WaitBounded
CHECK_DEADLOCK FALSE
