SPECIFICATION Spec
CONSTANTS
    Contexts = {"main"}
    FrameMod = 8
    DebugSize = 2
    Lengths = {3}
    Recovery = 5
    Kinds = {"answer", "configure", "unconfigure", "stall", "clear", "halt"}
    MaxRequests = 2
    MaxResets = 2
    Printed = 1
    MaxBytes = 1
INVARIANTS WaitBounded
PROPERTIES OneSession
CHECK_DEADLOCK FALSE
