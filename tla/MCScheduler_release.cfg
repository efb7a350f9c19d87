SPECIFICATION Spec
CONSTANTS
    MaxTasks = 3
    MaxPid = 3
    Callers = {0}
    Operations = {"load", "stop"}
INVARIANT RingComplete
CHECK_DEADLOCK FALSE
