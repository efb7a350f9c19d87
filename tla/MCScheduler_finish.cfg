SPECIFICATION Spec
CONSTANTS
    MaxTasks = 4
    MaxPid = 3
    Callers = {0}
    Operations = {"load", "finish"}
INVARIANT RingDespiteCount
CHECK_DEADLOCK FALSE
