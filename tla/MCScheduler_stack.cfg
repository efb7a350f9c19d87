SPECIFICATION Spec
CONSTANTS
    MaxTasks = 2
    MaxPid = 2
    Callers = {0}
    Operations = {"load", "stop"}
INVARIANT RunsOnOwnStack
CHECK_DEADLOCK FALSE
