SPECIFICATION Spec
CONSTANTS
    MaxTasks = 2
    MaxPid = 2
    Callers = {0}
    Operations = {"load", "pause", "resume"}
INVARIANT ContextSaved
CHECK_DEADLOCK FALSE
