SPECIFICATION Spec
CONSTANTS
    MaxTasks = 2
    MaxPid = 2
    Callers = {0, 1}
    Operations = {"load", "pause"}
PROPERTY PausedStaysOff
