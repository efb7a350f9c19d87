SPECIFICATION Spec
CONSTANTS
    MaxTasks = 3
    MaxPid = 3
    Callers = {0}
    Operations = {"load", "pause", "resume", "stop", "finish"}
INVARIANTS RingSurvives CountIsRing FreedIsUnreachable
CONSTRAINT Unspoilt
