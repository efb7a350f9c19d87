SPECIFICATION Spec
CONSTANTS
    MaxTasks = 2
    MaxPid = 3
    Callers = {0, 1}
    Operations = {"load", "pause", "resume", "stop", "finish"}
INVARIANTS RingComplete CountIsRing FreedIsUnreachable
