SPECIFICATION FairSpec
CONSTANTS
    MaxTasks = 4
    MaxPid = 4
    Callers = {0}
    Operations = {"load", "pause"}
INVARIANTS RingComplete ContextSaved
PROPERTIES PausedStaysOff EveryTaskRuns
