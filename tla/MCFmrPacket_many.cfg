SPECIFICATION Spec
CONSTANTS
    Calls <- MCCalls
    Modules = 2
    Masks = {{0}}
INVARIANT ManyArrive
CHECK_DEADLOCK FALSE
