SPECIFICATION Spec
CONSTANTS
    Calls <- MCCalls
    Modules = 2
    Masks = {{0}, {3}, {5, 6}, {7}, {0, 1, 2, 3, 4, 5, 6, 7}}
INVARIANT LfArgsArrive
CHECK_DEADLOCK FALSE
