CONSTANTS
    Threads = {t1}
    Priority = {0}
    MaxPushes = 5
    Preallocated = 1
    StorageNodes = 2
    Blocks = {A, B}
    NULL = NULL
SPECIFICATION Spec
INVARIANT FreeCapacityExact
CHECK_DEADLOCK FALSE
