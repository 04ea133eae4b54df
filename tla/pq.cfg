CONSTANTS
    Threads = {t1, t2}
    Priority = {0, 1}
    MaxPushes = 5
    Preallocated = 1
    StorageNodes = 2
    Blocks = {A, B}
    NULL = NULL
SYMMETRY Symmetry
SPECIFICATION Spec
INVARIANTS TypeOK RemovalOrder MemorySound
PROPERTY ImplementsPromise
CHECK_DEADLOCK FALSE
