CONSTANTS
    Threads = {t1}
    Priority = {0}
    MaxPushes = 3
    Preallocated = 2
    StorageNodes = 2
    Blocks = {A}
    NULL = NULL
SPECIFICATION SpecDestroy
PROPERTY DisposedOnce
CHECK_DEADLOCK FALSE
