CONSTANTS
    Workers = {w1, w2}
    Producers = {}
    Main = Main
    Task = {a, b}
    Func = {}
    Prio <- MCPrio
    Refusing = {}
    Silent = {}
    Cancelable = TRUE
    Waitable = FALSE
    MaxSpawns = 1
    NULL = NULL
    a = a
    b = b
    c = c
SPECIFICATION PrefilledSpec
PROPERTIES WaitForAllReturns AcceptedRuns
CHECK_DEADLOCK FALSE
