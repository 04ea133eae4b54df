CONSTANTS
    Workers = {w1}
    Producers = {}
    Main = Main
    Task = {a}
    Func = {}
    Prio <- MCPrio
    Refusing = {}
    Silent = {}
    Cancelable = TRUE
    Waitable = FALSE
    MaxSpawns = 1
    NULL = NULL
    a = a
    b = b
    c = c
SPECIFICATION FairSpec
PROPERTY CancelReturns
CHECK_DEADLOCK FALSE
